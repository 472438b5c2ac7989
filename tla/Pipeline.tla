------------------------------ MODULE Pipeline ------------------------------
(* A session with one pipeline on the CPU backend and its memory:           *)
(* Session.cpp (the resize state), Pipeline.cpp (which tensors get memory    *)
(* when, and when it is given back), Schedule.cpp (OpResizeCache) and the    *)
(* part of GeometryComputerUtils.cpp that Pipeline::encode is made of.       *)
(*                                                                         *)
(* A resize walks through the commands as an execution would, asks the      *)
(* dynamic allocator for what a command needs and frees what nobody needs   *)
(* after it. Memory is an address in the plan of a group: any address that  *)
(* is not held may be handed out again, except that a separate request gets *)
(* one that was never handed out before (what DeferBufferAllocator's         *)
(* PlanDisjoint shows of the real ranges). The sizes of tensors and of what  *)
(* was reserved for them are kept beside. An execution then writes and reads *)
(* at these addresses.                                                      *)
EXTENDS Integers, Sequences, SequencesExt, FiniteSetsExt, Functions, Folds

CONSTANTS
    Models,   \* sessions: a net (a sequence of operators), mAllocInput, mOutputStatic
    Shapes,   \* sizes an input may be resized to
    Addr      \* addresses of a plan: 1 .. n, enough never to run out

\* An operator: the tensors it reads (inputs of the model are negative,
\* operator i makes tensor i), whether its output's size follows its inputs'
\* or is always the same, and whether the output is one of the model's.
ASSUME ModelsAssumption ==
    \A m \in Models :
        /\ m.mAllocInput \in BOOLEAN /\ m.mOutputStatic \in BOOLEAN
        /\ m.net \in Seq([in : Seq(Int), follows : BOOLEAN, output : BOOLEAN])
        /\ \A i \in DOMAIN m.net :
              /\ m.net[i].in # << >>
              /\ \A t \in ToSet(m.net[i].in) : t < i /\ t # 0
ASSUME ShapesAssumption == Shapes \subseteq Nat
ASSUME AddrAssumption == IsFiniteSet(Addr) /\ Addr = 1 .. Cardinality(Addr)

VARIABLES
    model,     \* the session that is run
    flags,     \* mNeedResize; failed: the last resize stopped half-way;
               \* fixed: fixResizeCache was called; unbound: group 0 has no plan
               \* that is bound, though mNeedResize may be unset
    cache,     \* per operator, its OpResizeCache
    tensor,    \* per tensor: length, group, useCount, mem, host, size
    command,   \* per operator, its command: exists, group, temp
    plan,      \* per group, the addresses handed out and held
    buffer,    \* per group, what is behind its plans: "none", "held", or "lost":
               \* released by a realloc that failed, while currentSize still counts it
    at,        \* where the call in progress is
    content,   \* per address, the tensor written there last in this run
    right,     \* every read so far found what it should
    sound      \* the user has kept the contract

vars == <<model, flags, cache, tensor, command, plan, buffer, at, content, right, sound>>

net == model.net
Ops == DOMAIN net
Inputs == {t \in UNION {ToSet(net[i].in) : i \in Ops} : t < 0}
Tensors == Inputs \union Ops
Group == {0, 1}

Usage(t) == CASE t < 0 -> "INPUT" [] t > 0 /\ net[t].output -> "OUTPUT" [] OTHER -> "NORMAL"

\* Where memory is: nowhere, in a plan that was reset since, in the plan of a
\* group, or in memory of its own (STATIC, or the user's).
None == <<"none">>
Dead == <<"dead">>
In(g, a) == <<"plan", g, a>>
Own(t) == <<"own", t>>
InPlan(m, g) == m[1] = "plan" /\ m[2] = g

Idle == [call |-> "none", i |-> 0, g |-> 0, allocInput |-> FALSE]
EmptyPlan == [used |-> {}, live |-> {}]
NoCache == [mCanCache |-> FALSE, mPass |-> FALSE, mComputed |-> FALSE,
            mInputInfos |-> << >>, needComputeShape |-> TRUE, seen |-> << >>]

Init ==
    /\ model \in Models
    /\ flags = [mNeedResize |-> TRUE, failed |-> FALSE,
                fixed |-> FALSE, unbound |-> FALSE]
    /\ cache = [i \in Ops |-> NoCache]
    /\ \E s \in Shapes : tensor =
          [t \in Tensors |->
              [length |-> IF t < 0 THEN s ELSE 0,
               group |-> IF t < 0 /\ ~model.mAllocInput THEN -1 ELSE 0,
               useCount |-> 0, mem |-> None, size |-> IF t < 0 THEN s ELSE 0,
               host |-> IF t < 0 /\ ~model.mAllocInput THEN Own(t) ELSE None]]
    /\ command = [i \in Ops |-> [exists |-> FALSE, group |-> 0, temp |-> None]]
    /\ plan = [g \in Group |-> EmptyPlan]
    /\ buffer = [g \in Group |-> "none"]
    /\ at = Idle
    /\ content = << >>
    /\ right = TRUE /\ sound = TRUE

-----------------------------------------------------------------------------
(* The user's calls that only set something.                               *)

\* Interpreter::resizeTensor on the inputs; a user's own tensor comes with
\* memory of its size.
ResizeTensor(s) ==
    /\ at = Idle
    /\ \E x \in Inputs : tensor[x].length # s
    /\ tensor' = [t \in Tensors |-> IF t > 0 THEN tensor[t] ELSE
                     [tensor[t] EXCEPT !.length = s,
                                       !.size = IF model.mAllocInput THEN @ ELSE s]]
    /\ flags' = [flags EXCEPT !.mNeedResize = TRUE]
    /\ UNCHANGED <<cache, command, plan, at, buffer, content, right, sound>>

\* Session_Resize_Check. The cleared infos of an operator that was fixed make
\* it compute again, while its tensors stay in group 1.
OpenResizeCheck ==
    /\ at = Idle /\ \E i \in Ops : ~cache[i].mCanCache
    /\ cache' = [i \in Ops |-> [cache[i] EXCEPT !.mCanCache = TRUE]]
    /\ sound' = (sound /\ ~flags.fixed)
    /\ UNCHANGED <<flags, tensor, command, plan, at, buffer, content, right>>

-----------------------------------------------------------------------------
(* Memory.                                                                  *)

\* reset of a group's allocator: whatever still refers to its plan dangles.
Kill(m, g) == IF InPlan(m, g) THEN Dead ELSE m
KillTensors(ts, g) ==
    [t \in Tensors |-> [ts[t] EXCEPT !.mem = Kill(@, g), !.host = Kill(@, g)]]
KillTemps(cs, g) == [i \in Ops |-> [cs[i] EXCEPT !.temp = Kill(@, g)]]

\* Mutant: a model's input is planned like any other tensor.
StorageTypeShared(t) ==
    IF Usage(t) = "OUTPUT" /\ model.mOutputStatic THEN "STATIC" ELSE "DYNAMIC"

StorageType(t) ==
    CASE Usage(t) = "OUTPUT" /\ model.mOutputStatic -> "STATIC"
      [] Usage(t) = "INPUT" -> "DYNAMIC_SEPERATE"
      [] OTHER -> "DYNAMIC"

NeedRelease(t, allocInput) ==
    IF allocInput THEN Usage(t) # "OUTPUT" ELSE Usage(t) = "NORMAL"

\* How often the commands read t.
Reads(t, i) == Cardinality({k \in DOMAIN net[i].in : net[i].in[k] = t})

\* Mutant: a command that reads a tensor twice counts once.
UseCountOnce(t, ops) == Cardinality({i \in ops : Reads(t, i) > 0})

UseCount(t, ops) == MapThenSumSet(LAMBDA i : Reads(t, i), ops)

\* The addresses of ts in the plan of g.
Held(ts, g) == {a \in Addr : \E t \in Tensors : ts[t].mem = In(g, a)}

-----------------------------------------------------------------------------
(* Session::resize. With mNeedMalloc alone it does nothing on the CPU: a     *)
(* backend that takes inputs wherever they are returns from allocMemory at  *)
(* once. mNeedMalloc follows mNeedResize otherwise, so only that is kept.   *)

Lengths(ts, i) == [k \in DOMAIN net[i].in |-> ts[net[i].in[k]].length]
OutputSize(ts, i) == IF net[i].follows THEN Max(ToSet(Lengths(ts, i))) ELSE 1

Compared(c, lengths) == c.mCanCache /\ c.mComputed /\ Len(c.mInputInfos) = Len(lengths)
Match(c, lengths) ==
    IF c.mCanCache THEN Compared(c, lengths) /\ c.mInputInfos = lengths ELSE c.mPass

\* What the shape loop does for operator i.
EncodeOp(st, i) ==
    LET old == st.cache[i]
        lengths == Lengths(st.tensor, i)
        needCompute == ~Match(old, lengths)
        can == old.mCanCache /\ ~(needCompute /\ Compared(old, lengths))
        infos == CASE can /\ needCompute -> lengths [] can -> old.mInputInfos [] OTHER -> << >>
    IN  [tensor |-> [st.tensor EXCEPT
            ![i].mem = IF st.tensor[i].group = 0 THEN None ELSE @,
            ![i].length = IF needCompute THEN OutputSize(st.tensor, i) ELSE @],
         cache |-> [st.cache EXCEPT ![i] =
            [mCanCache |-> can, mPass |-> old.mPass /\ ~(needCompute /\ Compared(old, lengths)),
             mComputed |-> old.mComputed \/ (can /\ needCompute), mInputInfos |-> infos,
             needComputeShape |-> needCompute,
             seen |-> IF needCompute THEN lengths ELSE old.seen]],
         same |-> st.same /\ (needCompute \/ lengths = old.seen)]

\* Some operator trusts its infos: if the resize stops, the next one would leave
\* out the commands and executions that this one has not made.
Checking(cs) == \E i \in Ops : cs[i].mCanCache

\* encode up to operator k: a shape that cannot be computed stops it.
\* Afterwards the commands of the operators that were computed are new.
Encode(k) ==
    LET st == FoldLeft(EncodeOp, [tensor |-> KillTensors(tensor, 0), cache |-> cache, same |-> TRUE],
                       [i \in 1 .. k |-> i])
        done == k = Len(net)
        cs == KillTemps(command, 0)
    IN  /\ at = Idle /\ flags.mNeedResize
        /\ tensor' = st.tensor /\ cache' = st.cache
        /\ plan' = [plan EXCEPT ![0] = EmptyPlan]
        /\ command' = IF ~done THEN cs ELSE [i \in Ops |->
              IF st.cache[i].needComputeShape
              THEN [exists |-> TRUE, group |-> 0, temp |-> None] ELSE cs[i]]
        /\ at' = IF done THEN [call |-> "create", i |-> 1, g |-> 0, allocInput |-> model.mAllocInput]
                 ELSE Idle
        /\ flags' = [flags EXCEPT !.failed = @ \/ (~done /\ Checking(st.cache))]
        /\ sound' = (sound /\ st.same /\ ~flags.failed)
        /\ UNCHANGED <<buffer, content, right>>

-----------------------------------------------------------------------------
(* Pipeline::allocMemory and _allocForTensor.                               *)

\* Begin a pass over the commands for group g: count the uses, onResizeBegin.
Begin(call, g, allocInput, ts, cs) ==
    LET ops == {i \in Ops : cs[i].exists}
        used == UNION {ToSet(net[i].in) : i \in ops}
    IN  /\ tensor' = [t \in Tensors |-> [KillTensors(ts, g)[t] EXCEPT
                        !.useCount = IF t \in used THEN UseCount(t, ops) ELSE @]]
        /\ command' = KillTemps(cs, g)
        /\ plan' = [x \in Group |-> IF x = g \/ call = "fix" THEN EmptyPlan ELSE plan[x]]
        /\ at' = [call |-> call, i |-> IF ops = Ops THEN 1 ELSE Len(net) + 1,
                  g |-> g, allocInput |-> allocInput]

\* _createExecutions, onClearBuffer, and the pass begins.
CreateExecutions ==
    /\ at.call = "create"
    /\ Begin("alloc", 0, model.mAllocInput, tensor, command)
    /\ UNCHANGED <<flags, cache, buffer, content, right, sound>>

\* An operator cannot be created.
CreateFails ==
    /\ at.call = "create"
    /\ at' = Idle
    /\ flags' = [flags EXCEPT !.failed = @ \/ Checking(cache)]
    /\ UNCHANGED <<cache, tensor, command, plan, buffer, content, right, sound>>

InPass == at.call \in {"alloc", "fix"}

\* The tensors of command i that get memory in this pass.
ToAlloc(i) ==
    {t \in (IF at.allocInput THEN ToSet(net[i].in) ELSE {}) \union {i} :
        tensor[t].group = at.g /\ tensor[t].mem = None}
ToPlan(i) == {t \in ToAlloc(i) : StorageType(t) # "STATIC"}

\* The ways the allocator can place the tensors of command i and the memory it
\* needs for itself while it executes (0: none, onResize is not called). New
\* addresses are taken in order.
Placements(i) ==
    LET p == plan[at.g]
        temps == IF command[i].group = at.g THEN Addr \ p.live ELSE {0}
        fits(a, tmp) ==
            /\ \A t, u \in ToPlan(i) : t # u => a[t] # a[u]
            /\ tmp \notin Range(a)
            /\ \A t \in ToPlan(i) : StorageType(t) = "DYNAMIC_SEPERATE" => a[t] \notin p.used
            /\ LET all == p.used \union Range(a) \union ({tmp} \ {0})
               IN  all = 1 .. Cardinality(all)
    IN  {pl \in [ToPlan(i) -> Addr \ p.live] \X temps : fits(pl[1], pl[2])}

\* The tensors after command i has got its memory.
Placed(i, a) ==
    [t \in Tensors |->
        LET m == IF t \in DOMAIN a THEN In(at.g, a[t]) ELSE Own(t)
        IN  IF t \in ToAlloc(i)
            THEN [tensor[t] EXCEPT !.mem = m, !.host = m, !.size = tensor[t].length]
            ELSE tensor[t]]

\* _releaseTensor for every input of command i.
Released(ts, i) ==
    [t \in Tensors |->
        LET n == ts[t].useCount - Reads(t, i)
        IN  IF Reads(t, i) > 0 /\ n = 0 /\ ts[t].group = at.g /\ NeedRelease(t, at.allocInput)
            THEN [ts[t] EXCEPT !.useCount = n, !.mem = None]
            ELSE [ts[t] EXCEPT !.useCount = n]]

\* Command i gets memory and is resized; what it was the last to read is freed.
AllocCommand ==
    /\ InPass /\ at.i \in Ops
    /\ \E pl \in Placements(at.i) :
          LET i == at.i  g == at.g
              ts == Released(Placed(i, pl[1]), i)
              tmp == {pl[2]} \ {0}
          IN  /\ tensor' = ts
              /\ plan' = [plan EXCEPT ![g] = [used |-> @.used \union Range(pl[1]) \union tmp,
                                              live |-> Held(ts, g)]]
              /\ command' = IF tmp = {} THEN command
                            ELSE [command EXCEPT ![i].temp = In(g, pl[2])]
    /\ at' = [at EXCEPT !.i = @ + 1]
    /\ UNCHANGED <<flags, cache, buffer, content, right, sound>>

\* Command i cannot be resized; its tensors have their memory already.
AllocFails ==
    /\ InPass /\ at.i \in Ops
    /\ \E pl \in Placements(at.i) :
          LET ts == Placed(at.i, pl[1])
          IN  /\ tensor' = ts
              /\ plan' = [plan EXCEPT ![at.g] = [used |-> @.used \union Range(pl[1]),
                                                 live |-> Held(ts, at.g)]]
    /\ at' = Idle
    /\ flags' = [flags EXCEPT !.failed = TRUE]
    /\ sound' = (sound /\ at.call = "alloc")
    /\ UNCHANGED <<cache, command, buffer, content, right>>

\* Mutant: only what a command writes is recycled.
RecycleOutputs ==
    {i \in Ops : command[i].exists /\ command[i].group = at.g /\ StorageType(i) = "DYNAMIC"}

\* What _recycleDynamicMemory gives back.
Recycle ==
    {t \in UNION {ToSet(net[i].in) \union {i} : i \in
            {j \in Ops : command[j].exists /\ command[j].group = at.g}} : StorageType(t) = "DYNAMIC"}

RecycleAll ==
    /\ InPass /\ at.i = Len(net) + 1
    /\ LET ts == [t \in Tensors |-> IF t \in Recycle THEN [tensor[t] EXCEPT !.mem = None]
                                    ELSE tensor[t]]
       IN  tensor' = ts /\ plan' = [plan EXCEPT ![at.g].live = Held(ts, at.g)]
    /\ at' = [at EXCEPT !.i = @ + 1]
    /\ UNCHANGED <<flags, cache, command, buffer, content, right, sound>>

\* The end of a pass: CPUBackend::onResizeEnd, which is compute and apply. A plan
\* nothing was requested of needs no buffer.
AtEnd == InPass /\ at.i = Len(net) + 2
Asked == plan[at.g].used # {}

\* The pass has answered NO_ERROR, to Session::resize; fixResizeCache does not look.
Answered(unbound) ==
    /\ at' = Idle
    /\ flags' = IF at.call = "fix" THEN flags
                ELSE [flags EXCEPT !.mNeedResize = FALSE, !.failed = FALSE, !.unbound = unbound]
    /\ plan' = [plan EXCEPT ![at.g].used = {}]
    /\ UNCHANGED <<cache, content, right>>

\* The tensors of the plan, and what commands requested, are not bound.
NotBound ==
    /\ tensor' = [t \in Tensors |-> [tensor[t] EXCEPT !.host = Kill(@, at.g)]]
    /\ command' = KillTemps(command, at.g)
    /\ sound' = (sound /\ at.call = "alloc")

\* The plan is bound to the buffer that was there, or to one that is made now.
ResizeEnd ==
    /\ AtEnd /\ Answered(FALSE)
    /\ buffer' = IF Asked THEN [buffer EXCEPT ![at.g] = "held"] ELSE buffer
    /\ UNCHANGED <<tensor, command, sound>>

\* A larger buffer cannot be had, and the one there was is released.
ResizeEndFails ==
    /\ AtEnd /\ Asked /\ NotBound
    /\ at' = Idle
    /\ buffer' = [buffer EXCEPT ![at.g] = IF @ = "none" THEN "none" ELSE "lost"]
    /\ plan' = [plan EXCEPT ![at.g].used = {}]
    /\ UNCHANGED <<flags, cache, content, right>>

\* The plan fits the size of a buffer that was lost: apply finds nothing to do,
\* and the answer is NO_ERROR.
ResizeEndUnbound ==
    /\ AtEnd /\ Asked /\ NotBound /\ Answered(TRUE)
    /\ buffer[at.g] = "lost"
    /\ UNCHANGED buffer

\* fixResizeCache. Operators whose shapes are known to vary stay in group 0;
\* the others and their tensors go to group 1, which is planned now and then
\* left alone. The plan of group 0 and its buffer are given up.
FixResizeCache ==
    LET varies(i) == ~cache[i].mCanCache /\ cache[i].needComputeShape
        fixed == {i \in Ops : ~varies(i) /\ command[i].exists}
        ofFixed == UNION {ToSet(net[i].in) : i \in fixed}
        ts == [t \in Tensors |-> [KillTensors(tensor, 0)[t] EXCEPT
                  !.group = IF t \in fixed \/ (t \in ofFixed /\ @ = 0) THEN 1 ELSE @]]
        cs == [i \in Ops |-> [KillTemps(command, 0)[i] EXCEPT
                  !.group = IF i \in fixed THEN 1 ELSE @]]
    IN  /\ at = Idle
        /\ cache' = [i \in Ops |-> [cache[i] EXCEPT !.mCanCache = FALSE, !.mInputInfos = << >>,
                                                    !.mPass = ~varies(i)]]
        /\ Begin("fix", 1, TRUE, ts, cs)
        /\ buffer' = [buffer EXCEPT ![0] = IF @ = "held" THEN "none" ELSE @]
        /\ flags' = [flags EXCEPT !.fixed = TRUE, !.unbound = \E i \in Ops : cs[i].group = 0]
        /\ sound' = (sound /\ ~flags.failed /\ ~flags.fixed
                     /\ (flags.mNeedResize => \A i \in Ops : cache[i] = NoCache))
        /\ UNCHANGED <<content, right>>

-----------------------------------------------------------------------------
(* Session::run.                                                            *)

Store(f, m, t) == [x \in DOMAIN f \union {m} |-> IF x = m THEN t ELSE f[x]]
Backed(t) == tensor[t].host[1] \in {"plan", "own"} /\ tensor[t].length <= tensor[t].size
Finds(t) == Backed(t) /\ tensor[t].host \in DOMAIN content /\ content[tensor[t].host] = t

\* The user writes the inputs, in any order, and calls run. What onExecuteBegin
\* applies once more is bound already, or passes as bound once more.
Run ==
    /\ at = Idle /\ ~flags.mNeedResize
    /\ content' \in {f \in [{tensor[x].host : x \in Inputs} -> Inputs] :
                       \A h \in DOMAIN f : tensor[f[h]].host = h}
    /\ right' = (right /\ \A x \in Inputs : Backed(x))
    /\ sound' = (sound /\ ~flags.unbound)
    /\ at' = [Idle EXCEPT !.call = "run", !.i = 1]
    /\ UNCHANGED <<flags, cache, tensor, command, plan, buffer>>

\* Command i reads its inputs while it writes its output and its own memory.
RunCommand ==
    /\ at.call = "run" /\ at.i \in Ops
    /\ LET i == at.i
           read == {tensor[t].host : t \in ToSet(net[i].in)}
           written == {tensor[i].host, command[i].temp}
       IN  /\ right' = (right /\ (\A t \in ToSet(net[i].in) : Finds(t)) /\ Backed(i)
                         /\ command[i].temp[1] = "plan" /\ read \intersect written = {}
                         /\ tensor[i].host # command[i].temp)
           /\ content' = Store(Store(content, command[i].temp, 0), tensor[i].host, i)
    /\ at' = [at EXCEPT !.i = @ + 1]
    /\ UNCHANGED <<flags, cache, tensor, command, plan, buffer, sound>>

\* The user reads the outputs.
RunEnd ==
    /\ at.call = "run" /\ at.i = Len(net) + 1
    /\ right' = (right /\ \A t \in Ops : net[t].output => Finds(t))
    /\ content' = << >>
    /\ at' = Idle
    /\ UNCHANGED <<flags, cache, tensor, command, plan, buffer, sound>>

\* A command answers an error, or the callback stops the run.
RunFails ==
    /\ at.call = "run"
    /\ at' = Idle /\ content' = << >>
    /\ UNCHANGED <<flags, cache, tensor, command, plan, buffer, right, sound>>

Step ==
    \/ \E s \in Shapes : ResizeTensor(s)
    \/ OpenResizeCheck \/ FixResizeCache
    \/ \E k \in Ops : Encode(k)
    \/ CreateExecutions \/ CreateFails
    \/ AllocCommand \/ AllocFails \/ RecycleAll
    \/ ResizeEnd \/ ResizeEndFails \/ ResizeEndUnbound
    \/ Run \/ RunCommand \/ RunEnd \/ RunFails

Next == Step /\ UNCHANGED model

Spec == Init /\ [][Next]_vars

-----------------------------------------------------------------------------

\* Types; a use count never drops below zero or exceeds the reads of the commands.
\* Under the contract what tensors hold of a plan was handed out since its reset.
TypeOK ==
    /\ \A t \in Tensors :
          /\ tensor[t].length \in Nat /\ tensor[t].size \in Nat
          /\ tensor[t].group \in {-1, 0, 1}
          /\ tensor[t].useCount \in 0 .. UseCount(t, Ops)
    /\ \A i \in Ops : command[i].exists \in BOOLEAN /\ command[i].group \in Group
    /\ \A g \in Group : plan[g].used \subseteq Addr /\ (sound => plan[g].live \subseteq plan[g].used)
    /\ buffer \in [Group -> {"none", "held", "lost"}]
    /\ at.call \in {"none", "create", "alloc", "fix", "run"} /\ at.i \in 0 .. Len(net) + 2
    /\ right \in BOOLEAN /\ sound \in BOOLEAN

\* Every command of a run finds in each input what the user or the producing
\* command wrote in this run, in memory that is large enough and that neither its
\* output nor its own buffer shares, and the user finds the outputs: the use
\* counts, the order of frees, the separate storage of inputs, and the groups of
\* a fixed session never let two values share memory that are needed together. By
\* the contract a plan that NO_ERROR did not bind is not run; resizes that fail, and
\* buffers that are lost with them, are within it.
ReadsRight == sound => right

\* When onResizeEnd computes a plan everything in it has been given back, which
\* DeferBufferAllocator::compute relies on, and no tensor ever owns a chunk of a
\* plan that was reset: giving it back would touch a node that is gone, and
\* keeping it would pass for memory.
Recycled ==
    sound => /\ (InPass /\ at.i = Len(net) + 2) => plan[at.g].live = {}
             /\ \A t \in Tensors : tensor[t].mem # Dead

=============================================================================
