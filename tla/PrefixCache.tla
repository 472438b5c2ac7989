---------------------------- MODULE PrefixCache ----------------------------
(***************************************************************************)
(* The prefix cache of the LLM engine: the KV cache of a common prefix is  *)
(* kept in files that later processes load instead of prefilling again.    *)
(* After setPrefixCacheFile the first generate call prefills the prefix    *)
(* into the files, or is passed when every layer has its sync marker; the  *)
(* second one loads the files.  The layers find their file by counting:    *)
(* every layer that opens one advances KVMeta::layer_index.                *)
(*                                                                         *)
(* A full attention layer keeps its cache in the mapped prefix file also   *)
(* after the markers exist: CPUKVCacheManager.  A linear attention layer   *)
(* copies its state into the file in every pass in which file_flag is      *)
(* PendingWrite: CPULinearAttention.  The .k and the .v file of a layer,   *)
(* and their two markers, are one here.  The KV cache of other prompts is  *)
(* in memory (kvcache_mmap is off) and is not quantised.                   *)
(***************************************************************************)
EXTENDS Integers, Sequences, SequencesExt, FiniteSets, FiniteSetsExt

CONSTANTS
    Models,     \* the models, each the sequence of its layers: "full" or "linear"
    Prefix,     \* length of the prefix, in tokens
    Blocks,     \* the ways generate(input_ids) cuts a prompt of Prefix tokens
                \*   into passes, one pass first (mBlockSize)
    MaxTokens,  \* bound: tokens in the cache
    ForwardFails \* a forward pass may fail

ASSUME PrefixAssumption ==
    /\ \A m \in Models : m \in Seq({"full", "linear"}) /\ m # << >>
    /\ Prefix \in Nat \ {0} /\ MaxTokens \in Nat /\ ForwardFails \in BOOLEAN
    /\ \A b \in Blocks :
          /\ b \in Seq(Nat \ {0})
          \* sum[i]: tokens of the first i passes
          /\ \E sum \in [0 .. Len(b) -> 0 .. Prefix] :
                /\ sum[0] = 0 /\ sum[Len(b)] = Prefix
                /\ \A i \in DOMAIN b : sum[i] = sum[i - 1] + b[i]

VARIABLES
    Layer, \* the model of this device: one of Models
    file,  \* layer_index -> content of the file, NoFile when there is none
    mark,  \* the indices whose sync marker exists
    proc,  \* the process, see Started
    sound  \* history: the cache has been used as the code expects, see README

vars == <<Layer, file, mark, proc, sound>>

layer_nums == Len(Layer)
Layers == DOMAIN Layer
Full == {l \in Layers : Layer[l] = "full"}

\* What a file holds: the cache of layer by for its first toks tokens; whole: not
\* in the middle of being written.
Content(by, toks, whole) == [by |-> by, toks |-> toks, whole |-> whole]
NoFile == Content(0, 0, FALSE)

\* The file of layer l gives the cache of the prefix.
HoldsPrefix(l) ==
    /\ file[l].by = l /\ file[l].whole
    /\ IF l \in Full THEN file[l].toks >= Prefix ELSE file[l].toks = Prefix

Stopped == [pc |-> "down"]

Started ==
    [pc |-> "ready",
     mPrefixCacheMode |-> FALSE, mCallIndex |-> 0, mIsPrefixFileExist |-> FALSE,
     file_flag |-> "NoChange", layer_index |-> 0,
     previous |-> 0, remove |-> 0,
     status |-> "RUNNING",
     mapped |-> [l \in Layers |-> 0],  \* index of the prefix file its cache is in
     len |-> [l \in Layers |-> 0],     \* mPastLength, or tokens in the state
     todo |-> << >>,  \* what is left of the generate call: passes, by their
                      \*   tokens, and 0 for completePrefixWrite
     layer |-> 1,     \* the layer of the running pass
     right |-> TRUE]  \* history: what was loaded was the prefix

Init ==
    /\ Layer \in Models
    /\ file = [l \in Layers |-> NoFile] /\ mark = {}
    /\ proc = Stopped
    /\ sound = TRUE

Start ==
    /\ proc = Stopped
    /\ proc' = Started
    /\ UNCHANGED <<file, mark, sound>>

Idle == proc.pc = "ready" /\ proc.todo = << >>
Empty == proc.previous = proc.remove

-----------------------------------------------------------------------------

SetPrefixCacheFileIf(exist) ==
    /\ Idle
    /\ proc' = [proc EXCEPT !.mPrefixCacheMode = TRUE, !.mCallIndex = 0,
                            !.mIsPrefixFileExist = exist]
    /\ UNCHANGED <<file, mark, sound>>

\* Mutant: the files themselves count, not their markers.
SetPrefixCacheFileUnmarked ==
    SetPrefixCacheFileIf(\A l \in Layers : file[l] # NoFile)

SetPrefixCacheFile == SetPrefixCacheFileIf(mark = Layers)

\* The passes and completePrefixWrite of a generate call: a prompt cut into blocks
\* is completed before tokens are generated, an uncut one afterwards.
Passes(blocks, decode) ==
    IF Len(blocks) = 1 THEN blocks \o decode \o <<0>> ELSE blocks \o <<0>> \o decode

\* generate(input_ids, max_tokens), for the prefix in the first call of a prefix
\* cache and for other prompts of as many tokens otherwise.
Generate(blocks, decode) ==
    LET call == proc.mCallIndex + 1
        first  == proc.mPrefixCacheMode /\ call = 1
        second == proc.mPrefixCacheMode /\ call = 2
        writes == first /\ ~proc.mIsPrefixFileExist
        pass   == first /\ proc.mIsPrefixFileExist
        reads  == second /\ proc.mIsPrefixFileExist
    IN  /\ Idle /\ proc.status = "RUNNING"
        /\ pass => decode = << >>  \* there are no logits to sample from
        /\ proc.previous - proc.remove + 2 * Prefix + Len(decode) <= MaxTokens
        /\ proc' = [proc EXCEPT
              !.mCallIndex = IF proc.mPrefixCacheMode THEN call ELSE @,
              !.file_flag = IF writes THEN "PendingWrite"
                            ELSE IF reads THEN "PendingRead"
                            ELSE @,
              !.todo = IF pass THEN << >> ELSE Passes(blocks, decode)]
        \* The prefix comes first in the history; with linear layers it must be one
        \* pass and nothing more.
        /\ sound' = (sound /\ (writes \/ reads => Empty)
                      /\ ((writes /\ Full # Layers) => Len(blocks) = 1 /\ decode = << >>))
        /\ UNCHANGED <<file, mark>>

\* eraseHistory and reset: the next pass starts after keep tokens.
EraseHistory(keep) ==
    /\ Idle /\ keep < proc.previous
    /\ proc' = [proc EXCEPT !.remove = proc.previous - keep]
    /\ sound' = (sound /\ (keep # 0 => keep >= Prefix))
    /\ UNCHANGED <<file, mark>>

-----------------------------------------------------------------------------
(* One forward pass of n tokens: CPUAttention and CPULinearAttention,      *)
(* layer by layer.                                                         *)

Add == Head(proc.todo)
InPass == proc.pc = "ready" /\ proc.todo # << >> /\ Add > 0
This == proc.layer
Index == proc.layer_index + 1

\* layer_index++, modulo layer_nums
NextIndex == (proc.layer_index + 1) % layer_nums

\* The pass is through this layer; after the last one meta.sync, and in the second
\* call what follows in generate(input_embeds).
LayerDoneAfter(p, prefix) ==
    LET second == p.mPrefixCacheMode /\ p.mCallIndex = 2
        synced == [p EXCEPT !.previous = @ - p.remove + Add, !.remove = 0,
                            !.todo = Tail(@), !.layer = 1, !.pc = "ready"]
    IN  IF This < layer_nums THEN [p EXCEPT !.layer = @ + 1, !.pc = "ready"]
        ELSE IF ~second THEN synced
        ELSE [synced EXCEPT
                !.previous = IF p.mIsPrefixFileExist THEN @ + prefix ELSE @,
                !.file_flag = "NoChange", !.layer_index = 0, !.mPrefixCacheMode = FALSE]

\* Mutant: previous leaves out the tokens that were loaded.
LayerDoneUnloaded(p) == LayerDoneAfter(p, 0)

LayerDone(p) == LayerDoneAfter(p, Prefix)

\* onClear and onAlloc: the history is empty.
OnAllocAt(next) ==
    /\ InPass /\ This \in Full /\ Empty
    /\ \/ /\ proc.file_flag = "PendingRead"
          /\ proc' = [proc EXCEPT !.layer_index = next, !.mapped[This] = 0,
                        !.len[This] = Prefix, !.pc = "update",
                        !.right = @ /\ Index = This /\ HoldsPrefix(This)]
          /\ UNCHANGED file
       \/ /\ proc.file_flag = "PendingWrite"
          /\ proc' = [proc EXCEPT !.layer_index = next, !.mapped[This] = Index,
                        !.len[This] = 0, !.pc = "update"]
          /\ file' = [file EXCEPT ![Index] = Content(This, 0, FALSE)]
       \/ /\ proc.file_flag = "NoChange"
          /\ proc' = [proc EXCEPT !.mapped[This] = 0, !.len[This] = 0, !.pc = "update"]
          /\ UNCHANGED file
    /\ UNCHANGED <<mark, sound>>

\* Mutant: layer_index does not advance.
OnAllocUncounted == OnAllocAt(proc.layer_index)

OnAlloc == OnAllocAt(NextIndex)

\* onRealloc: what was removed is dropped; new tokens will overwrite it.  The cache
\* may have to grow first, which expandKVCacheInDisk does in place.
OnRealloc(grows) ==
    LET f == proc.mapped[This]
        left == proc.len[This] - proc.remove
        damaged == proc.remove > 0 /\ left < Prefix
    IN  /\ InPass /\ This \in Full /\ ~Empty
        /\ proc' = [proc EXCEPT !.len[This] = left,
                                !.pc = IF grows /\ f # 0 THEN "zeroed" ELSE "update"]
        /\ file' = IF f = 0 THEN file
                   ELSE [file EXCEPT ![f] = Content(IF damaged THEN 0 ELSE @.by, @.toks,
                                                    @.whole /\ ~grows)]
        /\ UNCHANGED <<mark, sound>>

\* Mutant: only the first half of the old content is copied back.
ExpandCopyHalf ==
    /\ proc.pc = "zeroed"
    /\ file' = [file EXCEPT ![proc.mapped[This]] = Content(This, @.toks \div 2, TRUE)]
    /\ proc' = [proc EXCEPT !.pc = "update"]
    /\ UNCHANGED <<mark, sound>>

\* The end of expandKVCacheInDisk: the old content is copied back.
ExpandCopy ==
    /\ proc.pc = "zeroed"
    /\ file' = [file EXCEPT ![proc.mapped[This]].whole = TRUE]
    /\ proc' = [proc EXCEPT !.pc = "update"]
    /\ UNCHANGED <<mark, sound>>

\* onUpdateKV: the new tokens are written.
OnUpdateKV ==
    LET f == proc.mapped[This]
        n == proc.len[This] + Add
    IN  /\ proc.pc = "update"
        /\ file' = IF f = 0 THEN file
                   ELSE [file EXCEPT ![f] = Content(@.by, IF @.toks < n THEN n ELSE @.toks, TRUE)]
        /\ proc' = LayerDone([proc EXCEPT !.len[This] = n])
        /\ UNCHANGED <<mark, sound>>

\* CPULinearAttention::onResize: the state is cleared for a pass of several tokens
\* that starts a history. (It is new, and empty, in the first pass of a process.)
Clears(resizes) == resizes /\ Add > 1 /\ Empty

\* CPULinearAttention::onExecute: loads, computes, saves. By the contract the prefix
\* is not added to the state of an earlier history.
LinearExecute(resizes) ==
    LET reads  == proc.file_flag = "PendingRead"
        writes == proc.file_flag = "PendingWrite"
        old    == proc.len[This]
        before == IF reads THEN Prefix ELSE IF Clears(resizes) THEN 0 ELSE old
        after  == Min({before + Add, MaxTokens})  \* erased tokens stay in the state
    IN  /\ InPass /\ This \notin Full
        /\ proc' = LayerDone([proc EXCEPT
                       !.len[This] = after,
                       !.layer_index = IF reads \/ writes THEN NextIndex ELSE @,
                       !.right = @ /\ (reads => Index = This /\ HoldsPrefix(This))])
        /\ file' = IF writes THEN [file EXCEPT ![Index] = Content(This, after, TRUE)]
                   ELSE file
        /\ sound' = (sound /\ (writes /\ old # 0 => resizes /\ Add > 1))
        /\ UNCHANGED mark

\* The pass fails before any layer runs; meta.sync is not called, and of the call
\* only completePrefixWrite is left.
ForwardError ==
    /\ ForwardFails /\ InPass /\ This = 1
    /\ proc' = [proc EXCEPT !.status = "INTERNAL_ERROR", !.todo = <<0>>]
    /\ sound' = (sound /\ proc.file_flag # "PendingWrite")
    /\ UNCHANGED <<file, mark>>

CompletePrefixWrite ==
    /\ proc.pc = "ready" /\ proc.todo # << >> /\ Add = 0
    /\ IF proc.mPrefixCacheMode /\ proc.mCallIndex = 1 /\ ~proc.mIsPrefixFileExist
       THEN proc' = [proc EXCEPT !.pc = "mark", !.file_flag = "NoChange", !.layer_index = 0]
       ELSE proc' = [proc EXCEPT !.todo = Tail(@)]
    /\ UNCHANGED <<file, mark, sound>>

\* Its loop: a layer whose files exist gets its marker.
CreateSync ==
    /\ proc.pc = "mark"
    /\ mark' = IF file[This] = NoFile THEN mark ELSE mark \union {This}
    /\ proc' = IF This < layer_nums THEN [proc EXCEPT !.layer = @ + 1]
               ELSE [proc EXCEPT !.layer = 1, !.pc = "ready", !.todo = Tail(@)]
    /\ UNCHANGED <<file, sound>>

\* The process ends or dies; a file that was being expanded stays as it is.
Stop ==
    /\ proc # Stopped
    /\ proc' = Stopped
    /\ sound' = (sound /\ ~(proc.pc = "zeroed" /\ mark = Layers))
    /\ UNCHANGED <<file, mark>>

Step ==
    \/ Start
    \/ SetPrefixCacheFile
    \/ \E blocks \in Blocks, decode \in {<< >>, <<1>>} : Generate(blocks, decode)
    \/ \E keep \in 0 .. MaxTokens : EraseHistory(keep)
    \/ OnAlloc
    \/ \E grows \in BOOLEAN : OnRealloc(grows)
    \/ ExpandCopy
    \/ OnUpdateKV
    \/ \E resizes \in BOOLEAN : LinearExecute(resizes)
    \/ ForwardError
    \/ CompletePrefixWrite
    \/ CreateSync
    \/ Stop

Next == Step /\ UNCHANGED Layer

Spec == Init /\ [][Next]_vars

-----------------------------------------------------------------------------

\* Types; layer_index stays in range and no two layers keep their cache in one file.
TypeOK ==
    /\ Layer \in Models
    /\ \A f \in Layers : /\ file[f].by \in 0 .. layer_nums
                         /\ file[f].toks \in 0 .. MaxTokens /\ file[f].whole \in BOOLEAN
    /\ mark \subseteq Layers /\ sound \in BOOLEAN
    /\ proc # Stopped =>
         /\ proc.previous \in 0 .. MaxTokens /\ proc.remove \in 0 .. proc.previous
         /\ proc.layer_index \in 0 .. layer_nums - 1
         \* Each prefix file is the cache of one layer.
         /\ \A f, g \in Full : (f # g /\ proc.mapped[f] # 0) => proc.mapped[f] # proc.mapped[g]

\* Once every layer has its marker, a process that loads the files finds the cache
\* of the prefix in the file of every layer, whatever was interrupted before and
\* whatever the process that wrote them does with its history afterwards.
MarkedIsPrefix ==
    (sound /\ mark = Layers /\ ~(proc # Stopped /\ proc.pc = "zeroed")) =>
        \A f \in Layers : HoldsPrefix(f)

\* What a process loaded is the prefix, layer by layer.
LoadedIsPrefix == (sound /\ proc # Stopped) => proc.right

\* MNN_ASSERT(mMeta->previous == mKVCacheManager->kvLength()) of CPUAttention: the
\* engine and every full attention layer agree on the length, also after a prefix
\* was loaded.  (The state of a linear layer cannot be rolled back and is not.)
LengthsAgree ==
    (sound /\ proc # Stopped /\ Idle /\ proc.status = "RUNNING") =>
        \A f \in Full : proc.len[f] = proc.previous

\* "Create sync files to mark prefix cache as valid" (llm.cpp): files whose markers
\* all exist hold the prefix once the process is gone.
SyncMarksValid ==
    (proc = Stopped /\ mark = Layers) => \A f \in Layers : HoldsPrefix(f)

=============================================================================
