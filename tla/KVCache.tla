------------------------------- MODULE KVCache -------------------------------
(***************************************************************************)
(* The key/value cache of an attention layer and the engine that edits it: *)
(* KVMeta (source/core/KVMeta.hpp), CPUKVCacheManager and its use by       *)
(* CPUAttention (source/backend/cpu), and the calls of Llm and of its      *)
(* speculative decoders (transformers/llm/engine/src) that append tokens   *)
(* to the history or erase some of them.                                   *)
(*                                                                         *)
(* An edit is only noted in the meta (remove, reserve); the next forward   *)
(* pass applies it in the cache, and meta.sync then computes the length    *)
(* again, apart from the cache.  Both must come to the same history.       *)
(*                                                                         *)
(* The buffers are modelled cell by cell with the index arithmetic of the  *)
(* code, for one head of one layer: heads and layers are copies at their   *)
(* own base address.  A cell holds <<token, dim>>.  Quantisation keeps the *)
(* layout and leaves out the rounding and its scales.                      *)
(***************************************************************************)
EXTENDS Integers, Sequences, SequencesExt, FiniteSets

CONSTANTS
    hP, lP,          \* packing of the matmul kernel (MNNGetMatMulPackMode)
    mHeadDim,
    FlashBlock,      \* MNN_FLASH_ATTENTION_BLOCK_SIZE
    mExpandChunk,    \* spare tokens of a new buffer
    AttentionOption, \* the values of hint().attentionOption that are tried
    AddSizes,        \* tokens one forward pass may bring
    MaxTokens        \* bound: tokens over the whole behaviour

ASSUME KVAssumption ==
    /\ {hP, lP, mHeadDim, FlashBlock} \subseteq Nat \ {0}
    /\ mExpandChunk \in Nat /\ MaxTokens \in Nat
    /\ AddSizes \subseteq Nat \ {0} /\ AttentionOption \subseteq 0..15

VARIABLES
    option,      \* attentionOption of this run of the engine
    meta,        \* KVMeta: previous, remove, reserve (pairs <<begin, size>>), add
    cache,       \* mMaxLength, mFlashAttentionUpperKv, mPastLength, key, value
    all_seq_len, \* LlmContext: the position of the next token
    hist,        \* what the cache stands for after the last forward pass
    keep,        \* what must be left of hist once the noted edits are applied
    next,        \* the next token; every token is new
    sound        \* the calls so far are within the contract, see EraseSupported

vars == <<option, meta, cache, all_seq_len, hist, keep, next, sound>>

UP_DIV(x, y) == (x + y - 1) \div y
ROUND_UP(x, y) == UP_DIV(x, y) * y
Dims == 0..mHeadDim - 1

Zero == <<0, 0>>       \* a cell that was cleared
Garbage == <<-1, -1>>  \* a cell of a buffer nobody has written
At(buf, i) == IF i \in DOMAIN buf THEN buf[i] ELSE Garbage

-----------------------------------------------------------------------------
(* Modes and layouts. *)

mUseFlashAttention == option \div 8 = 1

mKeyQuantMode ==
    CASE option % 8 \in {1, 2} -> "Int8" [] option % 8 \in {3, 4, 5, 6} -> "TQ"
      [] OTHER -> "None"

\* Int8 values need flash attention; without it they stay floats.
mValueQuantMode ==
    CASE option % 8 = 2 /\ mUseFlashAttention -> "Int8"
      [] option % 8 \in {4, 6} -> "TQ"
      [] OTHER -> "None"

UpperKv(max) == IF mUseFlashAttention THEN FlashBlock ELSE max

KeySize(max) ==
    IF mKeyQuantMode = "TQ" THEN max * mHeadDim
    ELSE ROUND_UP(max, hP) * ROUND_UP(mHeadDim, lP)

ValueSize(max, upper) ==
    IF mValueQuantMode = "TQ" THEN max * mHeadDim
    ELSE UP_DIV(max, upper) * ROUND_UP(mHeadDim, hP) * ROUND_UP(upper, lP)

keyIndex(seq, dim) ==
    (seq \div hP) * ROUND_UP(mHeadDim, lP) * hP + (dim \div lP) * hP * lP
        + (seq % hP) * lP + (dim % lP)

\* Where moveKV takes a value to be: one block of mMaxLength tokens.
valueIndex(max, seq, dim) ==
    (dim \div hP) * ROUND_UP(max, lP) * hP + (seq \div lP) * hP * lP
        + (dim % hP) * lP + (seq % lP)

\* Where ProcessKey puts a key, and where the attention kernels read it.
KeyCell(seq, dim) ==
    IF mKeyQuantMode = "TQ" THEN seq * mHeadDim + dim ELSE keyIndex(seq, dim)

\* Where ProcessValue puts a value: blocks of `upper` tokens.
ValueCellIn(upper, blk, inner, dim) ==
    IF mValueQuantMode = "TQ" THEN (blk * upper + inner) * mHeadDim + dim
    ELSE blk * UP_DIV(mHeadDim, hP) * UP_DIV(upper, lP) * lP * hP
         + (dim \div hP) * UP_DIV(upper, lP) * lP * hP + (dim % hP) * lP
         + (inner \div lP) * lP * hP + (inner % lP)

ValueCell(upper, seq, dim) == ValueCellIn(upper, seq \div upper, seq % upper, dim)

\* buf with content new[p] at index at[p], for every <<seq, dim>> p.
Store(buf, at, new) ==
    [i \in DOMAIN buf |-> LET P == {p \in DOMAIN at : at[p] = i}
                          IN  IF P = {} THEN buf[i] ELSE new[CHOOSE p \in P : TRUE]]

-----------------------------------------------------------------------------
(* CPUKVCacheManager, as functions of its fields. *)

NoCache == [mMaxLength |-> 0, upper |-> 0, mPastLength |-> 0,
            key |-> << >>, value |-> << >>]

\* onAlloc after onClear, for a pass of n tokens.
OnAlloc(n) ==
    LET max == n + mExpandChunk
        cleared(yes) == IF yes THEN Zero ELSE Garbage
    IN  [mMaxLength |-> max, upper |-> UpperKv(max), mPastLength |-> 0,
         key |-> [i \in 0..KeySize(max) - 1 |->
                     cleared(mHeadDim % lP # 0 \/ mKeyQuantMode # "None")],
         value |-> [i \in 0..ValueSize(max, UpperKv(max)) - 1 |->
                     cleared(lP > 1 \/ mValueQuantMode # "None")]]

\* Mutant: what lies past the old values is not cleared.
ExpandValueKeepsGarbage(c, max) ==
    [i \in 0..ValueSize(max, UpperKv(max)) - 1 |->
        IF mUseFlashAttention THEN At(c.value, i)
        ELSE LET new == ROUND_UP(max, lP) * hP
                 old == ROUND_UP(c.mMaxLength, lP) * hP
             IN  IF i % new < old THEN At(c.value, (i \div new) * old + (i % new))
                 ELSE Garbage]

\* Flash attention appends blocks; otherwise each row of hP dims gets longer.
ExpandValue(c, max) ==
    [i \in 0..ValueSize(max, UpperKv(max)) - 1 |->
        IF mUseFlashAttention
        THEN IF i \in DOMAIN c.value THEN c.value[i] ELSE Zero
        ELSE LET new == ROUND_UP(max, lP) * hP
                 old == ROUND_UP(c.mMaxLength, lP) * hP
             IN  IF i % new < old THEN At(c.value, (i \div new) * old + (i % new))
                 ELSE IF lP > 1 THEN Zero ELSE Garbage]

\* expandKVCacheInMem and expandKVCacheInDisk (whose files start out as zeros).
Expand(c, max) ==
    [c EXCEPT !.mMaxLength = max, !.upper = UpperKv(max),
              !.key = [i \in 0..KeySize(max) - 1 |->
                          IF i \in DOMAIN c.key THEN c.key[i] ELSE Zero],
              !.value = ExpandValue(c, max)]

\* moveKV(src, mPastLength, size), and dstIndex += size.  The loop goes upwards
\* and dst <= src, so it copies what was there before.
MoveKV(c, src, size) ==
    LET P == (0..size - 1) \X Dims
        dst == c.mPastLength
    IN  [c EXCEPT
           !.key = Store(@, [p \in P |-> keyIndex(dst + p[1], p[2])],
                            [p \in P |-> At(@, keyIndex(src + p[1], p[2]))]),
           !.value = Store(@, [p \in P |-> valueIndex(c.mMaxLength, dst + p[1], p[2])],
                              [p \in P |-> At(@, valueIndex(c.mMaxLength, src + p[1], p[2]))]),
           !.mPastLength = dst + size]

ComputeReverseSize(m) ==
    LET sum[k \in 0..Len(m.reserve)] == IF k = 0 THEN 0 ELSE sum[k - 1] + m.reserve[k][2]
    IN  sum[Len(m.reserve)]

\* The cache after the moves for the entries of a reserve, in their order.
MoveReserve(c, start, reserve) ==
    LET done[k \in 0..Len(reserve)] ==
            IF k = 0 THEN c ELSE MoveKV(done[k - 1], start + reserve[k][1], reserve[k][2])
    IN  done[Len(reserve)]

\* Mutant: the room for the reserved tokens is not counted.
OnReallocForgetsReserve(c, m) ==
    LET need == m.previous + m.add - m.remove
        room == IF need > c.mMaxLength THEN Expand(c, need + mExpandChunk) ELSE c
        start == c.mPastLength - m.remove
        cut == [room EXCEPT !.mPastLength = start]
    IN  IF mKeyQuantMode # "None" \/ mValueQuantMode # "None" THEN cut
        ELSE MoveReserve(cut, start, m.reserve)

\* A quantised cache cannot move tokens: there the reserve is ignored.
OnRealloc(c, m) ==
    LET need == m.previous + m.add - m.remove + ComputeReverseSize(m)
        room == IF need > c.mMaxLength THEN Expand(c, need + mExpandChunk) ELSE c
        start == c.mPastLength - m.remove
        cut == [room EXCEPT !.mPastLength = start]
    IN  IF mKeyQuantMode # "None" \/ mValueQuantMode # "None" THEN cut
        ELSE MoveReserve(cut, start, m.reserve)

OnUpdateKV(c, toks) ==
    LET P == (0..Len(toks) - 1) \X Dims
        new == [p \in P |-> <<toks[p[1] + 1], p[2]>>]
    IN  [c EXCEPT
           !.key = Store(@, [p \in P |-> KeyCell(c.mPastLength + p[1], p[2])], new),
           !.value = Store(@, [p \in P |-> ValueCell(c.upper, c.mPastLength + p[1], p[2])], new),
           !.mPastLength = @ + Len(toks)]

\* The cache part of CPUAttention::onExecute.
Attention(m, toks) ==
    OnUpdateKV(IF m.previous = m.remove THEN OnAlloc(Len(toks)) ELSE OnRealloc(cache, m),
               toks)

Sync(m) == [previous |-> m.previous - m.remove + m.add + ComputeReverseSize(m),
            remove |-> 0, reserve |-> << >>, add |-> 0]

-----------------------------------------------------------------------------
(* The engine. *)

Init ==
    /\ option \in AttentionOption
    /\ meta = [previous |-> 0, remove |-> 0, reserve |-> << >>, add |-> 0]
    /\ cache = NoCache
    /\ all_seq_len = 0 /\ hist = << >> /\ keep = << >> /\ next = 1 /\ sound = TRUE

Fresh(n) == [i \in 1..n |-> next + i - 1]

\* forwardRaw for n tokens: attention, then meta.sync; the caller then notes an edit.
Forward(n, remove, reserve) ==
    LET m == [meta EXCEPT !.add = n] IN
    /\ next + n - 1 <= MaxTokens
    /\ cache' = Attention(m, Fresh(n))
    /\ meta' = [Sync(m) EXCEPT !.remove = remove, !.reserve = reserve]
    /\ hist' = keep \o Fresh(n)
    /\ next' = next + n
    /\ UNCHANGED option

\* A pass that starts from an empty cache, with no reserve noted, makes good whatever
\* went wrong before.
SoundAfterForward ==
    IF meta.previous = meta.remove THEN meta.reserve = << >> ELSE sound

\* A prompt, or one decoded token: forwardVec, then updateContext.
Generate(n) ==
    /\ Forward(n, 0, << >>)
    /\ keep' = hist' /\ all_seq_len' = all_seq_len + n
    /\ sound' = SoundAfterForward

\* forwardRaw answers without meta.sync, before or after this layer has run.
GenerateFails(n, ran) ==
    LET m == [meta EXCEPT !.add = n] IN
    /\ next + n - 1 <= MaxTokens
    /\ meta' = m /\ next' = IF ran THEN next + n ELSE next
    /\ cache' = IF ran THEN Attention(m, Fresh(n)) ELSE cache
    /\ sound' = (sound /\ ~ran)
    /\ UNCHANGED <<option, all_seq_len, hist, keep>>

\* Mutant: every draft is counted as part of the text.
DraftVerifyCountsAll(n, i) ==
    /\ i < n /\ Forward(n, n - i, << >>)
    /\ keep' = SubSeq(hist', 1, Len(hist') - (n - i))
    /\ all_seq_len' = all_seq_len + n
    /\ sound' = SoundAfterForward

\* Lookahead and MTP: n drafts are run at once, the first i of them are accepted.
DraftVerify(n, i) ==
    /\ i < n /\ Forward(n, n - i, << >>)
    /\ keep' = SubSeq(hist', 1, Len(hist') - (n - i))
    /\ all_seq_len' = all_seq_len + i
    /\ sound' = SoundAfterForward

\* Tokens can only be moved in float buffers with one block of values.
MoveSupported ==
    mKeyQuantMode = "None" /\ mValueQuantMode = "None" /\ ~mUseFlashAttention

\* The drafts on a path of a tree of n: a child comes after its parent, the root is first.
AcceptedPaths(n) ==
    {path \in UNION {[1..k -> 0..n - 1] : k \in 1..n} :
        path[1] = 0 /\ \A j, k \in DOMAIN path : j < k => path[j] < path[k]}

\* Eagle: a tree of n drafts is run, the ones on the path are accepted; all n are removed
\* and the accepted ones reserved one by one.  After the last pass of a generation,
\* updateDraft is not called and nothing is noted.
TreeDecoding(n, path, last) ==
    LET Pairs == [k \in DOMAIN path |-> <<path[k], 1>>]
    IN  /\ keep # << >>
        /\ IF last THEN Forward(n, 0, << >>) ELSE Forward(n, n, Pairs)
        /\ keep' = keep \o [k \in DOMAIN path |-> Fresh(n)[path[k] + 1]]
        /\ all_seq_len' = IF last THEN all_seq_len ELSE all_seq_len + Len(path)
        /\ sound' = (SoundAfterForward /\ MoveSupported /\ ~last)

\* What eraseHistory can be asked for with an effect on the cache that its caller
\* expects: nothing that is pending is overridden by mistake, and tokens behind the
\* erased range survive only where they can be moved and something stays in front.
EraseSupported(begin, end) ==
    /\ meta.reserve = << >>
    /\ begin <= meta.previous - meta.remove
    /\ end # meta.previous => meta.remove = 0 /\ begin > 0 /\ MoveSupported

\* Mutant: the range is not checked.
EraseHistoryUnchecked(begin, end) ==
    LET tail == meta.previous - end IN
    /\ meta' = [meta EXCEPT !.remove = meta.previous - begin,
                            !.reserve = IF tail = 0 THEN @ ELSE <<<<end - begin, tail>>>>]
    /\ all_seq_len' = begin + tail
    /\ UNCHANGED <<option, cache, hist, keep, next, sound>>

\* eraseHistory(begin, end), with end = previous for the argument 0.  A reserve noted
\* by an earlier call stays when this one needs none.
EraseHistory(begin, end) ==
    LET tail == meta.previous - end IN
    /\ begin < end /\ end <= meta.previous
    /\ meta' = [meta EXCEPT !.remove = meta.previous - begin,
                            !.reserve = IF tail = 0 THEN @ ELSE <<<<end - begin, tail>>>>]
    /\ all_seq_len' = begin + tail
    /\ keep' = SubSeq(hist, 1, Min({begin, Len(hist)})) \o SubSeq(hist, end + 1, Len(hist))
    /\ sound' = (sound /\ EraseSupported(begin, end))
    /\ UNCHANGED <<option, cache, hist, next>>

\* reset, generate_init without reuse_kv, and response for a chat whose text is not a
\* continuation: the whole history goes, a noted reserve is not withdrawn.
Reset ==
    /\ meta' = [meta EXCEPT !.remove = meta.previous]
    /\ all_seq_len' = 0 /\ keep' = << >>
    /\ sound' = (sound /\ meta.reserve = << >>)
    /\ UNCHANGED <<option, cache, hist, next>>

\* The end of tuning: setKVCacheInfo(0, previous), which withdraws the reserve; reset.
TuneEnd ==
    /\ meta.reserve # << >>
    /\ meta' = [meta EXCEPT !.remove = meta.previous, !.reserve = << >>, !.add = 0]
    /\ all_seq_len' = 0 /\ keep' = << >>
    /\ UNCHANGED <<option, cache, hist, next, sound>>

Next ==
    \/ \E n \in AddSizes :
         \/ Generate(n)
         \/ \E ran \in BOOLEAN : GenerateFails(n, ran)
         \/ \E i \in 1..n : DraftVerify(n, i)
         \/ \E path \in AcceptedPaths(n), last \in BOOLEAN : TreeDecoding(n, path, last)
    \/ \E begin, end \in 0..meta.previous : EraseHistory(begin, end)
    \/ Reset
    \/ TuneEnd

Spec == Init /\ [][Next]_vars

-----------------------------------------------------------------------------
(* Properties. *)

\* Types; a token is its number.
TypeOK ==
    /\ option \in AttentionOption
    /\ meta.previous \in Nat /\ meta.remove \in 0..meta.previous /\ meta.add \in Nat
    /\ meta.reserve \in Seq(Nat \X Nat)
    /\ cache.mMaxLength \in Nat /\ cache.mPastLength \in Int
    /\ Range(cache.key) \union Range(cache.value) \subseteq Int \X Int
    /\ all_seq_len \in Nat
    /\ hist \in Seq(1..MaxTokens) /\ keep \in Seq(1..MaxTokens)
    /\ next \in 1..MaxTokens + 1 /\ sound \in BOOLEAN

\* The attention kernels find, for every token of the history and in its order, the key
\* and the value that were computed for it, and meta and cache agree on the length:
\* after any mix of passes, growth, rejected drafts and erased ranges within the
\* contract, and again after one reset when the contract was broken.
CacheHoldsHistory ==
    sound => /\ meta.previous = Len(hist) /\ cache.mPastLength = Len(hist)
             /\ \A s \in 1..Len(hist), d \in Dims :
                  /\ At(cache.key, KeyCell(s - 1, d)) = <<hist[s], d>>
                  /\ At(cache.value, ValueCell(cache.upper, s - 1, d)) = <<hist[s], d>>

\* The position given to the next token (gen_position_ids uses all_seq_len) is the
\* number of tokens that will be in front of it once the noted edits are applied.
PositionsFollow == sound => all_seq_len = Len(keep)

\* The kernels read dimensions up to the next multiple of lP, and tokens of the last
\* block of values up to the next multiple of lP: none of it is uninitialised memory.
ReadsInitialised ==
    sound /\ cache.mPastLength > 0 =>
        /\ mKeyQuantMode # "TQ" =>
             \A s \in 0..cache.mPastLength - 1, d \in 0..ROUND_UP(mHeadDim, lP) - 1 :
                 At(cache.key, keyIndex(s, d)) # Garbage
        /\ mValueQuantMode # "TQ" =>
             LET last == cache.mPastLength - 1
                 inner == ROUND_UP((last % cache.upper) + 1, lP) - 1
             IN  \A x \in 0..inner, d \in Dims :
                   At(cache.value, ValueCellIn(cache.upper, last \div cache.upper, x, d)) # Garbage

\* When no pass is left unfinished and meta, cache and history agree on the length, the
\* value of every token is in the block that the comment on the layout in
\* expandKVCacheInMem gives it, whatever was erased in front of it.
ValuesFollowLayout ==
    meta.add = 0 /\ meta.previous = Len(hist) /\ cache.mPastLength = Len(hist) =>
        \A s \in 1..Len(hist), d \in Dims :
            At(cache.value, ValueCell(cache.upper, s - 1, d)) = <<hist[s], d>>

=============================================================================
