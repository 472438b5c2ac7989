---------------------- MODULE MCEagerBufferAllocator ----------------------
(* Instances and symmetry for the runs of EagerBufferAllocator. *)
EXTENDS EagerBufferAllocator, TLC

\* Blocks are only compared for equality.
BlockSymmetry == Permutations(Block)

\* An allocator whose users open barriers with two groups.
Grouped == [mAlign |-> 1, mMinAllocSize |-> 0, Size |-> {1, 3}, AlignArg |-> {1},
            Offset |-> {0}, MaxGroups |-> 2]

\* An allocator with a minimum block, alignments it does not give by itself and
\* blocks that do not start at offset 0.
Aligned == [mAlign |-> 2, mMinAllocSize |-> 8, Size |-> {1, 3, 7, 8},
            AlignArg |-> {2, 4}, Offset |-> {0, 2}, MaxGroups |-> 0]

Allocators == {Grouped, Aligned}

=============================================================================
