---------------------- MODULE MCDeferBufferAllocator ----------------------
(* Instances and symmetry for the runs of DeferBufferAllocator. *)
EXTENDS DeferBufferAllocator, TLC

\* Allocators are interchangeable.
AllocatorSymmetry == Permutations(Allocator)

\* One allocator with a long plan.
OnePlan == [mAlign |-> 2, Size |-> {1, 3, 6}, MaxAllocators |-> 1, MaxChunks |-> 4,
            MaxRequests |-> 4, OnAllocFails |-> FALSE]

\* Two allocators that move each other's buffer.
TwoPlans == [mAlign |-> 1, Size |-> {1, 2}, MaxAllocators |-> 2, MaxChunks |-> 2,
             MaxRequests |-> 2, OnAllocFails |-> FALSE]

Plans == {OnePlan, TwoPlans}

\* The outer allocator runs out of memory.
OutOfMemory == {[TwoPlans EXCEPT !.MaxChunks = 1, !.OnAllocFails = TRUE]}

=============================================================================
