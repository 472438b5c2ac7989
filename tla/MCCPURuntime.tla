--------------------------- MODULE MCCPURuntime ---------------------------
(* Symmetry for the run of CPURuntime. *)
EXTENDS CPURuntime, TLC

\* Runtimes are interchangeable.
RuntimeSymmetry == Permutations(Runtime)

=============================================================================
