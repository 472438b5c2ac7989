--------------------------- MODULE MCWeightCache ---------------------------
(* A model of two modules for the run of WeightCache. *)
EXTENDS WeightCache

Operator(w, size, temp, skips) == [w |-> w, size |-> size, temp |-> temp, skips |-> skips]

\* Files of 5 units.  The temporary of the first operator needs a second file
\* before any weight does; the third weight fits behind the first; the fourth
\* needs the second file and the fifth fills a file.  The third and the last
\* operator fill in every process.
TwoModules == << <<Operator(1, 3, 4, TRUE), Operator(2, 1, 0, TRUE)>>,
                 <<Operator(3, 1, 0, FALSE), Operator(4, 2, 3, TRUE),
                   Operator(5, 1, 2, FALSE)>> >>

=============================================================================
