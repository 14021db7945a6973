-------------------------- MODULE MCCompletionEngine --------------------------
(* Instances of CompletionEngine for TLC. *)
EXTENDS CompletionEngine, TLC

CONSTANTS s1, s2, uptime, o1, o2, a, b, t1, t2

\* Sessions, threads and generated texts are interchangeable.
Symmetry == Permutations(Sessions) \cup Permutations(Threads) \cup Permutations(Outputs)

=============================================================================
