---------------------------- MODULE MCEnvRelease ----------------------------
(* A small instance of EnvRelease for TLC. *)
EXTENDS EnvRelease, TLC

CONSTANTS a, b, v1, v2

Symmetry == Permutations(Shell) \union Permutations(Revision)

=============================================================================
