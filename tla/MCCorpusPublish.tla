--------------------------- MODULE MCCorpusPublish ---------------------------
(* Small instances of CorpusPublish for TLC. *)
EXTENDS CorpusPublish, TLC

CONSTANTS r1, r2, r3, d1, d2, s1, s2

Symmetry == Permutations(Run) \union Permutations(Domain)

Jobs == [task : {"corpus", "calibrate", "package"}, force : BOOLEAN, seed : Seed]

\* Every job of the shared corpus under one seed, and under another seed the
\* two that can move a directory: a forced and an unforced rebuild.
MCJob == {j \in Jobs : /\ j.task = "package" => ~j.force
                       /\ j.seed = s2 => j.task = "corpus"}

\* A release archive unpacked whole, and one whose unpacking was cut short.
MCInherited ==
    LET v == [by |-> Release, seed |-> s1]
    IN  {Whole(v), [Whole(v) EXCEPT ![d1] = None]}

=============================================================================
