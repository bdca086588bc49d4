---------------------------- MODULE MCSourceCache ----------------------------
(* Small instances of SourceCache for TLC. *)
EXTENDS SourceCache, TLC

CONSTANTS r1, r2, s1, s2, g1, g2, g3, e1, b1, p1, p2, z1, z2

MCOrder == <<s1, s2>>

MCKind == (g1 :> "good") @@ (g2 :> "good") @@ (g3 :> "good")
            @@ (e1 :> "empty") @@ (b1 :> "bad")

\* s1 leaves everything to the defaults; s2 has a cap and a minimum of its own.
MCOwn == (s1 :> [cap |-> None, least |-> None, buffer |-> None])
            @@ (s2 :> [cap |-> 1, least |-> 1, buffer |-> None])

\* Defaults of four checkouts: two that extract different records from s1, one
\* whose shuffle meets a row of the wrong schema, one with a cap below its
\* minimum.
MCDefaults == {[cap |-> 2, least |-> 2, buffer |-> p1],
               [cap |-> 0, least |-> 2, buffer |-> p1],
               [cap |-> 0, least |-> 1, buffer |-> p2],
               [cap |-> 1, least |-> 2, buffer |-> p1]}

\* An earlier build of the first of them stopped after s1.
MCBefore == {<<s1, z1, [cap |-> 2, least |-> 2, buffer |-> p1]>>}

\* Under seed z2, source s1 has too few good rows for a minimum of 2.
MCRows(s, z, buffer) ==
    CASE s = s1 /\ buffer = p1 /\ z = z1 -> <<g1, e1, g2, g3>>
      [] s = s1 /\ buffer = p1 /\ z = z2 -> <<e1, g2>>
      [] s = s1 /\ buffer = p2           -> <<e1, g3, b1, g1>>
      [] s = s2 /\ z = z1                -> <<e1, g2>>
      [] s = s2 /\ z = z2                -> <<g3, g1>>

MCStream == [x \in Source \X Seed \X {p1, p2} |-> MCRows(x[1], x[2], x[3])]

=============================================================================
