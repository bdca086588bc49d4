--------------------------- MODULE MCInfernixTools ---------------------------
(* Two requests at once in two passes; reports around every boundary, and   *)
(* some that name no experts or no sizes.                                    *)
EXTENDS InfernixTools

MCPhases == <<2>>
Report(total, frame, record, free, pool, host) ==
    [total |-> total, frame |-> frame, record |-> record, free |-> free, pool |-> pool,
     host |-> host]
MCReports == {Report(4, 2, 3, f, p, h) : f \in 0..5, p \in {2, 4, 8}, h \in {0, 4, 6, 14}}
             \cup {Report(4, 2, 0, 5, 2, 14), Report(0, 2, 3, 5, 2, 14), Report(4, 0, 3, 5, 2, 14)}
MCReserves == {[vram |-> v, ram |-> r] : v \in {0, 3, 6}, r \in {0, 1, 5}}
=============================================================================
