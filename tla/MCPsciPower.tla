----------------------------- MODULE MCPsciPower -----------------------------
(* PsciPower on a system of two clusters: CPUs 0 and 1 in A, CPU 2 in B.   *)
EXTENDS PsciPower

CONSTANTS A, B, S

MCNodes == {A, B, S}
MCParents == [c \in Cpus |-> [l \in 1 .. 2 |-> IF l = 2 THEN S
                                                 ELSE IF c = 2 THEN B ELSE A]]
Lvl(cpu, cluster, system) ==
    [l \in 0 .. 2 |-> IF l = 0 THEN cpu ELSE IF l = 1 THEN cluster ELSE system]

\* CPU standby, cluster retention, CPU off alone, CPU off with the levels above
\* in retention, all off: every kind of end level and of mixture.
MCIdleStates == {Lvl(1, 0, 0), Lvl(1, 1, 0), Lvl(2, 0, 0), Lvl(2, 1, 1), Lvl(2, 2, 2)}
MCSysSuspend == Lvl(2, 2, 2)
=============================================================================
