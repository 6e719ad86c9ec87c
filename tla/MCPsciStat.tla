----------------------------- MODULE MCPsciStat -----------------------------
(* The topology of the instance of PsciStat that TLC checks.               *)
EXTENDS PsciStat

TwoClusters == [c \in {"p", "q", "r"} |-> IF c = "r" THEN 2 ELSE 1]
=============================================================================
