--------------------------- MODULE MCPsciLastCpu ---------------------------
(* PsciLastCpu below one root domain.                                      *)
EXTENDS PsciLastCpu

OneRoot == [c \in CPUs |-> 0]
=============================================================================
