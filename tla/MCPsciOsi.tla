----------------------------- MODULE MCPsciOsi -----------------------------
(***************************************************************************)
(* PsciOsi for TLC: three CPUs of one cluster on platforms of three kinds. *)
(* Both modes are used without the standby fast path; with it, the mode is *)
(* chosen once, at boot; with the validate hook, callers are truthful.     *)
(***************************************************************************)
EXTENDS PsciOsi

BigCluster == [c \in {"p", "q", "r"} |-> 1]
Plat(modes, standby, validate) ==
    [modes |-> modes, standby |-> standby, validate |-> validate, truthful |-> validate]
MCPlatforms == {Plat({0, 1}, FALSE, FALSE), Plat({0}, TRUE, FALSE), Plat({1}, TRUE, FALSE),
                Plat({1}, FALSE, TRUE)}
=============================================================================
