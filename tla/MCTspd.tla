------------------------------- MODULE MCTspd -------------------------------
(***************************************************************************)
(* Tspd for TLC.  The client is free in the build where the TSP takes the  *)
(* interrupts itself; where they are routed to EL3 it aborts preempted     *)
(* calls only, and powers down only when none is preempted.                *)
(***************************************************************************)
EXTENDS Tspd

Async(with_ehf, race) == [async |-> TRUE, ehf |-> with_ehf, race |-> race, careful |-> TRUE]
MCBuilds == {[async |-> FALSE, ehf |-> FALSE, race |-> FALSE, careful |-> FALSE],
             Async(FALSE, FALSE), Async(TRUE, FALSE), Async(TRUE, TRUE)}
=============================================================================
