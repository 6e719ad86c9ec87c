--------------------------- MODULE MCPsciAffinity ---------------------------
(***************************************************************************)
(* PsciAffinity for TLC, with the history that tells apart the ways in     *)
(* which the state of a target that is off can be left stale.              *)
(***************************************************************************)
EXTENDS PsciAffinity

VARIABLES failed,   \* a pwr_domain_on failed since the target last came up
          left      \* the target was out of coherency since then

mcvars == <<vars, failed, left>>

MCInit == Init /\ failed = FALSE /\ left = FALSE

MCStep == /\ failed' = (tpc' # "on" /\ (failed \/ \E c \in Cpus :
                                pc[c] = "plat" /\ pc'[c] = "restore_flush"))
          /\ left' = (tpc' # "on" /\ (left \/ ~coherent'))

MCNext == Next /\ MCStep

MCSpec == /\ MCInit /\ [][MCNext]_mcvars /\ TargetFairness

(* CPU_ON and AFFINITY_INFO see a target OFF that is off (OffIsSeen), even *)
(* when its cluster left coherency before it invalidated its state, unless *)
(* a CPU_ON of it failed on the way down: the OFF that psci_cpu_on_start   *)
(* then restores may be dropped by the target's own invalidation.          *)
OffIsSeenUnlessFailed == ~failed => OffIsSeen

(* So does the plain read of psci_is_last_on_cpu when the target stayed in *)
(* coherency: then the maintenance at the end of psci_do_cpu_off is enough *)
(* for readers that do none of their own.                                  *)
CoherentReadsSeeOff == ~failed /\ ~left => LaterReadsSeeOff

=============================================================================
