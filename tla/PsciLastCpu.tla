---------------------------- MODULE PsciLastCpu ----------------------------
(***************************************************************************)
(* The questions "am I the last CPU?" and "are all CPUs on?", which read   *)
(* the affinity states of the CPUs one after the other, with the locks of  *)
(* the power domains (the _safe variants) or without, and                  *)
(* psci_stop_other_cores, which asks the CPUs that are on to stop and      *)
(* waits, with a timeout, to be the last one.                              *)
(*                                                                         *)
(* Only the lock of the highest power level matters: a CPU that goes off   *)
(* or comes up holds it while it changes the domains.  The affinity state  *)
(* itself becomes ON under that lock, ON_PENDING under the lock of the     *)
(* target CPU alone, and OFF after the locks have been released or, when   *)
(* the platform cannot turn the CPU on, under the target's lock again.     *)
(***************************************************************************)
EXTENDS Integers, FiniteSets

CONSTANTS N,            \* psci_plat_core_count; CPU 0 asks
          Root,         \* the highest power domain above each CPU
          WaitMs        \* the timeout of psci_stop_other_cores

CPUs == 0 .. N - 1
Others == CPUs \ {0}
None == -1
Kinds == {"last_safe", "all_safe", "stop"}
Safe == {"last_safe", "all_safe"}
Mine == Root[0]         \* the highest power domain of the CPU that asks

ASSUME LastCpuAssumption ==
    N \in Nat \ {0} /\ DOMAIN Root = CPUs /\ WaitMs \in Nat

VARIABLES hotplug,   \* CPUs are turned on during the questions
          aff,       \* aff_info_state
          run,       \* what a CPU does: "up", "dying" (locks released), "down",
                     \* "called" (down, a CPU_ON for it is under way), "boot"
          target,    \* the CPU whose CPU_ON lock each CPU holds, in psci_cpu_on_start
          lock,      \* the owner of each root's lock
          kind,      \* the question of CPU 0
          pc, idx,   \* where it is, and the CPU it reads next
          wait_ms,   \* milliseconds left
          asked,     \* CPUs with a request of stop_func to stop
          delays,    \* history: milliseconds spent
          leaving,   \* history: the CPUs that were going off when the lock was taken
          failed     \* history: the CPUs whose CPU_ON has failed since then

asks == <<hotplug, kind, leaving>>
question == <<asks, failed, pc, idx, wait_ms, asked, delays>>
vars == <<aff, run, target, lock, question>>

TypeOK ==
    /\ hotplug \in BOOLEAN /\ kind \in Kinds /\ leaving \subseteq Others /\ failed \subseteq Others
    /\ aff \in [CPUs -> {"OFF", "ON_PENDING", "ON"}]
    /\ run \in [CPUs -> {"up", "dying", "down", "called", "boot"}]
    /\ target \in [CPUs -> Others \cup {None}]
    /\ pc \in {"idle", "ask", "wait", "scan", "final", "delay", "unlock_yes", "unlock_no", "yes", "no"}
    /\ idx \in 0 .. N /\ wait_ms \in 0 .. WaitMs /\ asked \subseteq Others

Init ==
    /\ run \in [CPUs -> {"up", "boot", "down"}] /\ run[0] = "up"
    /\ aff = [c \in CPUs |-> CASE run[c] = "up" -> "ON" [] run[c] = "boot" -> "ON_PENDING" [] OTHER -> "OFF"]
    /\ target = [c \in CPUs |-> None] /\ lock = [r \in {Root[c] : c \in CPUs} |-> None]
    /\ hotplug \in BOOLEAN /\ kind = "last_safe" /\ leaving = {} /\ failed = {}
    /\ pc = "idle" /\ idx = 0 /\ wait_ms = WaitMs /\ asked = {} /\ delays = 0

----------------------------------------------------------------------------
(* The other CPUs.                                                         *)

\* CPU_ON up to the call of the platform: ON_PENDING is published.
psci_cpu_on_start(c, t) ==
    /\ hotplug /\ run[c] = "up" /\ target[c] = None /\ (c = 0 => pc = "idle")
    /\ aff[t] = "OFF"
    /\ aff' = [aff EXCEPT ![t] = "ON_PENDING"]
    /\ run' = [run EXCEPT ![t] = "called"]
    /\ target' = [target EXCEPT ![c] = t]
    /\ UNCHANGED <<lock, question>>

\* The platform starts the target, or fails and OFF is restored.  The target,
\* when it has started, waits for the end of this call before it is ON.
pwr_domain_on(c) ==
    LET t == target[c] IN
    /\ t # None
    /\ \/ run' = [run EXCEPT ![t] = "boot"] /\ UNCHANGED <<aff, failed>>
       \/ /\ run' = [run EXCEPT ![t] = "down"]
          /\ aff' = [aff EXCEPT ![t] = "OFF"]
          /\ failed' = IF lock[Mine] = 0 THEN failed \cup {t} ELSE failed
    /\ target' = [target EXCEPT ![c] = None]
    /\ UNCHANGED <<asks, lock, pc, idx, wait_ms, asked, delays>>

psci_warmboot_entrypoint(c) ==
    /\ run[c] = "boot" /\ lock[Root[c]] = None
    /\ run' = [run EXCEPT ![c] = "up"]
    /\ aff' = [aff EXCEPT ![c] = "ON"]
    /\ UNCHANGED <<target, lock, question>>

\* CPU_OFF up to the release of the locks, on request or not.
psci_do_cpu_off(c) ==
    /\ c # 0 /\ run[c] = "up" /\ target[c] = None /\ lock[Root[c]] = None
    /\ run' = [run EXCEPT ![c] = "dying"]
    /\ asked' = asked \ {c}
    /\ UNCHANGED <<asks, failed, aff, target, lock, pc, idx, wait_ms, delays>>

psci_set_aff_info_state_off(c) ==
    /\ run[c] = "dying"
    /\ run' = [run EXCEPT ![c] = "down"]
    /\ aff' = [aff EXCEPT ![c] = "OFF"]
    /\ UNCHANGED <<target, lock, question>>

----------------------------------------------------------------------------
(* CPU 0.                                                                  *)

Ask(k) ==
    /\ pc = "idle" /\ target[0] = None
    /\ kind' = k
    /\ IF k \in Safe
       THEN /\ lock[Mine] = None /\ lock' = [lock EXCEPT ![Mine] = 0]
            /\ leaving' = {c \in Others : run[c] = "dying"}
       ELSE UNCHANGED <<lock, leaving>>
    /\ pc' = IF k = "stop" THEN "ask" ELSE "scan"
    /\ idx' = 0
    /\ UNCHANGED <<hotplug, failed, aff, run, target, wait_ms, asked, delays>>

\* A first loop that also passes over the CPUs that are on.
FaultyToStop == {}

\* stop_func is called for another CPU that is ON when it is its turn.
ToStop == IF idx # 0 /\ aff[idx] = "ON" THEN {idx} ELSE {}

\* The first loop of psci_stop_other_cores.
AskToStop ==
    /\ pc = "ask"
    /\ IF idx < N
       THEN asked' = asked \cup ToStop /\ idx' = idx + 1 /\ UNCHANGED pc
       ELSE pc' = (IF WaitMs = 0 THEN "yes" ELSE "wait") /\ idx' = 0 /\ UNCHANGED asked
    /\ UNCHANGED <<asks, failed, aff, run, target, lock, wait_ms, delays>>

\* A wait whose condition is tested after the decrement.
FaultyWait ==
    /\ pc = "wait"
    /\ IF wait_ms <= 1 THEN pc' = "final" /\ UNCHANGED wait_ms
       ELSE pc' = "scan" /\ wait_ms' = wait_ms - 1
    /\ UNCHANGED <<asks, failed, aff, run, target, lock, idx, asked, delays>>

\* The condition wait_ms-- != 0 of the second loop; the value after the last
\* decrement is not used.
Wait ==
    /\ pc = "wait"
    /\ IF wait_ms = 0 THEN pc' = "final" /\ UNCHANGED wait_ms
       ELSE pc' = "scan" /\ wait_ms' = wait_ms - 1
    /\ UNCHANGED <<asks, failed, aff, run, target, lock, idx, asked, delays>>

\* An answer that takes a CPU that is being turned on for one that is off.
FaultyAgrees(c) == IF kind = "all_safe" THEN aff[c] # "OFF" ELSE c = 0 \/ aff[c] # "ON"

\* What the CPU that is read contributes to the answer.
Agrees(c) == IF kind = "all_safe" THEN aff[c] # "OFF" ELSE c = 0 \/ aff[c] = "OFF"

\* Where an answer leads: out of the wait, to the release of the lock, or out.
Answered(yes) ==
    CASE kind = "stop" /\ pc = "scan" -> IF yes THEN "final" ELSE "delay"
      [] kind \in Safe -> IF yes THEN "unlock_yes" ELSE "unlock_no"
      [] OTHER -> IF yes THEN "yes" ELSE "no"

\* One CPU of psci_is_last_on_cpu or psci_are_all_cpus_on.
Scan ==
    /\ pc \in {"scan", "final"}
    /\ IF idx < N /\ Agrees(idx)
       THEN idx' = idx + 1 /\ UNCHANGED pc
       ELSE idx' = 0 /\ pc' = Answered(idx = N)
    /\ UNCHANGED <<asks, failed, aff, run, target, lock, wait_ms, asked, delays>>

\* mdelay(1)
Delay ==
    /\ pc = "delay"
    /\ delays' = delays + 1
    /\ pc' = "wait"
    /\ UNCHANGED <<asks, failed, aff, run, target, lock, idx, wait_ms, asked>>

Unlock ==
    /\ pc \in {"unlock_yes", "unlock_no"}
    /\ lock' = [lock EXCEPT ![Mine] = None]
    /\ pc' = IF pc = "unlock_yes" THEN "yes" ELSE "no"
    /\ leaving' = {} /\ failed' = {}
    /\ UNCHANGED <<hotplug, kind, aff, run, target, idx, wait_ms, asked, delays>>

Again ==
    /\ pc \in {"yes", "no"}
    /\ pc' = "idle" /\ idx' = 0 /\ wait_ms' = WaitMs /\ delays' = 0
    /\ UNCHANGED <<asks, failed, aff, run, target, lock, asked>>

OtherStep(c) ==
    \/ (\E t \in Others : psci_cpu_on_start(c, t)) \/ pwr_domain_on(c)
    \/ psci_warmboot_entrypoint(c) \/ psci_do_cpu_off(c) \/ psci_set_aff_info_state_off(c)

Next ==
    \/ (\E k \in Kinds : Ask(k)) \/ AskToStop \/ Wait \/ Scan \/ Delay \/ Unlock \/ Again
    \/ \E c \in CPUs : OtherStep(c)

Spec == Init /\ [][Next]_vars

\* CPU 0 runs to its answer; CPUs that come up or go off get there; a CPU that
\* was asked to stop turns itself off: the power domain locks serve whoever
\* waits (EveryContenderGetsTheLock in MCBakeryLock), even if CPU 0 goes on asking.
FairSpec ==
    /\ Spec
    /\ WF_vars(AskToStop \/ Wait \/ Scan \/ Delay \/ Unlock)
    /\ \A c \in Others : /\ WF_vars(psci_warmboot_entrypoint(c) \/ psci_set_aff_info_state_off(c))
                         /\ SF_vars(c \in asked /\ psci_do_cpu_off(c))

----------------------------------------------------------------------------
Alone == \A c \in Others : aff[c] = "OFF"

\* psci_is_last_on_cpu_safe: a CPU that is told that it is the last one is the
\* last one, and nobody is on the way up, although the affinity states change
\* under other locks or none while they are read.  The same is true after
\* psci_stop_other_cores, when it has waited and nobody is turned on meanwhile.
LastMeansAlone ==
    pc = "yes" /\ (kind = "last_safe" \/ (kind = "stop" /\ WaitMs # 0 /\ ~hotplug)) => Alone

\* psci_are_all_cpus_on_safe: when the answer is yes, and until the locks are
\* released, a CPU that is off was going off before the question was asked (it
\* had released the locks in psci_do_cpu_off), or was counted as on while a
\* CPU_ON was under way that the platform then failed (psci_cpu_on_start
\* restores OFF under the lock of that CPU only).
AllOnMeansOn ==
    pc = "unlock_yes" /\ kind = "all_safe" =>
        \A c \in Others : aff[c] = "OFF" => c \in leaving \cup failed

\* What the callers of the locked queries and of psci_stop_other_cores rely on:
\* the answers are still true when they are given.
AnswersAreTrue == LastMeansAlone /\ AllOnMeansOn

\* psci_stop_other_cores returns PSCI_E_DENIED only after it has waited for
\* the whole timeout (unless a CPU is turned on after the wait has ended).
DeniedAfterTimeout == pc = "no" /\ kind = "stop" /\ ~hotplug => delays = WaitMs

\* When nobody is on the way up at the call of psci_stop_other_cores, and
\* nobody is turned on later, every other CPU is asked and the caller ends up
\* alone.
AskedCpusStop ==
    (pc = "ask" /\ idx = 0 /\ ~hotplug /\ \A c \in Others : aff[c] # "ON_PENDING") ~> Alone
=============================================================================
