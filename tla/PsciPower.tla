----------------------------- MODULE PsciPower -----------------------------
(***************************************************************************)
(* Power management of the PSCI library (lib/psci) in platform-coordinated *)
(* mode: CPU_ON, CPU_OFF, CPU_SUSPEND, SYSTEM_SUSPEND and the warm boot    *)
(* path, running concurrently on all CPUs over the power domain tree.      *)
(*                                                                         *)
(* A CPU executes one handler at a time; pc[c] is its place in it and op,  *)
(* end_pwrlvl, level, state_info and idx are the handler's locals.  Each   *)
(* lock operation, and each library function that reads or writes shared   *)
(* state, is a step of its own.  The locks are used through the promise of *)
(* MutexLock.  The power controller, the interrupts and the Secure Payload *)
(* Dispatcher are nondeterministic environment.                            *)
(***************************************************************************)
EXTENDS Integers, FiniteSetsExt

CONSTANTS
    PLATFORM_CORE_COUNT,
    PLAT_MAX_PWR_LVL,
    PLAT_MAX_RET_STATE,
    PLAT_MAX_OFF_STATE,
    Nodes,              \* the non-CPU power domains
    parent_nodes,       \* parent_nodes[c][l]: ancestor of CPU c at level l
    idle_states,        \* what validate_power_state of the platform returns
    sys_suspend_state,  \* what get_sys_suspend_power_state returns
    BootCpu             \* the CPU that runs psci_setup

Cpus == 0 .. PLATFORM_CORE_COUNT-1
Levels == 1 .. PLAT_MAX_PWR_LVL             \* the non-CPU levels
AllLevels == 0 .. PLAT_MAX_PWR_LVL
PSCI_INVALID_PWR_LVL == PLAT_MAX_PWR_LVL + 1
NoCpu == -1

RUN == 0
LocalStates == RUN .. PLAT_MAX_OFF_STATE
PowerStates == [AllLevels -> LocalStates]   \* psci_power_state_t
is_local_state_off(s) == s > PLAT_MAX_RET_STATE

AFF_STATES == {"ON", "OFF", "ON_PENDING"}

\* STATE_TYPE_RUN, STATE_TYPE_RETN, STATE_TYPE_OFF
find_local_state_type(s) == IF s = RUN THEN 0
                            ELSE IF s <= PLAT_MAX_RET_STATE THEN 1 ELSE 2

\* Highest level that is not in RUN; no request leaves all levels in RUN.
psci_find_target_suspend_lvl(si) ==
    CHOOSE l \in AllLevels : /\ si[l] # RUN
                             /\ \A k \in AllLevels : k > l => si[k] = RUN

\* The platform sets the state type bit exactly for the states that lose the
\* CPU context.
is_power_down_state(si) == is_local_state_off(si[0])

psci_validate_suspend_req(si) ==
    /\ \E l \in AllLevels : si[l] # RUN
    /\ \A l \in Levels :
          find_local_state_type(si[l]) <= find_local_state_type(si[l-1])
    /\ ~is_power_down_state(si) => \A l \in AllLevels : ~is_local_state_off(si[l])

ASSUME PlatformAssumption ==
    /\ PLATFORM_CORE_COUNT \in Nat \ {0}
    /\ PLAT_MAX_PWR_LVL \in Nat
    /\ PLAT_MAX_RET_STATE \in Nat
    /\ PLAT_MAX_OFF_STATE \in Nat
    /\ PLAT_MAX_RET_STATE < PLAT_MAX_OFF_STATE
    /\ BootCpu \in Cpus
    /\ idle_states \subseteq PowerStates
    /\ sys_suspend_state \in PowerStates
    /\ \A si \in idle_states : psci_validate_suspend_req(si)
    /\ psci_validate_suspend_req(sys_suspend_state)
    /\ is_local_state_off(sys_suspend_state[PLAT_MAX_PWR_LVL])
    /\ is_power_down_state(sys_suspend_state)

\* The tree that psci_setup builds (populate_power_domain_tree): a node is at one
\* level, and CPUs that share a node share all nodes above it.
ASSUME TopologyAssumption ==
    /\ parent_nodes \in [Cpus -> [Levels -> Nodes]]
    /\ \A c, d \in Cpus : \A l, k \in Levels :
          parent_nodes[c][l] = parent_nodes[d][k] =>
             /\ l = k
             /\ \A m \in Levels : m > l => parent_nodes[c][m] = parent_nodes[d][m]

VARIABLES
    aff_info_state,     \* psci_svc_cpu_data of each CPU ...
    target_pwrlvl,
    cpu_local_state,
    node_local_state,   \* psci_non_cpu_pd_nodes[n].local_state
    req_local_pwr_states,
    psci_locks,         \* holder of the lock of each node
    cpu_lock,           \* holder of the CPU_ON spinlock of each CPU
    ns_context,         \* ns_context[c]: initialised and not yet used
    power_on,           \* the power controller was told to power CPU c on
    pc, op, end_pwrlvl, level, state_info, idx

data == <<aff_info_state, target_pwrlvl, cpu_local_state, node_local_state,
          req_local_pwr_states, ns_context>>
locals == <<op, end_pwrlvl, level, state_info, idx>>
vars == <<data, psci_locks, cpu_lock, power_on, pc, locals>>

\* psci_setup on the boot CPU: every domain is OFF, then
\* psci_set_pwr_domains_to_run for the boot CPU.
Init ==
    /\ aff_info_state = [c \in Cpus |-> IF c = BootCpu THEN "ON" ELSE "OFF"]
    /\ target_pwrlvl = [c \in Cpus |-> PSCI_INVALID_PWR_LVL]
    /\ cpu_local_state = [c \in Cpus |-> IF c = BootCpu THEN RUN
                                         ELSE PLAT_MAX_OFF_STATE]
    /\ node_local_state =
         [n \in Nodes |-> IF \E l \in Levels : n = parent_nodes[BootCpu][l]
                            THEN RUN ELSE PLAT_MAX_OFF_STATE]
    /\ req_local_pwr_states =
         [l \in Levels |-> [c \in Cpus |-> IF c = BootCpu THEN RUN
                                           ELSE PLAT_MAX_OFF_STATE]]
    /\ psci_locks = [n \in Nodes |-> NoCpu]
    /\ cpu_lock = [c \in Cpus |-> NoCpu]
    /\ ns_context = [c \in Cpus |-> FALSE]
    /\ power_on = [c \in Cpus |-> FALSE]
    /\ pc = [c \in Cpus |-> IF c = BootCpu THEN "ns" ELSE "wfi"]
    /\ op = [c \in Cpus |-> IF c = BootCpu THEN "none" ELSE "off"]
    /\ end_pwrlvl = [c \in Cpus |-> IF c = BootCpu THEN 0 ELSE PLAT_MAX_PWR_LVL]
    /\ level = [c \in Cpus |-> 0]
    /\ state_info = [c \in Cpus |-> [l \in AllLevels |-> RUN]]
    /\ idx = [c \in Cpus |-> 0]

Goto(c, place) == pc' = [pc EXCEPT ![c] = place]

\* Enter psci_acquire_pwr_domain_locks(end, parent_nodes) for operation o.
StartLocking(c, o, end) ==
    /\ op' = [op EXCEPT ![c] = o]
    /\ end_pwrlvl' = [end_pwrlvl EXCEPT ![c] = end]
    /\ level' = [level EXCEPT ![c] = 1]
    /\ Goto(c, "lock")

-----------------------------------------------------------------------------
\* Calls from the normal world.

\* psci_cpu_off, up to the locks (pwr_domain_off_early may deny: no change).
CpuOff(c) ==
    /\ pc[c] = "ns"
    /\ StartLocking(c, "off", PLAT_MAX_PWR_LVL)
    /\ state_info' = [state_info EXCEPT
                        ![c] = [l \in AllLevels |-> PLAT_MAX_OFF_STATE]]
    /\ UNCHANGED <<data, psci_locks, cpu_lock, power_on, idx>>

is_cpu_standby_req(si) ==
    ~is_power_down_state(si) /\ psci_find_target_suspend_lvl(si) = 0

\* psci_cpu_suspend: a CPU-level standby takes no lock and leaves the tree alone.
CpuSuspend(c, si) ==
    /\ pc[c] = "ns"
    /\ UNCHANGED <<aff_info_state, target_pwrlvl, node_local_state, ns_context,
                   req_local_pwr_states, psci_locks, cpu_lock, power_on, idx>>
    /\ IF is_cpu_standby_req(si)
       THEN /\ cpu_local_state' = [cpu_local_state EXCEPT ![c] = si[0]]
            /\ Goto(c, "standby")
            /\ UNCHANGED <<op, end_pwrlvl, level, state_info>>
       ELSE /\ StartLocking(c, IF is_power_down_state(si) THEN "pwrdown"
                               ELSE "retention",
                            psci_find_target_suspend_lvl(si))
            /\ state_info' = [state_info EXCEPT ![c] = si]
            /\ UNCHANGED cpu_local_state

\* An interrupt ends cpu_standby.
StandbyExit(c) ==
    /\ pc[c] = "standby"
    /\ cpu_local_state' = [cpu_local_state EXCEPT ![c] = RUN]
    /\ Goto(c, "ns")
    /\ UNCHANGED <<aff_info_state, target_pwrlvl, node_local_state, ns_context,
                   req_local_pwr_states, psci_locks, cpu_lock, power_on, locals>>

\* psci_system_suspend: psci_is_last_on_cpu reads the CPUs one by one.
SystemSuspend(c) ==
    /\ pc[c] = "ns"
    /\ idx' = [idx EXCEPT ![c] = 0]
    /\ Goto(c, "last_cpu")
    /\ UNCHANGED <<data, psci_locks, cpu_lock, power_on, op, end_pwrlvl, level,
                   state_info>>

psci_is_last_on_cpu(c) ==
    /\ pc[c] = "last_cpu" /\ idx[c] < PLATFORM_CORE_COUNT
    /\ IF idx[c] # c /\ aff_info_state[idx[c]] # "OFF"
       THEN Goto(c, "ns") /\ idx' = [idx EXCEPT ![c] = 0]
       ELSE idx' = [idx EXCEPT ![c] = @ + 1] /\ UNCHANGED pc
    /\ UNCHANGED <<data, psci_locks, cpu_lock, power_on, op, end_pwrlvl, level,
                   state_info>>

\* The scan found no other CPU on.  A platform whose state does not reach the
\* highest level is refused, as is a bad entry point: no change.
IsLastOnCpu(c) ==
    /\ pc[c] = "last_cpu" /\ idx[c] = PLATFORM_CORE_COUNT
    /\ StartLocking(c, "system", PLAT_MAX_PWR_LVL)
    /\ state_info' = [state_info EXCEPT ![c] = sys_suspend_state]
    /\ idx' = [idx EXCEPT ![c] = 0]
    /\ UNCHANGED <<data, psci_locks, cpu_lock, power_on>>

-----------------------------------------------------------------------------
\* The locks of the domains above a CPU: bottom up, released top down.

psci_acquire_pwr_domain_locks(c) ==
    /\ pc[c] = "lock" /\ level[c] <= end_pwrlvl[c]
    /\ psci_locks[parent_nodes[c][level[c]]] = NoCpu
    /\ psci_locks' = [psci_locks EXCEPT ![parent_nodes[c][level[c]]] = c]
    /\ level' = [level EXCEPT ![c] = @ + 1]
    /\ UNCHANGED <<data, cpu_lock, power_on, pc, op, end_pwrlvl, state_info, idx>>

\* Faulty variant: the loop ends before the lowest level.
Faulty_psci_release_pwr_domain_locks(c) ==
    /\ pc[c] = "unlock" /\ level[c] > 0
    /\ psci_locks' = [psci_locks EXCEPT ![parent_nodes[c][level[c]]] =
                         IF level[c] > 1 THEN NoCpu ELSE @]
    /\ level' = [level EXCEPT ![c] = @ - 1]
    /\ UNCHANGED <<data, cpu_lock, power_on, pc, op, end_pwrlvl, state_info, idx>>

psci_release_pwr_domain_locks(c) ==
    /\ pc[c] = "unlock" /\ level[c] > 0
    /\ psci_locks' = [psci_locks EXCEPT ![parent_nodes[c][level[c]]] = NoCpu]
    /\ level' = [level EXCEPT ![c] = @ - 1]
    /\ UNCHANGED <<data, cpu_lock, power_on, pc, op, end_pwrlvl, state_info, idx>>

LocksTaken(c) == pc[c] = "lock" /\ level[c] > end_pwrlvl[c]

StartUnlocking(c) ==
    /\ level' = [level EXCEPT ![c] = end_pwrlvl[c]]
    /\ state_info' = [state_info EXCEPT ![c] = [l \in AllLevels |-> RUN]]
    /\ Goto(c, "unlock")

DownOps == {"off", "pwrdown", "retention", "system"}

\* svc_off denies CPU_OFF, or read_isr_el1 shows an interrupt pending.
DenyOrInterrupt(c) ==
    /\ LocksTaken(c) /\ op[c] \in DownOps
    /\ op' = [op EXCEPT ![c] = "abort"]
    /\ StartUnlocking(c)
    /\ UNCHANGED <<data, psci_locks, cpu_lock, power_on, end_pwrlvl, idx>>

-----------------------------------------------------------------------------
\* State coordination.

\* The shallowest of the states requested for a domain.
plat_get_target_pwr_state(req_states) == Min(req_states \cup {PLAT_MAX_OFF_STATE})

psci_set_req_local_pwr_state(c) ==
    [l \in Levels |-> [req_local_pwr_states[l] EXCEPT
        ![c] = IF l <= end_pwrlvl[c] THEN state_info[c][l] ELSE @]]

\* Faulty variant: ncpus is 1.
Faulty_psci_get_req_local_pwr_states(c, l, req) == {req[l][c]}

\* The states that the CPUs below the domain of c at level l request for it.
psci_get_req_local_pwr_states(c, l, req) ==
    {req[l][d] : d \in {d \in Cpus : parent_nodes[d][l] = parent_nodes[c][l]}}

\* The target of each level: RUN above the first level that must stay in RUN.
Coordinated(c, req) ==
    LET target(l) ==
          plat_get_target_pwr_state(psci_get_req_local_pwr_states(c, l, req))
    IN  [l \in AllLevels |->
           IF l = 0 \/ l > end_pwrlvl[c] THEN state_info[c][l]
           ELSE IF \E k \in 1 .. l : target(k) = RUN THEN RUN ELSE target(l)]

psci_do_state_coordination(c) ==
    /\ LocksTaken(c) /\ op[c] \in DownOps
    /\ req_local_pwr_states' = psci_set_req_local_pwr_state(c)
    /\ state_info' = [state_info EXCEPT
                        ![c] = Coordinated(c, req_local_pwr_states')]
    /\ Goto(c, "coordinated")
    /\ UNCHANGED <<aff_info_state, target_pwrlvl, cpu_local_state, ns_context,
                   node_local_state, psci_locks, cpu_lock, power_on, op,
                   end_pwrlvl, level, idx>>

\* Node n is an ancestor of CPU c within the levels of its handler.
InScope(c, n) == \E l \in 1 .. end_pwrlvl[c] : parent_nodes[c][l] = n

LevelOf(c, n) == CHOOSE l \in Levels : parent_nodes[c][l] = n

\* psci_set_target_local_pwr_states; psci_suspend_to_pwrdown_start records the
\* level and initialises the context to resume with; the platform hook runs.
psci_set_target_local_pwr_states(c) ==
    /\ pc[c] = "coordinated"
    /\ cpu_local_state' = [cpu_local_state EXCEPT ![c] = state_info[c][0]]
    /\ node_local_state' =
         [n \in Nodes |-> IF InScope(c, n) THEN state_info[c][LevelOf(c, n)]
                          ELSE node_local_state[n]]
    /\ IF op[c] \in {"pwrdown", "system"}
       THEN /\ target_pwrlvl' = [target_pwrlvl EXCEPT ![c] = end_pwrlvl[c]]
            /\ ns_context' = [ns_context EXCEPT ![c] = TRUE]
       ELSE UNCHANGED <<target_pwrlvl, ns_context>>
    /\ StartUnlocking(c)
    /\ UNCHANGED <<aff_info_state, req_local_pwr_states, psci_locks, cpu_lock,
                   power_on, op, end_pwrlvl, idx>>

\* All locks are released: back to the normal world or into wfi.  CPU_OFF
\* publishes AFF_STATE_OFF only now.
Unlocked(c) ==
    /\ pc[c] = "unlock" /\ level[c] = 0
    /\ Goto(c, IF op[c] \in DownOps THEN "wfi" ELSE "ns")
    /\ aff_info_state' = [aff_info_state EXCEPT
                            ![c] = IF op[c] = "off" THEN "OFF" ELSE @]
    /\ op' = [op EXCEPT ![c] = IF @ \in DownOps THEN @ ELSE "none"]
    /\ end_pwrlvl' = [end_pwrlvl EXCEPT ![c] = IF op[c] \in DownOps THEN @ ELSE 0]
    /\ UNCHANGED <<target_pwrlvl, cpu_local_state, node_local_state, ns_context,
                   req_local_pwr_states, psci_locks, cpu_lock, power_on, level,
                   state_info, idx>>

-----------------------------------------------------------------------------
\* Waking up.

\* An interrupt ends a retention state: psci_suspend_to_standby_finisher.
WakeFromRetention(c) ==
    /\ pc[c] = "wfi" /\ op[c] = "retention"
    /\ StartLocking(c, "standby_finish", end_pwrlvl[c])
    /\ UNCHANGED <<data, psci_locks, cpu_lock, power_on, state_info, idx>>

\* The power controller resets a suspended CPU on an interrupt, and a CPU that
\* is off when CPU_ON asked for it.
WarmReset(c) ==
    /\ pc[c] = "wfi"
    /\ \/ op[c] \in {"pwrdown", "system"}
       \/ op[c] = "off" /\ power_on[c]
    /\ power_on' = [power_on EXCEPT ![c] = FALSE]
    /\ op' = [op EXCEPT ![c] = "none"]
    /\ end_pwrlvl' = [end_pwrlvl EXCEPT ![c] = 0]
    /\ Goto(c, "reset")
    /\ UNCHANGED <<data, psci_locks, cpu_lock, level, state_info, idx>>

get_power_on_target_pwrlvl(c) ==
    IF target_pwrlvl[c] = PSCI_INVALID_PWR_LVL THEN PLAT_MAX_PWR_LVL
    ELSE target_pwrlvl[c]

psci_warmboot_entrypoint(c) ==
    /\ pc[c] = "reset"
    /\ IF aff_info_state[c] = "OFF"
       THEN Goto(c, "panic") /\ UNCHANGED <<op, end_pwrlvl, level>>
       ELSE StartLocking(c, "warmboot", get_power_on_target_pwrlvl(c))
    /\ UNCHANGED <<data, psci_locks, cpu_lock, power_on, state_info, idx>>

\* The locks are held: read the states the domains were left in and choose the
\* finisher.
psci_get_target_local_pwr_states(c) ==
    /\ LocksTaken(c) /\ op[c] \in {"warmboot", "standby_finish"}
    /\ state_info' = [state_info EXCEPT ![c] = [l \in AllLevels |->
          IF l = 0 THEN cpu_local_state[c]
          ELSE IF l <= end_pwrlvl[c] THEN node_local_state[parent_nodes[c][l]]
          ELSE RUN]]
    /\ Goto(c, IF op[c] = "standby_finish" THEN "run"
               ELSE IF aff_info_state[c] = "ON_PENDING" THEN "on_finish"
               ELSE "suspend_finish")
    /\ UNCHANGED <<data, psci_locks, cpu_lock, power_on, op, end_pwrlvl, level,
                   idx>>

\* Faulty variant: does not wait for psci_cpu_on_start.
Faulty_psci_cpu_on_finish(c) ==
    /\ pc[c] = "on_finish"
    /\ Goto(c, "run")
    /\ UNCHANGED <<data, psci_locks, cpu_lock, power_on, locals>>

\* Takes and drops the CPU_ON lock, so that psci_cpu_on_start has finished.
psci_cpu_on_finish(c) ==
    /\ pc[c] = "on_finish"
    /\ cpu_lock[c] = NoCpu
    /\ Goto(c, "run")
    /\ UNCHANGED <<data, psci_locks, cpu_lock, power_on, locals>>

psci_cpu_suspend_finish(c) ==
    /\ pc[c] = "suspend_finish"
    /\ target_pwrlvl' = [target_pwrlvl EXCEPT ![c] = PSCI_INVALID_PWR_LVL]
    /\ Goto(c, "run")
    /\ UNCHANGED <<aff_info_state, cpu_local_state, node_local_state, ns_context,
                   req_local_pwr_states, psci_locks, cpu_lock, power_on, locals>>

\* Faulty variant: the votes are not withdrawn.
FaultyVote_psci_set_pwr_domains_to_run(c) ==
    /\ pc[c] = "run"
    /\ ns_context' = [ns_context EXCEPT ![c] = @ /\ op[c] # "warmboot"]
    /\ node_local_state' = [n \in Nodes |-> IF InScope(c, n) THEN RUN
                                            ELSE node_local_state[n]]
    /\ aff_info_state' = [aff_info_state EXCEPT ![c] = "ON"]
    /\ cpu_local_state' = [cpu_local_state EXCEPT ![c] = RUN]
    /\ StartUnlocking(c)
    /\ UNCHANGED <<target_pwrlvl, req_local_pwr_states, psci_locks, cpu_lock,
                   power_on, op, end_pwrlvl, idx>>

\* Faulty variant: the loop does not move on to the parent of the parent.
FaultyNode_psci_set_pwr_domains_to_run(c) ==
    /\ pc[c] = "run"
    /\ ns_context' = [ns_context EXCEPT ![c] = @ /\ op[c] # "warmboot"]
    /\ node_local_state' = [node_local_state EXCEPT
                              ![parent_nodes[c][1]] = IF end_pwrlvl[c] > 0 THEN RUN ELSE @]
    /\ req_local_pwr_states' =
         [l \in Levels |-> [req_local_pwr_states[l] EXCEPT
             ![c] = IF l <= end_pwrlvl[c] THEN RUN ELSE @]]
    /\ aff_info_state' = [aff_info_state EXCEPT ![c] = "ON"]
    /\ cpu_local_state' = [cpu_local_state EXCEPT ![c] = RUN]
    /\ StartUnlocking(c)
    /\ UNCHANGED <<target_pwrlvl, psci_locks, cpu_lock, power_on, op, end_pwrlvl,
                   idx>>

\* cm_prepare_el3_exit_ns uses the context up; then the domains are in RUN.
psci_set_pwr_domains_to_run(c) ==
    /\ pc[c] = "run"
    /\ ns_context' = [ns_context EXCEPT ![c] = @ /\ op[c] # "warmboot"]
    /\ node_local_state' = [n \in Nodes |-> IF InScope(c, n) THEN RUN
                                            ELSE node_local_state[n]]
    /\ req_local_pwr_states' =
         [l \in Levels |-> [req_local_pwr_states[l] EXCEPT
             ![c] = IF l <= end_pwrlvl[c] THEN RUN ELSE @]]
    /\ aff_info_state' = [aff_info_state EXCEPT ![c] = "ON"]
    /\ cpu_local_state' = [cpu_local_state EXCEPT ![c] = RUN]
    /\ StartUnlocking(c)
    /\ UNCHANGED <<target_pwrlvl, psci_locks, cpu_lock, power_on, op, end_pwrlvl,
                   idx>>

-----------------------------------------------------------------------------
\* psci_cpu_on_start on CPU c for the target CPU idx[c].

CpuOn(c, t) ==
    /\ pc[c] = "ns"
    /\ idx' = [idx EXCEPT ![c] = t]
    /\ Goto(c, "on_lock")
    /\ UNCHANGED <<data, psci_locks, cpu_lock, power_on, op, end_pwrlvl, level,
                   state_info>>

psci_spin_lock_cpu(c) ==
    /\ pc[c] = "on_lock" /\ cpu_lock[idx[c]] = NoCpu
    /\ cpu_lock' = [cpu_lock EXCEPT ![idx[c]] = c]
    /\ Goto(c, "on_validate")
    /\ UNCHANGED <<data, psci_locks, power_on, locals>>

\* Faulty variant: ON_PENDING is not recorded.
Faulty_cpu_on_validate_state(c) ==
    /\ pc[c] = "on_validate"
    /\ Goto(c, IF aff_info_state[idx[c]] = "OFF" THEN "on_plat" ELSE "on_unlock")
    /\ UNCHANGED <<data, psci_locks, cpu_lock, power_on, locals>>

cpu_on_validate_state(c) ==
    /\ pc[c] = "on_validate"
    /\ IF aff_info_state[idx[c]] = "OFF"
       THEN /\ aff_info_state' = [aff_info_state EXCEPT ![idx[c]] = "ON_PENDING"]
            /\ Goto(c, "on_plat")
       ELSE Goto(c, "on_unlock") /\ UNCHANGED aff_info_state
    /\ UNCHANGED <<target_pwrlvl, cpu_local_state, node_local_state, ns_context,
                   req_local_pwr_states, psci_locks, cpu_lock, power_on, locals>>

pwr_domain_on(c) ==
    /\ pc[c] = "on_plat"
    /\ power_on' = [power_on EXCEPT ![idx[c]] = TRUE]
    /\ Goto(c, "on_context")
    /\ UNCHANGED <<data, psci_locks, cpu_lock, locals>>

\* PSCI_E_INTERN_FAIL: the state is restored.
pwr_domain_on_fails(c) ==
    /\ pc[c] = "on_plat"
    /\ aff_info_state' = [aff_info_state EXCEPT ![idx[c]] = "OFF"]
    /\ Goto(c, "on_unlock")
    /\ UNCHANGED <<target_pwrlvl, cpu_local_state, node_local_state, ns_context,
                   req_local_pwr_states, psci_locks, cpu_lock, power_on, locals>>

cm_init_context_by_index(c) ==
    /\ pc[c] = "on_context"
    /\ ns_context' = [ns_context EXCEPT ![idx[c]] = TRUE]
    /\ Goto(c, "on_unlock")
    /\ UNCHANGED <<aff_info_state, target_pwrlvl, cpu_local_state,
                   node_local_state, req_local_pwr_states, psci_locks, cpu_lock,
                   power_on, locals>>

\* Faulty variant: an early return leaves the lock held.
Faulty_psci_spin_unlock_cpu(c) ==
    /\ pc[c] = "on_unlock"
    /\ idx' = [idx EXCEPT ![c] = 0]
    /\ Goto(c, "ns")
    /\ UNCHANGED <<data, psci_locks, cpu_lock, power_on, op, end_pwrlvl, level,
                   state_info>>

psci_spin_unlock_cpu(c) ==
    /\ pc[c] = "on_unlock"
    /\ cpu_lock' = [cpu_lock EXCEPT ![idx[c]] = NoCpu]
    /\ idx' = [idx EXCEPT ![c] = 0]
    /\ Goto(c, "ns")
    /\ UNCHANGED <<data, psci_locks, power_on, op, end_pwrlvl, level, state_info>>

-----------------------------------------------------------------------------
\* Requests of the normal world and events of the environment ...
Call(c) ==
    \/ CpuOff(c)
    \/ \E si \in idle_states : CpuSuspend(c, si)
    \/ SystemSuspend(c)
    \/ \E t \in Cpus : CpuOn(c, t)

Interrupt(c) ==
    StandbyExit(c) \/ WakeFromRetention(c)

\* ... steps of the firmware that wait for another CPU ...
Wait(c) ==
    psci_acquire_pwr_domain_locks(c) \/ psci_cpu_on_finish(c) \/ psci_spin_lock_cpu(c)

\* ... and those that do not.
Compute(c) ==
    \/ psci_is_last_on_cpu(c) \/ IsLastOnCpu(c)
    \/ psci_release_pwr_domain_locks(c)
    \/ DenyOrInterrupt(c) \/ psci_do_state_coordination(c)
    \/ psci_set_target_local_pwr_states(c) \/ Unlocked(c)
    \/ psci_warmboot_entrypoint(c) \/ psci_get_target_local_pwr_states(c)
    \/ psci_cpu_suspend_finish(c) \/ psci_set_pwr_domains_to_run(c)
    \/ cpu_on_validate_state(c) \/ pwr_domain_on(c) \/ pwr_domain_on_fails(c)
    \/ cm_init_context_by_index(c) \/ psci_spin_unlock_cpu(c)

Step(c) == Call(c) \/ Interrupt(c) \/ WarmReset(c) \/ Wait(c) \/ Compute(c)

Next == \E c \in Cpus : Step(c)

Spec == Init /\ [][Next]_vars

\* A CPU in a handler keeps executing, the power controller acts on CPU_ON,
\* and a lock that is free again and again is obtained: the bakery lock gives
\* it (module BakeryLock); for the CPU_ON spinlock it excludes only a stream of
\* CPU_ON calls for one target that never ends.
Fairness ==
    \A c \in Cpus :
        /\ WF_vars(Compute(c))
        /\ WF_vars(WarmReset(c) /\ op[c] = "off")
        /\ SF_vars(psci_acquire_pwr_domain_locks(c))
        /\ SF_vars(psci_cpu_on_finish(c))
        /\ SF_vars(psci_spin_lock_cpu(c))

FairSpec == Spec /\ Fairness

-----------------------------------------------------------------------------
\* Properties.

Places == {"ns", "standby", "last_cpu", "lock", "coordinated", "unlock", "wfi",
           "reset", "panic", "on_finish", "suspend_finish", "run", "on_lock",
           "on_validate", "on_plat", "on_context", "on_unlock"}
Ops == DownOps \cup {"none", "abort", "standby_finish", "warmboot"}

(* Every variable has the type of the C object it models.                  *)
TypeOK ==
    /\ aff_info_state \in [Cpus -> AFF_STATES]
    /\ target_pwrlvl \in [Cpus -> 0 .. PSCI_INVALID_PWR_LVL]
    /\ cpu_local_state \in [Cpus -> LocalStates]
    /\ node_local_state \in [Nodes -> LocalStates]
    /\ req_local_pwr_states \in [Levels -> [Cpus -> LocalStates]]
    /\ psci_locks \in [Nodes -> Cpus \cup {NoCpu}]
    /\ cpu_lock \in [Cpus -> Cpus \cup {NoCpu}]
    /\ ns_context \in [Cpus -> BOOLEAN]
    /\ power_on \in [Cpus -> BOOLEAN]
    /\ pc \in [Cpus -> Places]
    /\ op \in [Cpus -> Ops]
    /\ end_pwrlvl \in [Cpus -> AllLevels]
    /\ level \in [Cpus -> 0 .. PLAT_MAX_PWR_LVL + 1]
    /\ state_info \in [Cpus -> PowerStates]
    /\ idx \in [Cpus -> 0 .. PLATFORM_CORE_COUNT]

\* CPU c runs software of the normal world, or a handler that has not yet
\* voted for a low-power state.
Awake(c) ==
    \/ pc[c] \in {"ns", "standby", "last_cpu", "on_lock", "on_validate", "on_plat",
                  "on_context", "on_unlock"}
    \/ pc[c] = "lock" /\ op[c] \in DownOps

(* No power domain above a CPU that is executing is recorded, and so given *)
(* to the platform hooks, in a low-power state, whatever the CPUs beside   *)
(* it request: the purpose of psci_do_state_coordination and of the locks  *)
(* around it.                                                              *)
AwakeCpuIsPowered ==
    \A c \in Cpus : Awake(c) =>
        \A l \in Levels : node_local_state[parent_nodes[c][l]] = RUN

(* A CPU that waits in a retention state, and so must find its registers   *)
(* on wake-up, has no power domain above it in an OFF state, although the  *)
(* CPUs beside it go down later with deeper requests                       *)
(* (psci_suspend_to_standby_finisher resumes as if nothing was lost).      *)
RetentionKeepsPower ==
    \A c \in Cpus : pc[c] = "wfi" /\ op[c] = "retention" =>
        \A l \in Levels : ~is_local_state_off(node_local_state[parent_nodes[c][l]])

(* What the coordination of psci_do_cpu_off and psci_cpu_suspend_start is  *)
(* for: a domain has the power that each CPU below it needs, whether the   *)
(* CPU executes or waits in a retention state.                             *)
DomainsKeepPower == AwakeCpuIsPowered /\ RetentionKeepsPower

(* No domain is in a deeper state than any CPU below it voted for, at any  *)
(* time, including while a handler is between its vote and its write.      *)
NeverDeeperThanVoted ==
    \A c \in Cpus, l \in Levels :
        node_local_state[parent_nodes[c][l]] <= req_local_pwr_states[l][c]

(* A domain is never in a deeper kind of state than a domain inside it:    *)
(* psci_validate_suspend_req demands it of a request, and coordination of  *)
(* several requests with different end levels keeps it.                    *)
ParentNotDeeper ==
    \A c \in Cpus, l \in Levels : l > 1 =>
        find_local_state_type(node_local_state[parent_nodes[c][l]])
          <= find_local_state_type(node_local_state[parent_nodes[c][l-1]])

(* The checks the handlers make of their own state never fail: the panic   *)
(* of psci_warmboot_entrypoint on AFF_STATE_OFF, the assertions of         *)
(* psci_cpu_suspend_finish (ON, and the CPU state is OFF) and of           *)
(* psci_cpu_on_finish (ON_PENDING after the CPU_ON lock).                  *)
AssertionsHold ==
    \A c \in Cpus :
        /\ pc[c] # "panic"
        /\ pc[c] = "suspend_finish" => /\ aff_info_state[c] = "ON"
                                       /\ is_local_state_off(state_info[c][0])
        /\ pc[c] = "on_finish" => aff_info_state[c] = "ON_PENDING"

(* A CPU leaves the warm boot path for the normal world only with a        *)
(* context that was initialised for this wake-up: psci_cpu_on_finish waits *)
(* for the CPU_ON lock because pwr_domain_on starts the CPU before         *)
(* cm_init_context_by_index has run.                                       *)
ContextIsFresh ==
    \A c \in Cpus : pc[c] = "run" /\ op[c] = "warmboot" => ns_context[c]

(* Among the CPUs that are inside a handler, one can always take its next  *)
(* step: no set of CPUs waits for each other's node and CPU_ON locks.      *)
NoDeadlock ==
    (\E c \in Cpus : pc[c] \notin {"ns", "standby", "wfi", "panic"}) =>
        \E c \in Cpus : ENABLED (Wait(c) \/ Compute(c))

(* A CPU holds the lock of a domain whenever it changes the state of the   *)
(* domain or a vote for it, and no other CPU's vote.                       *)
ChangesAreLocked ==
    [][/\ \A n \in Nodes : node_local_state'[n] # node_local_state[n] =>
             psci_locks[n] # NoCpu /\ InScope(psci_locks[n], n)
       /\ \A c \in Cpus, l \in Levels :
             req_local_pwr_states'[l][c] # req_local_pwr_states[l][c] =>
                psci_locks[parent_nodes[c][l]] = c]_vars

(* A CPU that CPU_ON has asked the power controller for reaches the normal *)
(* world, although psci_cpu_on_finish waits for the CPU_ON lock while it   *)
(* holds the locks of all the domains above.                               *)
CpuOnCompletes == \A t \in Cpus : power_on[t] ~> pc[t] = "ns"

(* Every handler that has started ends, in the normal world or in wfi: the *)
(* nested locks are taken in one order on all paths.                       *)
HandlersEnd ==
    \A c \in Cpus : pc[c] # "ns" ~> pc[c] \in {"ns", "standby", "wfi"}

=============================================================================
