--------------------------- MODULE PsciPowerSteps ---------------------------
(***************************************************************************)
(* Lemmas about the operators of PsciPower and about a single step of a    *)
(* CPU: what it leaves alone, which variables it changes, and what it does *)
(* to the locals of its handler.  Then the inductive invariant IInv, and   *)
(* the proofs that every step keeps its parts about locks, votes and       *)
(* coordinated states.                                                     *)
(***************************************************************************)
EXTENDS PsciPower, TLAPS, WellFoundedInduction

PwrDownOps == {"pwrdown", "system"}

\* What a step of CPU c does to its own locals, one definition per kind of step.

NsPlaces == {"ns", "standby", "last_cpu", "on_lock", "on_validate", "on_plat",
             "on_context", "on_unlock"}

\* Everywhere outside the power management handlers.
Stay(c) ==
    /\ pc[c] \in NsPlaces /\ pc'[c] \in NsPlaces
    /\ op'[c] = op[c] /\ end_pwrlvl'[c] = end_pwrlvl[c] /\ level'[c] = level[c]
    /\ state_info'[c] = state_info[c]
    /\ \/ pc[c] \notin {"on_plat", "on_context"} /\ pc'[c] \in {"ns", "standby", "last_cpu"}
       \/ pc[c] = "ns" /\ pc'[c] = "on_lock" /\ idx'[c] \in Cpus
       \/ psci_spin_lock_cpu(c) /\ pc[c] = "on_lock" /\ pc'[c] = "on_validate"
       \/ /\ cpu_on_validate_state(c)
          /\ pc[c] = "on_validate" /\ pc'[c] \in {"on_plat", "on_unlock"}
       \/ pwr_domain_on(c) /\ pc[c] = "on_plat" /\ pc'[c] = "on_context"
       \/ pwr_domain_on_fails(c) /\ pc[c] = "on_plat" /\ pc'[c] = "on_unlock"
       \/ cm_init_context_by_index(c) /\ pc[c] = "on_context" /\ pc'[c] = "on_unlock"

\* CPU_OFF, CPU_SUSPEND and SYSTEM_SUSPEND start to take the locks.
Enter(c) ==
    /\ pc[c] \in {"ns", "last_cpu"} /\ pc'[c] = "lock"
    /\ op'[c] \in DownOps /\ level'[c] = 1 /\ end_pwrlvl'[c] \in AllLevels
    /\ op'[c] = "off" => end_pwrlvl'[c] = PLAT_MAX_PWR_LVL
    /\ op'[c] \in PwrDownOps => is_local_state_off(state_info'[c][0])
    /\ op'[c] = "retention" =>
         \A l \in AllLevels : ~is_local_state_off(state_info'[c][l])

\* A CPU in wfi or at its reset vector starts to take the locks.
Wake(c) ==
    /\ \/ /\ pc[c] = "wfi" /\ op[c] = "retention"
          /\ op'[c] = "standby_finish" /\ end_pwrlvl'[c] = end_pwrlvl[c]
       \/ /\ pc[c] = "reset" /\ aff_info_state[c] # "OFF"
          /\ op'[c] = "warmboot" /\ end_pwrlvl'[c] = get_power_on_target_pwrlvl(c)
    /\ pc'[c] = "lock" /\ level'[c] = 1

Panic(c) == pc[c] = "reset" /\ aff_info_state[c] = "OFF"

Reset(c) ==
    /\ WarmReset(c)
    /\ pc[c] = "wfi" /\ (op[c] \in PwrDownOps \/ (op[c] = "off" /\ power_on[c]))
    /\ pc'[c] = "reset" /\ op'[c] = "none"

\* One lock is taken or released.
Lock(c) ==
    /\ \/ /\ psci_acquire_pwr_domain_locks(c)
          /\ pc[c] = "lock" /\ level[c] <= end_pwrlvl[c] /\ level'[c] = level[c] + 1
       \/ /\ psci_release_pwr_domain_locks(c)
          /\ pc[c] = "unlock" /\ level[c] > 0 /\ level'[c] = level[c] - 1
    /\ pc'[c] = pc[c] /\ op'[c] = op[c] /\ end_pwrlvl'[c] = end_pwrlvl[c]
    /\ state_info'[c] = state_info[c]

\* All locks are held and stay so.
Inside(c) ==
    /\ \/ /\ psci_do_state_coordination(c)
          /\ LocksTaken(c) /\ op[c] \in DownOps /\ pc'[c] = "coordinated"
       \/ LocksTaken(c) /\ op[c] = "standby_finish" /\ pc'[c] = "run"
       \/ /\ LocksTaken(c) /\ op[c] = "warmboot" /\ aff_info_state[c] = "ON_PENDING"
          /\ pc'[c] = "on_finish"
       \/ /\ LocksTaken(c) /\ op[c] = "warmboot" /\ aff_info_state[c] # "ON_PENDING"
          /\ pc'[c] = "suspend_finish" /\ state_info'[c][0] = cpu_local_state[c]
       \/ psci_cpu_on_finish(c) /\ pc[c] = "on_finish" /\ pc'[c] = "run"
       \/ psci_cpu_suspend_finish(c) /\ pc[c] = "suspend_finish" /\ pc'[c] = "run"
    /\ op'[c] = op[c] /\ end_pwrlvl'[c] = end_pwrlvl[c]

\* The handler starts to release the locks.
Leave(c) ==
    /\ \/ LocksTaken(c) /\ op[c] \in DownOps /\ op'[c] = "abort"
       \/ psci_set_target_local_pwr_states(c) /\ pc[c] = "coordinated" /\ op'[c] = op[c]
       \/ psci_set_pwr_domains_to_run(c) /\ pc[c] = "run" /\ op'[c] = op[c]
    /\ pc'[c] = "unlock" /\ end_pwrlvl'[c] = end_pwrlvl[c] /\ level'[c] = end_pwrlvl[c]

Exit(c) ==
    /\ Unlocked(c)
    /\ pc[c] = "unlock" /\ level[c] = 0
    /\ \/ op[c] \in DownOps /\ pc'[c] = "wfi" /\ op'[c] = op[c]
          /\ end_pwrlvl'[c] = end_pwrlvl[c]
       \/ op[c] \notin DownOps /\ pc'[c] = "ns" /\ op'[c] = "none"
-----------------------------------------------------------------------------
(* Every nonempty set of naturals has a least element.                     *)
LEMMA LeastNat ==
    ASSUME NEW T, T \subseteq Nat, T # {}
    PROVE  \E x \in T : \A y \in T : x <= y
<1> DEFINE R == OpToRel(<, Nat)
<1>1. \E x \in T : \A y \in T : ~(<<y, x>> \in R)
    BY WFMin, NatLessThanWellFounded, Zenon
<1>2. ASSUME NEW x \in Nat, NEW y \in Nat, y < x PROVE <<y, x>> \in R
    <2> DEFINE ss == <<y, x>>
    <2>1. ss \in Nat \X Nat /\ ss[1] < ss[2]
        BY <1>2, Zenon
    <2> HIDE DEF ss
    <2>2. ss \in OpToRel(<, Nat)
        BY <2>1, Zenon DEF OpToRel
    <2> QED BY <2>2, Zenon DEF ss
<1> HIDE DEF R
<1>3. PICK x \in T : \A y \in T : ~(<<y, x>> \in R)
    BY <1>1, Zenon
<1>4. ASSUME NEW y \in T PROVE x <= y
    <2>1. x \in Nat /\ y \in Nat
        BY Zenon
    <2>2. ~(y < x)
        BY <1>2, <1>3, <2>1, Zenon
    <2> QED BY <2>1, <2>2
<1> QED BY <1>4, Zenon

(* plat_get_target_pwr_state returns a local state that is no deeper than  *)
(* any of the requested ones.                                              *)
LEMMA TargetIsLeast ==
    ASSUME NEW R, R \subseteq LocalStates
    PROVE  /\ plat_get_target_pwr_state(R) \in LocalStates
           /\ \A r \in R : plat_get_target_pwr_state(R) <= r
<1> DEFINE T == R \cup {PLAT_MAX_OFF_STATE}
<1>1. T \subseteq LocalStates /\ T # {} /\ T \subseteq Nat
    BY PlatformAssumption DEF LocalStates, RUN
<1>2. \E x \in T : \A y \in T : x <= y
    BY <1>1, LeastNat, Zenon
<1>3. Min(T) \in T /\ \A y \in T : Min(T) <= y
    BY <1>2, Zenon DEF Min
<1> QED BY <1>1, <1>3, Zenon DEF plat_get_target_pwr_state

(* psci_find_target_suspend_lvl of a request that is not all RUN is one of *)
(* the levels of the platform.                                             *)
LEMMA TargetLevel ==
    ASSUME NEW si \in PowerStates, \E l \in AllLevels : si[l] # RUN
    PROVE  psci_find_target_suspend_lvl(si) \in AllLevels
<1> DEFINE T == {n \in Nat : n <= PLAT_MAX_PWR_LVL /\ si[PLAT_MAX_PWR_LVL - n] # RUN}
<1>1. PICK l \in AllLevels : si[l] # RUN
    BY Zenon
<1>2. PLAT_MAX_PWR_LVL - l \in T
    <2>1. PLAT_MAX_PWR_LVL - (PLAT_MAX_PWR_LVL - l) = l /\ PLAT_MAX_PWR_LVL - l \in Nat
              /\ PLAT_MAX_PWR_LVL - l <= PLAT_MAX_PWR_LVL
        BY PlatformAssumption DEF AllLevels
    <2> QED BY <1>1, <2>1, Zenon
<1>3. PICK n \in T : \A m \in T : n <= m
    BY <1>2, LeastNat, Zenon
<1> DEFINE t == PLAT_MAX_PWR_LVL - n
<1>4. t \in AllLevels /\ si[t] # RUN
    BY PlatformAssumption DEF AllLevels
<1>5. ASSUME NEW k \in AllLevels, k > t, si[k] # RUN PROVE FALSE
    <2>1. PLAT_MAX_PWR_LVL - (PLAT_MAX_PWR_LVL - k) = k /\ PLAT_MAX_PWR_LVL - k \in Nat
              /\ PLAT_MAX_PWR_LVL - k <= PLAT_MAX_PWR_LVL /\ PLAT_MAX_PWR_LVL - k < n
        BY <1>5, PlatformAssumption DEF AllLevels
    <2>2. PLAT_MAX_PWR_LVL - k \in T
        BY <1>5, <2>1, Zenon
    <2> QED BY <1>3, <2>1, <2>2
<1> QED BY <1>4, <1>5, Zenon DEF psci_find_target_suspend_lvl

(* Coordination returns local states, and at each level it covers none     *)
(* deeper than the vote of a CPU below that domain.                        *)
LEMMA CoordinationIsSound ==
    ASSUME TypeOK, NEW c \in Cpus,
           NEW req \in [Levels -> [Cpus -> LocalStates]]
    PROVE  /\ Coordinated(c, req) \in PowerStates
           /\ Coordinated(c, req)[0] = state_info[c][0]
           /\ \A l \in Levels, d \in Cpus :
                 l <= end_pwrlvl[c] /\ parent_nodes[d][l] = parent_nodes[c][l] =>
                    Coordinated(c, req)[l] <= req[l][d]
<1> DEFINE R(l) == psci_get_req_local_pwr_states(c, l, req)
           t(l) == plat_get_target_pwr_state(R(l))
<1>1. \A l \in Levels : R(l) \subseteq LocalStates
    BY DEF psci_get_req_local_pwr_states
<1>2. \A l \in Levels : t(l) \in LocalStates /\ \A r \in R(l) : t(l) <= r
    BY <1>1, TargetIsLeast, Zenon
<1>3. \A l \in Levels, d \in Cpus :
         parent_nodes[d][l] = parent_nodes[c][l] => req[l][d] \in R(l)
    BY Zenon DEF psci_get_req_local_pwr_states
<1>4. Coordinated(c, req) =
         [l \in AllLevels |->
            IF l = 0 \/ l > end_pwrlvl[c] THEN state_info[c][l]
            ELSE IF \E k \in 1 .. l : t(k) = RUN THEN RUN ELSE t(l)]
    BY Zenon DEF Coordinated
<1>5. /\ RUN \in LocalStates
      /\ state_info[c] \in PowerStates
      /\ 0 \in AllLevels
      /\ Levels \subseteq AllLevels
      /\ \A l \in AllLevels : l = 0 \/ l \in Levels
      /\ \A l \in Levels : l # 0
      /\ \A x \in LocalStates : RUN <= x
    BY PlatformAssumption DEF TypeOK, RUN, LocalStates, AllLevels, Levels
<1> HIDE DEF t, R
<1>6. Coordinated(c, req) \in PowerStates
    BY <1>2, <1>4, <1>5 DEF PowerStates
<1>7. Coordinated(c, req)[0] = state_info[c][0]
    BY <1>4, <1>5, Zenon
<1>8. ASSUME NEW l \in Levels, NEW d \in Cpus, l <= end_pwrlvl[c],
             parent_nodes[d][l] = parent_nodes[c][l]
      PROVE  Coordinated(c, req)[l] <= req[l][d]
    <2>1. t(l) <= req[l][d]
        BY <1>2, <1>3, <1>8, Zenon
    <2>2. RUN <= req[l][d]
        <3>1. req[l][d] \in LocalStates
            BY Zenon
        <3> QED BY <1>5, <3>1, Zenon
    <2>3. ~(l > end_pwrlvl[c])
        <3>1. end_pwrlvl[c] \in AllLevels
            BY Zenon DEF TypeOK
        <3> QED BY <1>8, <3>1, PlatformAssumption DEF Levels, AllLevels
    <2>4. Coordinated(c, req)[l] = RUN \/ Coordinated(c, req)[l] = t(l)
        BY <1>4, <1>5, <2>3, Zenon
    <2> QED BY <2>1, <2>2, <2>4, Zenon
<1> QED BY <1>6, <1>7, <1>8, Zenon

(* A domain in the scope of a handler is the ancestor of its CPU at one    *)
(* level.                                                                  *)
LEMMA ScopeLevel ==
    ASSUME TypeOK, NEW c \in Cpus, NEW n \in Nodes
    PROVE  /\ \A l \in Levels : n = parent_nodes[c][l] =>
                 /\ LevelOf(c, n) = l
                 /\ InScope(c, n) <=> l <= end_pwrlvl[c]
           /\ InScope(c, n) => /\ LevelOf(c, n) \in Levels
                               /\ LevelOf(c, n) <= end_pwrlvl[c]
                               /\ parent_nodes[c][LevelOf(c, n)] = n
<1>1. \A l, k \in Levels : parent_nodes[c][l] = parent_nodes[c][k] => l = k
    BY TopologyAssumption
<1>2. \A l \in Levels : n = parent_nodes[c][l] => LevelOf(c, n) = l
    BY <1>1, Zenon DEF LevelOf
<1>3. \A l : l \in 1 .. end_pwrlvl[c] <=> l \in Levels /\ l <= end_pwrlvl[c]
    BY PlatformAssumption DEF TypeOK, Levels, AllLevels
<1> QED BY <1>1, <1>2, <1>3, Zenon DEF InScope
(* Facts about the levels and the local states that many steps use.        *)
LEMMA BasicFacts ==
    /\ RUN \in LocalStates /\ PLAT_MAX_OFF_STATE \in LocalStates
    /\ is_local_state_off(PLAT_MAX_OFF_STATE) /\ ~is_local_state_off(RUN)
    /\ 0 \in AllLevels /\ PLAT_MAX_PWR_LVL \in AllLevels
    /\ PSCI_INVALID_PWR_LVL \notin AllLevels
    /\ PSCI_INVALID_PWR_LVL \in 0 .. PSCI_INVALID_PWR_LVL
    /\ \A l \in AllLevels : l \in 0 .. PSCI_INVALID_PWR_LVL /\ l \in Int
    /\ \A l \in Levels : l \in AllLevels /\ l \in Int
    /\ \A l \in 0 .. PSCI_INVALID_PWR_LVL : l = PSCI_INVALID_PWR_LVL \/ l \in AllLevels
    /\ \A c \in Cpus : c # NoCpu /\ c \in 0 .. PLATFORM_CORE_COUNT
    /\ 0 \in 0 .. PLATFORM_CORE_COUNT
    /\ \A l \in AllLevels : l \in 0 .. PLAT_MAX_PWR_LVL + 1 /\ l + 1 \in 0 .. PLAT_MAX_PWR_LVL + 1
    /\ 1 \in 0 .. PLAT_MAX_PWR_LVL + 1
    /\ \A f \in PowerStates : \A l \in AllLevels : f[l] \in LocalStates
    /\ [l \in AllLevels |-> RUN] \in PowerStates
    /\ [l \in AllLevels |-> PLAT_MAX_OFF_STATE] \in PowerStates
BY PlatformAssumption DEF RUN, LocalStates, AllLevels, Levels, PSCI_INVALID_PWR_LVL,
   Cpus, NoCpu, PowerStates, is_local_state_off

(* psci_set_target_local_pwr_states and psci_set_pwr_domains_to_run write  *)
(* local states.                                                           *)
LEMMA NodeWrites ==
    ASSUME TypeOK, NEW c \in Cpus, NEW f \in PowerStates
    PROVE  [n \in Nodes |-> IF InScope(c, n) THEN f[LevelOf(c, n)]
                            ELSE node_local_state[n]] \in [Nodes -> LocalStates]
BY ScopeLevel, BasicFacts, Zenon DEF TypeOK, PowerStates
-----------------------------------------------------------------------------
(* A step of CPU c leaves the locals and the votes of the other CPUs alone. *)
LEMMA Frame ==
    ASSUME TypeOK, NEW c \in Cpus, Step(c), NEW d \in Cpus, d # c
    PROVE  /\ pc'[d] = pc[d] /\ op'[d] = op[d] /\ end_pwrlvl'[d] = end_pwrlvl[d]
           /\ level'[d] = level[d] /\ state_info'[d] = state_info[d]
           /\ idx'[d] = idx[d] /\ target_pwrlvl'[d] = target_pwrlvl[d]
           /\ cpu_local_state'[d] = cpu_local_state[d]
<1>1. /\ pc \in [Cpus -> Places] /\ op \in [Cpus -> Ops]
      /\ end_pwrlvl \in [Cpus -> AllLevels]
      /\ level \in [Cpus -> 0 .. PLAT_MAX_PWR_LVL + 1]
      /\ state_info \in [Cpus -> PowerStates]
      /\ idx \in [Cpus -> 0 .. PLATFORM_CORE_COUNT]
      /\ target_pwrlvl \in [Cpus -> 0 .. PSCI_INVALID_PWR_LVL]
      /\ cpu_local_state \in [Cpus -> LocalStates]
    BY Zenon DEF TypeOK
<1> USE <1>1 DEF data, locals, Goto, StartLocking, StartUnlocking
<1>2. CASE Call(c)
    BY <1>2 DEF Call, CpuOff, CpuSuspend, SystemSuspend, CpuOn
<1>3. CASE Interrupt(c) \/ WarmReset(c) \/ Wait(c)
    BY <1>3, Zenon DEF Interrupt, Wait, StandbyExit, WakeFromRetention, WarmReset,
       psci_acquire_pwr_domain_locks, psci_cpu_on_finish, psci_spin_lock_cpu
<1>4. CASE \/ psci_is_last_on_cpu(c) \/ IsLastOnCpu(c)
           \/ psci_release_pwr_domain_locks(c) \/ DenyOrInterrupt(c)
           \/ psci_do_state_coordination(c) \/ psci_set_target_local_pwr_states(c)
    BY <1>4 DEF psci_is_last_on_cpu, IsLastOnCpu, psci_release_pwr_domain_locks,
       DenyOrInterrupt, psci_do_state_coordination, psci_set_target_local_pwr_states
<1>5. CASE \/ Unlocked(c) \/ psci_warmboot_entrypoint(c)
           \/ psci_get_target_local_pwr_states(c) \/ psci_cpu_suspend_finish(c)
           \/ psci_set_pwr_domains_to_run(c)
    BY <1>5 DEF Unlocked, psci_warmboot_entrypoint, psci_get_target_local_pwr_states,
       psci_cpu_suspend_finish, psci_set_pwr_domains_to_run
<1>6. CASE \/ cpu_on_validate_state(c) \/ pwr_domain_on(c) \/ pwr_domain_on_fails(c)
           \/ cm_init_context_by_index(c) \/ psci_spin_unlock_cpu(c)
    BY <1>6, Zenon DEF cpu_on_validate_state, pwr_domain_on, pwr_domain_on_fails,
       cm_init_context_by_index, psci_spin_unlock_cpu
<1> QED BY <1>2, <1>3, <1>4, <1>5, <1>6, Zenon DEF Step, Compute

(* Which steps change each shared variable.                                *)
LEMMA Effects ==
    ASSUME NEW c \in Cpus, Step(c)
    PROVE  /\ \/ psci_locks' = psci_locks
              \/ psci_acquire_pwr_domain_locks(c) \/ psci_release_pwr_domain_locks(c)
           /\ \/ cpu_lock' = cpu_lock
              \/ psci_spin_lock_cpu(c) \/ psci_spin_unlock_cpu(c)
           /\ power_on' = power_on \/ pwr_domain_on(c) \/ WarmReset(c)
           /\ \/ aff_info_state' = aff_info_state
              \/ Unlocked(c) \/ psci_set_pwr_domains_to_run(c)
              \/ cpu_on_validate_state(c) \/ pwr_domain_on_fails(c)
           /\ \/ ns_context' = ns_context \/ psci_set_target_local_pwr_states(c)
              \/ psci_set_pwr_domains_to_run(c) \/ cm_init_context_by_index(c)
           /\ \/ node_local_state' = node_local_state
              \/ psci_set_target_local_pwr_states(c) \/ psci_set_pwr_domains_to_run(c)
           /\ \/ req_local_pwr_states' = req_local_pwr_states
              \/ psci_do_state_coordination(c) \/ psci_set_pwr_domains_to_run(c)
           /\ \/ target_pwrlvl' = target_pwrlvl
              \/ psci_set_target_local_pwr_states(c) \/ psci_cpu_suspend_finish(c)
           /\ \/ cpu_local_state' = cpu_local_state
              \/ (\E si \in idle_states : CpuSuspend(c, si)) \/ StandbyExit(c)
              \/ psci_set_target_local_pwr_states(c) \/ psci_set_pwr_domains_to_run(c)
<1> USE DEF data, locals
<1>1. CASE Call(c)
    BY <1>1, Zenon DEF Call, CpuOff, SystemSuspend, CpuOn, CpuSuspend
<1>2. CASE Interrupt(c) \/ WarmReset(c) \/ Wait(c)
    BY <1>2, Zenon DEF Interrupt, Wait, StandbyExit, WakeFromRetention, WarmReset,
       psci_acquire_pwr_domain_locks, psci_cpu_on_finish, psci_spin_lock_cpu
<1>3. CASE \/ psci_is_last_on_cpu(c) \/ IsLastOnCpu(c)
           \/ psci_release_pwr_domain_locks(c) \/ DenyOrInterrupt(c)
           \/ psci_do_state_coordination(c) \/ psci_set_target_local_pwr_states(c)
    BY <1>3, Zenon DEF psci_is_last_on_cpu, IsLastOnCpu, psci_release_pwr_domain_locks,
       DenyOrInterrupt, psci_do_state_coordination, psci_set_target_local_pwr_states
<1>4. CASE \/ Unlocked(c) \/ psci_warmboot_entrypoint(c)
           \/ psci_get_target_local_pwr_states(c) \/ psci_cpu_suspend_finish(c)
           \/ psci_set_pwr_domains_to_run(c)
    BY <1>4, Zenon DEF Unlocked, psci_warmboot_entrypoint, psci_get_target_local_pwr_states,
       psci_cpu_suspend_finish, psci_set_pwr_domains_to_run
<1>5. CASE \/ cpu_on_validate_state(c) \/ pwr_domain_on(c) \/ pwr_domain_on_fails(c)
           \/ cm_init_context_by_index(c) \/ psci_spin_unlock_cpu(c)
    BY <1>5, Zenon DEF cpu_on_validate_state, pwr_domain_on, pwr_domain_on_fails,
       cm_init_context_by_index, psci_spin_unlock_cpu
<1> QED BY <1>1, <1>2, <1>3, <1>4, <1>5, Zenon DEF Step, Compute

(* Every step is of one of the kinds above.                                *)
LEMMA Control ==
    ASSUME TypeOK, NEW c \in Cpus, Step(c)
    PROVE  \/ Stay(c) \/ Enter(c) \/ Wake(c) \/ Panic(c) \/ Reset(c) \/ Lock(c)
           \/ Inside(c) \/ Leave(c) \/ Exit(c)
<1>1. /\ pc \in [Cpus -> Places] /\ op \in [Cpus -> Ops]
      /\ end_pwrlvl \in [Cpus -> AllLevels]
      /\ level \in [Cpus -> 0 .. PLAT_MAX_PWR_LVL + 1]
      /\ state_info \in [Cpus -> PowerStates]
    BY Zenon DEF TypeOK
<1> USE <1>1 DEF data, locals, Goto, StartLocking, StartUnlocking
<1>2. CASE \/ SystemSuspend(c) \/ (\E t \in Cpus : CpuOn(c, t)) \/ StandbyExit(c)
           \/ psci_spin_lock_cpu(c) \/ psci_is_last_on_cpu(c)
           \/ cpu_on_validate_state(c) \/ pwr_domain_on(c) \/ pwr_domain_on_fails(c)
           \/ cm_init_context_by_index(c) \/ psci_spin_unlock_cpu(c)
    <2>1. idx \in [Cpus -> 0 .. PLATFORM_CORE_COUNT]
        BY Zenon DEF TypeOK
    <2> USE <2>1 DEF Stay, NsPlaces
    <2>2. CASE SystemSuspend(c) \/ StandbyExit(c) \/ psci_is_last_on_cpu(c)
               \/ psci_spin_unlock_cpu(c) \/ \E t \in Cpus : CpuOn(c, t)
        BY <2>2, Zenon DEF SystemSuspend, StandbyExit, psci_is_last_on_cpu, psci_spin_unlock_cpu, CpuOn
    <2>3. CASE psci_spin_lock_cpu(c)
        BY <2>3, Zenon DEF psci_spin_lock_cpu
    <2>4. CASE cpu_on_validate_state(c)
        BY <2>4, Zenon DEF cpu_on_validate_state
    <2>5. CASE pwr_domain_on(c) \/ pwr_domain_on_fails(c)
        BY <2>5, Zenon DEF pwr_domain_on, pwr_domain_on_fails
    <2>6. CASE cm_init_context_by_index(c)
        BY <2>6, Zenon DEF cm_init_context_by_index
    <2> HIDE DEF Stay
    <2> QED BY <1>2, <2>2, <2>3, <2>4, <2>5, <2>6, Zenon
<1>3. CASE \E si \in idle_states : CpuSuspend(c, si)
    <2>1. PICK si \in idle_states : CpuSuspend(c, si)
        BY <1>3, Zenon
    <2>2. CASE is_cpu_standby_req(si)
        BY <2>1, <2>2, Zenon DEF CpuSuspend, Stay, NsPlaces
    <2>3. CASE ~is_cpu_standby_req(si)
        <3>1. /\ pc[c] = "ns" /\ pc'[c] = "lock" /\ level'[c] = 1
              /\ op'[c] = IF is_power_down_state(si) THEN "pwrdown" ELSE "retention"
              /\ end_pwrlvl'[c] = psci_find_target_suspend_lvl(si)
              /\ state_info'[c] = si
            BY <2>1, <2>3, Zenon DEF CpuSuspend
        <3>2. /\ psci_find_target_suspend_lvl(si) \in AllLevels
              /\ ~is_power_down_state(si) =>
                    \A l \in AllLevels : ~is_local_state_off(si[l])
            BY PlatformAssumption, TargetLevel, Zenon DEF psci_validate_suspend_req
        <3> HIDE <1>1
        <3>3. Enter(c)
            BY <3>1, <3>2, Zenon DEF Enter, DownOps, PwrDownOps, is_power_down_state
        <3> QED BY <3>3, Zenon
    <2> QED BY <2>2, <2>3, Zenon
<1>4. CASE CpuOff(c) \/ IsLastOnCpu(c)
    <2>1. is_local_state_off(sys_suspend_state[0]) /\ PLAT_MAX_PWR_LVL \in AllLevels
        BY PlatformAssumption DEF is_power_down_state, AllLevels
    <2>2. Enter(c)
        BY <1>4, <2>1, Zenon DEF CpuOff, IsLastOnCpu, Enter, DownOps, PwrDownOps
    <2> QED BY <2>2, Zenon
<1>5. CASE WakeFromRetention(c) \/ psci_warmboot_entrypoint(c)
    <2>1. Wake(c) \/ Panic(c)
        BY <1>5, Zenon DEF WakeFromRetention, psci_warmboot_entrypoint, Wake, Panic
    <2> QED BY <2>1, Zenon
<1>6. CASE WarmReset(c)
    <2>1. Reset(c)
        BY <1>6, Zenon DEF WarmReset, Reset, PwrDownOps
    <2> QED BY <2>1, Zenon
<1>7. CASE psci_acquire_pwr_domain_locks(c) \/ psci_release_pwr_domain_locks(c)
    <2>1. Lock(c)
        BY <1>7, Zenon DEF psci_acquire_pwr_domain_locks, psci_release_pwr_domain_locks, Lock
    <2> QED BY <2>1, Zenon
<1>8. CASE \/ psci_do_state_coordination(c) \/ psci_get_target_local_pwr_states(c)
           \/ psci_cpu_on_finish(c) \/ psci_cpu_suspend_finish(c)
    <2>1. 0 \in AllLevels
        BY PlatformAssumption DEF AllLevels
    <2>2. Inside(c)
        BY <1>8, <2>1, Zenon DEF psci_do_state_coordination, psci_get_target_local_pwr_states,
           psci_cpu_on_finish, psci_cpu_suspend_finish, Inside
    <2> QED BY <2>2, Zenon
<1>9. CASE \/ DenyOrInterrupt(c) \/ psci_set_target_local_pwr_states(c)
           \/ psci_set_pwr_domains_to_run(c)
    <2>1. Leave(c)
        BY <1>9, Zenon DEF DenyOrInterrupt, psci_set_target_local_pwr_states,
           psci_set_pwr_domains_to_run, Leave
    <2> QED BY <2>1, Zenon
<1>10. CASE Unlocked(c)
    <2>1. Exit(c)
        BY <1>10, Zenon DEF Unlocked, Exit
    <2> QED BY <2>1, Zenon
<1> QED BY <1>2, <1>3, <1>4, <1>5, <1>6, <1>7, <1>8, <1>9, <1>10, Zenon
        DEF Step, Call, Interrupt, Wait, Compute

(* Every step of a CPU preserves the types.                                *)
LEMMA TypeStep ==
    ASSUME TypeOK, NEW c \in Cpus, Step(c)
    PROVE  TypeOK'
<1>1. /\ pc \in [Cpus -> Places] /\ op \in [Cpus -> Ops]
      /\ end_pwrlvl \in [Cpus -> AllLevels]
      /\ level \in [Cpus -> 0 .. PLAT_MAX_PWR_LVL + 1]
      /\ state_info \in [Cpus -> PowerStates]
      /\ idx \in [Cpus -> 0 .. PLATFORM_CORE_COUNT]
    BY Zenon DEF TypeOK
<1>2. /\ PLAT_MAX_PWR_LVL \in AllLevels /\ 0 \in AllLevels
      /\ 0 \in 0 .. PLATFORM_CORE_COUNT /\ c \in 0 .. PLATFORM_CORE_COUNT
      /\ \A l \in AllLevels : l \in 0 .. PLAT_MAX_PWR_LVL + 1
      /\ 1 \in 0 .. PLAT_MAX_PWR_LVL + 1
      /\ [l \in AllLevels |-> RUN] \in PowerStates
      /\ [l \in AllLevels |-> PLAT_MAX_OFF_STATE] \in PowerStates
    BY BasicFacts, Zenon
<1>3. /\ pc' \in [Cpus -> Places] /\ op' \in [Cpus -> Ops]
      /\ end_pwrlvl' \in [Cpus -> AllLevels]
      /\ level' \in [Cpus -> 0 .. PLAT_MAX_PWR_LVL + 1]
      /\ state_info' \in [Cpus -> PowerStates]
      /\ idx' \in [Cpus -> 0 .. PLATFORM_CORE_COUNT]
    <2> USE <1>1, <1>2 DEF data, locals, Goto, StartLocking, StartUnlocking, Ops, DownOps,
            Places
    <2>1. CASE \E si \in idle_states : CpuSuspend(c, si)
        <3>1. PICK si \in idle_states : CpuSuspend(c, si)
            BY <2>1, Zenon
        <3>2. si \in PowerStates /\ psci_find_target_suspend_lvl(si) \in AllLevels
            BY PlatformAssumption, TargetLevel, Zenon DEF psci_validate_suspend_req
        <3>3. CASE is_cpu_standby_req(si)
            BY <3>1, <3>3, Zenon DEF CpuSuspend
        <3>4. CASE ~is_cpu_standby_req(si)
            <4>1. PICK end \in AllLevels, o \in {"pwrdown", "retention"} :
                     StartLocking(c, o, end)
                BY <3>1, <3>2, <3>4, Zenon DEF CpuSuspend
            <4> QED BY <3>1, <3>2, <3>4, <4>1, Zenon DEF CpuSuspend
        <3> QED BY <3>3, <3>4, Zenon
    <2>2. CASE CpuOff(c) \/ SystemSuspend(c) \/ (\E t \in Cpus : CpuOn(c, t))
        <3>1. \A t \in Cpus : t \in 0 .. PLATFORM_CORE_COUNT
            BY BasicFacts, Zenon
        <3> QED BY <2>2, <3>1 DEF CpuOff, SystemSuspend, CpuOn
    <2>3. CASE Interrupt(c) \/ WarmReset(c) \/ psci_cpu_on_finish(c) \/ psci_spin_lock_cpu(c)
        BY <2>3 DEF Interrupt, StandbyExit, WakeFromRetention, WarmReset,
           psci_cpu_on_finish, psci_spin_lock_cpu
    <2>4. CASE psci_acquire_pwr_domain_locks(c) \/ psci_release_pwr_domain_locks(c)
        <3>1. /\ psci_acquire_pwr_domain_locks(c) => level[c] + 1 \in 0 .. PLAT_MAX_PWR_LVL + 1
              /\ psci_release_pwr_domain_locks(c) => level[c] - 1 \in 0 .. PLAT_MAX_PWR_LVL + 1
            <4>1. level[c] \in 0 .. PLAT_MAX_PWR_LVL + 1 /\ end_pwrlvl[c] \in AllLevels
                BY Zenon
            <4>2. /\ psci_acquire_pwr_domain_locks(c) => level[c] <= end_pwrlvl[c]
                  /\ psci_release_pwr_domain_locks(c) => level[c] > 0
                BY Zenon DEF psci_acquire_pwr_domain_locks, psci_release_pwr_domain_locks
            <4> HIDE <1>1, <1>2
            <4> QED BY <4>1, <4>2, PlatformAssumption DEF AllLevels
        <3> QED BY <2>4, <3>1, Zenon
                DEF psci_acquire_pwr_domain_locks, psci_release_pwr_domain_locks
    <2>5. CASE psci_is_last_on_cpu(c)
        <3>1. idx[c] + 1 \in 0 .. PLATFORM_CORE_COUNT
            BY <2>5, PlatformAssumption DEF psci_is_last_on_cpu
        <3>2. CASE idx[c] # c /\ aff_info_state[idx[c]] # "OFF"
            BY <2>5, <3>2, Zenon DEF psci_is_last_on_cpu
        <3>3. CASE ~(idx[c] # c /\ aff_info_state[idx[c]] # "OFF")
            BY <2>5, <3>1, <3>3, Zenon DEF psci_is_last_on_cpu
        <3> QED BY <3>2, <3>3, Zenon
    <2>6. CASE IsLastOnCpu(c) \/ DenyOrInterrupt(c) \/ psci_set_target_local_pwr_states(c)
        <3>1. sys_suspend_state \in PowerStates
            BY PlatformAssumption, Zenon
        <3>2. CASE IsLastOnCpu(c) BY <3>1, <3>2, Zenon DEF IsLastOnCpu
        <3>3. CASE DenyOrInterrupt(c) BY <3>3, Zenon DEF DenyOrInterrupt
        <3>4. CASE psci_set_target_local_pwr_states(c)
            BY <3>4, Zenon DEF psci_set_target_local_pwr_states
        <3> QED BY <2>6, <3>2, <3>3, <3>4, Zenon
    <2>7. CASE psci_do_state_coordination(c)
        <3>1. psci_set_req_local_pwr_state(c) \in [Levels -> [Cpus -> LocalStates]]
            <4>1. /\ req_local_pwr_states \in [Levels -> [Cpus -> LocalStates]]
                  /\ \A l \in Levels : state_info[c][l] \in LocalStates
                BY BasicFacts, Zenon DEF TypeOK
            <4> HIDE <1>1, <1>2
            <4> QED BY <4>1, Zenon DEF psci_set_req_local_pwr_state
        <3>2. Coordinated(c, req_local_pwr_states') \in PowerStates
            <4> HIDE <1>1, <1>2
            <4> QED BY <2>7, <3>1, CoordinationIsSound, Zenon DEF psci_do_state_coordination
        <3> QED BY <2>7, <3>2, Zenon DEF psci_do_state_coordination
    <2>8. CASE \/ Unlocked(c) \/ psci_cpu_suspend_finish(c)
               \/ psci_set_pwr_domains_to_run(c)
        BY <2>8 DEF Unlocked, psci_cpu_suspend_finish, psci_set_pwr_domains_to_run
    <2>9. CASE psci_warmboot_entrypoint(c)
        <3>1. get_power_on_target_pwrlvl(c) \in AllLevels
            BY BasicFacts, Zenon DEF TypeOK, get_power_on_target_pwrlvl
        <3>2. CASE aff_info_state[c] = "OFF"
            BY <2>9, <3>2, Zenon DEF psci_warmboot_entrypoint
        <3>3. CASE aff_info_state[c] # "OFF"
            BY <2>9, <3>1, <3>3 DEF psci_warmboot_entrypoint
        <3> QED BY <3>2, <3>3, Zenon
    <2>10. CASE psci_get_target_local_pwr_states(c)
        <3>1. [l \in AllLevels |->
                 IF l = 0 THEN cpu_local_state[c]
                 ELSE IF l <= end_pwrlvl[c] THEN node_local_state[parent_nodes[c][l]]
                 ELSE RUN] \in PowerStates
            <4>1. /\ \A l \in AllLevels : l # 0 => parent_nodes[c][l] \in Nodes
                  /\ \A n \in Nodes : node_local_state[n] \in LocalStates
                  /\ cpu_local_state[c] \in LocalStates /\ RUN \in LocalStates
                <5> HIDE <1>1, <1>2
                <5>1. \A l \in AllLevels : l # 0 => l \in Levels
                    BY PlatformAssumption DEF AllLevels, Levels
                <5>2. \A l \in Levels : parent_nodes[c][l] \in Nodes
                    BY TopologyAssumption, Zenon
                <5>3. /\ \A n \in Nodes : node_local_state[n] \in LocalStates
                      /\ cpu_local_state[c] \in LocalStates
                    BY Zenon DEF TypeOK
                <5> QED BY <5>1, <5>2, <5>3, BasicFacts, Zenon
            <4> HIDE <1>1, <1>2
            <4> QED BY <4>1, Zenon DEF PowerStates
        <3> QED BY <2>10, <3>1, Zenon DEF psci_get_target_local_pwr_states
    <2>11. CASE \/ cpu_on_validate_state(c) \/ pwr_domain_on(c) \/ pwr_domain_on_fails(c)
                \/ cm_init_context_by_index(c) \/ psci_spin_unlock_cpu(c)
        BY <2>11, Zenon DEF cpu_on_validate_state, pwr_domain_on, pwr_domain_on_fails,
           cm_init_context_by_index, psci_spin_unlock_cpu
    <2> QED BY <2>1, <2>2, <2>3, <2>4, <2>5, <2>6, <2>7, <2>8, <2>9, <2>10, <2>11, Zenon
            DEF Step, Call, Wait, Compute
<1>4. psci_locks' \in [Nodes -> Cpus \cup {NoCpu}] /\ cpu_lock' \in [Cpus -> Cpus \cup {NoCpu}]
    <2>1. psci_locks \in [Nodes -> Cpus \cup {NoCpu}] /\ cpu_lock \in [Cpus -> Cpus \cup {NoCpu}]
        BY Zenon DEF TypeOK
    <2>2. psci_locks' \in [Nodes -> Cpus \cup {NoCpu}]
        <3>1. CASE psci_locks' = psci_locks
            BY <2>1, <3>1, Zenon
        <3>2. CASE psci_acquire_pwr_domain_locks(c) \/ psci_release_pwr_domain_locks(c)
            BY <2>1, <3>2, Zenon DEF psci_acquire_pwr_domain_locks, psci_release_pwr_domain_locks
        <3> QED BY <3>1, <3>2, Effects, Zenon
    <2>3. cpu_lock' \in [Cpus -> Cpus \cup {NoCpu}]
        <3>1. CASE cpu_lock' = cpu_lock
            BY <2>1, <3>1, Zenon
        <3>2. CASE psci_spin_lock_cpu(c) \/ psci_spin_unlock_cpu(c)
            BY <2>1, <3>2, Zenon DEF psci_spin_lock_cpu, psci_spin_unlock_cpu
        <3> QED BY <3>1, <3>2, Effects, Zenon
    <2> QED BY <2>2, <2>3, Zenon
<1>5. power_on' \in [Cpus -> BOOLEAN]
    <2>1. power_on \in [Cpus -> BOOLEAN]
        BY Zenon DEF TypeOK
    <2> QED BY <2>1, Effects, Zenon DEF pwr_domain_on, WarmReset
<1>6. aff_info_state' \in [Cpus -> AFF_STATES]
    <2>1. aff_info_state \in [Cpus -> AFF_STATES]
        BY Zenon DEF TypeOK
    <2>2. CASE Unlocked(c)
        BY <2>1, <2>2, Zenon DEF Unlocked, AFF_STATES
    <2>3. CASE psci_set_pwr_domains_to_run(c)
        BY <2>1, <2>3, Zenon DEF psci_set_pwr_domains_to_run, AFF_STATES
    <2>4. CASE cpu_on_validate_state(c) \/ pwr_domain_on_fails(c)
        BY <2>1, <2>4, Zenon DEF cpu_on_validate_state, pwr_domain_on_fails, AFF_STATES
    <2> QED BY <2>1, <2>2, <2>3, <2>4, Effects, Zenon
<1>7. ns_context' \in [Cpus -> BOOLEAN]
    <2>1. ns_context \in [Cpus -> BOOLEAN]
        BY Zenon DEF TypeOK
    <2>2. CASE psci_set_target_local_pwr_states(c)
        <3>1. CASE op[c] \in {"pwrdown", "system"}
            BY <2>1, <2>2, <3>1, Zenon DEF psci_set_target_local_pwr_states
        <3>2. CASE op[c] \notin {"pwrdown", "system"}
            BY <2>1, <2>2, <3>2, Zenon DEF psci_set_target_local_pwr_states
        <3> QED BY <3>1, <3>2, Zenon
    <2>3. CASE psci_set_pwr_domains_to_run(c)
        BY <2>1, <2>3, Zenon DEF psci_set_pwr_domains_to_run
    <2>4. CASE cm_init_context_by_index(c)
        BY <2>1, <2>4, Zenon DEF cm_init_context_by_index
    <2> QED BY <2>1, <2>2, <2>3, <2>4, Effects, Zenon
<1>8. node_local_state' \in [Nodes -> LocalStates]
    <2>1. CASE psci_set_target_local_pwr_states(c)
        BY <1>1, <2>1, NodeWrites, Zenon DEF psci_set_target_local_pwr_states
    <2>2. CASE psci_set_pwr_domains_to_run(c)
        BY <2>2, BasicFacts, Zenon DEF TypeOK, psci_set_pwr_domains_to_run
    <2> QED BY <2>1, <2>2, Effects, Zenon DEF TypeOK
<1>9. req_local_pwr_states' \in [Levels -> [Cpus -> LocalStates]]
    <2>1. /\ req_local_pwr_states \in [Levels -> [Cpus -> LocalStates]]
          /\ \A l \in Levels : state_info[c][l] \in LocalStates
          /\ RUN \in LocalStates
        BY <1>1, BasicFacts, Zenon DEF TypeOK
    <2>2. CASE psci_do_state_coordination(c)
        BY <2>1, <2>2, Zenon DEF psci_do_state_coordination, psci_set_req_local_pwr_state
    <2>3. CASE psci_set_pwr_domains_to_run(c)
        BY <2>1, <2>3, Zenon DEF psci_set_pwr_domains_to_run
    <2> QED BY <2>1, <2>2, <2>3, Effects, Zenon
<1>10. target_pwrlvl' \in [Cpus -> 0 .. PSCI_INVALID_PWR_LVL]
    <2>1. /\ target_pwrlvl \in [Cpus -> 0 .. PSCI_INVALID_PWR_LVL]
          /\ PSCI_INVALID_PWR_LVL \in 0 .. PSCI_INVALID_PWR_LVL
          /\ end_pwrlvl[c] \in 0 .. PSCI_INVALID_PWR_LVL
        BY <1>1, BasicFacts, Zenon DEF TypeOK
    <2> QED BY <2>1, Effects, Zenon DEF psci_set_target_local_pwr_states, psci_cpu_suspend_finish
<1>11. cpu_local_state' \in [Cpus -> LocalStates]
    <2>1. /\ cpu_local_state \in [Cpus -> LocalStates] /\ RUN \in LocalStates
          /\ state_info[c][0] \in LocalStates
          /\ \A si \in idle_states : si[0] \in LocalStates
        BY <1>1, BasicFacts, PlatformAssumption, Zenon DEF TypeOK
    <2> QED BY <2>1, Effects, Zenon DEF CpuSuspend, StandbyExit, psci_set_target_local_pwr_states,
               psci_set_pwr_domains_to_run
<1> QED BY <1>3, <1>4, <1>5, <1>6, <1>7, <1>8, <1>9, <1>10, <1>11, Zenon DEF TypeOK

-----------------------------------------------------------------------------
(* The inductive invariant.                                                *)

\* CPU c holds the lock of its ancestor at level l.
Holds(c, l) ==
    \/ pc[c] = "lock" /\ l < level[c]
    \/ pc[c] \in {"coordinated", "on_finish", "suspend_finish", "run"}
         /\ l <= end_pwrlvl[c]
    \/ pc[c] = "unlock" /\ l <= level[c]

LockInv == \A c \in Cpus, l \in Levels :
    Holds(c, l) => psci_locks[parent_nodes[c][l]] = c

ControlInv == \A c \in Cpus :
    /\ pc[c] = "lock" => /\ level[c] \in 1 .. end_pwrlvl[c] + 1
                         /\ op[c] \in DownOps \cup {"warmboot", "standby_finish"}
    /\ pc[c] = "unlock" => level[c] <= end_pwrlvl[c] /\ op[c] # "none"
    /\ pc[c] \in {"coordinated", "wfi"} => op[c] \in DownOps
    /\ pc[c] \in {"on_finish", "suspend_finish"} => op[c] = "warmboot"
    /\ pc[c] = "run" => op[c] \in {"warmboot", "standby_finish"}
    /\ pc[c] # "panic"

\* CPU c has no vote for a low-power state in the table.
NotVoted(c) == Awake(c) \/ (pc[c] = "unlock" /\ op[c] \notin DownOps)

\* The highest level CPU c may have voted for.
VotedUpTo(c) ==
    IF pc[c] = "reset" THEN get_power_on_target_pwrlvl(c) ELSE end_pwrlvl[c]

VoteInv == \A c \in Cpus, l \in Levels :
    NotVoted(c) \/ l > VotedUpTo(c) => req_local_pwr_states[l][c] = RUN

\* What CPU c is about to write is no deeper than any vote.
CoordinatedInv == \A c, d \in Cpus, l \in Levels :
    /\ pc[c] = "coordinated" /\ l <= end_pwrlvl[c]
    /\ parent_nodes[d][l] = parent_nodes[c][l]
    => state_info[c][l] <= req_local_pwr_states[l][d]

RetentionInv == \A c \in Cpus : op[c] = "retention" =>
    /\ pc[c] = "lock" => \A l \in AllLevels : ~is_local_state_off(state_info[c][l])
    /\ pc[c] \in {"coordinated", "unlock", "wfi"} =>
         \A l \in Levels : ~is_local_state_off(req_local_pwr_states[l][c])

\* CPU c is suspended with power off, or resuming from it.
Suspended(c) ==
    \/ pc[c] \in {"unlock", "wfi"} /\ op[c] \in PwrDownOps
    \/ /\ aff_info_state[c] = "ON"
       /\ \/ pc[c] \in {"reset", "suspend_finish"}
          \/ pc[c] = "lock" /\ op[c] = "warmboot"

IsOff(c) == pc[c] = "wfi" /\ op[c] = "off"

AffInv == \A c \in Cpus :
    /\ aff_info_state[c] = "OFF" => IsOff(c)
    /\ aff_info_state[c] = "ON_PENDING" =>
         \/ IsOff(c) \/ pc[c] \in {"reset", "on_finish"}
         \/ pc[c] \in {"lock", "run"} /\ op[c] = "warmboot"
    /\ IsOff(c) => aff_info_state[c] # "ON"
    /\ pc[c] = "on_finish" => aff_info_state[c] = "ON_PENDING"
    /\ pc[c] = "suspend_finish" => aff_info_state[c] = "ON"
    /\ power_on[c] => aff_info_state[c] = "ON_PENDING" /\ IsOff(c)

SuspendInv == \A c \in Cpus :
    /\ ~Suspended(c) => target_pwrlvl[c] = PSCI_INVALID_PWR_LVL
    /\ Suspended(c) =>
         /\ target_pwrlvl[c] \in AllLevels
         /\ pc[c] # "reset" => target_pwrlvl[c] = end_pwrlvl[c]
         /\ is_local_state_off(cpu_local_state[c])
         /\ ns_context[c]
    /\ pc[c] = "suspend_finish" => is_local_state_off(state_info[c][0])
    /\ pc[c] \in {"lock", "coordinated"} /\ op[c] \in PwrDownOps =>
         is_local_state_off(state_info[c][0])
    /\ op[c] = "off" => end_pwrlvl[c] = PLAT_MAX_PWR_LVL

\* CPU d is turning CPU t on and has not initialised its context.
TurningOn(d, t) == pc[d] \in {"on_plat", "on_context"} /\ idx[d] = t

CpuOnInv == \A d \in Cpus :
    /\ pc[d] = "on_lock" => idx[d] \in Cpus
    /\ pc[d] \in {"on_validate", "on_plat", "on_context", "on_unlock"} =>
         idx[d] \in Cpus /\ cpu_lock[idx[d]] = d
    /\ pc[d] = "on_plat" => IsOff(idx[d]) /\ ~power_on[idx[d]]
    /\ TurningOn(d, idx[d]) =>
         aff_info_state[idx[d]] = "ON_PENDING" /\ pc[idx[d]] # "run"

ContextInv == \A t \in Cpus :
    /\ aff_info_state[t] = "ON_PENDING" =>
         ns_context[t] \/ \E d \in Cpus : TurningOn(d, t)
    /\ pc[t] = "run" /\ op[t] = "warmboot" => ns_context[t]

IInv ==
    /\ TypeOK /\ ControlInv /\ LockInv /\ VoteInv /\ CoordinatedInv
    /\ NeverDeeperThanVoted /\ RetentionInv /\ AffInv /\ SuspendInv
    /\ CpuOnInv /\ ContextInv

-----------------------------------------------------------------------------
(* Only coordination and the return to RUN change votes, those of the CPU  *)
(* itself at levels whose lock it holds.                                   *)
LEMMA VotesAreLocked ==
    ASSUME TypeOK, NEW c \in Cpus, Step(c), NEW d \in Cpus, NEW l \in Levels,
           req_local_pwr_states'[l][d] # req_local_pwr_states[l][d]
    PROVE  /\ d = c /\ l <= end_pwrlvl[c] /\ Holds(c, l)
           /\ psci_do_state_coordination(c) \/ psci_set_pwr_domains_to_run(c)
<1>1. /\ l \in Int /\ end_pwrlvl[c] \in Int /\ level[c] \in Int
      /\ req_local_pwr_states \in [Levels -> [Cpus -> LocalStates]]
    BY BasicFacts DEF TypeOK
<1>2. CASE psci_do_state_coordination(c)
    BY <1>1, <1>2
    DEF psci_do_state_coordination, psci_set_req_local_pwr_state, LocksTaken, Holds
<1>3. CASE psci_set_pwr_domains_to_run(c)
    BY <1>1, <1>3, Zenon DEF psci_set_pwr_domains_to_run, Holds
<1> QED BY <1>2, <1>3, Effects, Zenon

(* Only the two functions that write them change the node states, at       *)
(* levels whose lock the CPU holds.                                        *)
LEMMA NodesAreLocked ==
    ASSUME TypeOK, NEW c \in Cpus, Step(c), NEW n \in Nodes,
           node_local_state'[n] # node_local_state[n]
    PROVE  /\ InScope(c, n) /\ Holds(c, LevelOf(c, n))
           /\ psci_set_target_local_pwr_states(c) \/ psci_set_pwr_domains_to_run(c)
<1>1. InScope(c, n) => LevelOf(c, n) <= end_pwrlvl[c]
    BY ScopeLevel, Zenon
<1>2. CASE psci_set_target_local_pwr_states(c)
    BY <1>1, <1>2, Zenon DEF psci_set_target_local_pwr_states, Holds
<1>3. CASE psci_set_pwr_domains_to_run(c)
    BY <1>1, <1>3, Zenon DEF psci_set_pwr_domains_to_run, Holds
<1> QED BY <1>2, <1>3, Effects, Zenon

(* The places and operations of a handler stay consistent; in particular   *)
(* psci_warmboot_entrypoint does not panic.                                *)
LEMMA ControlStep ==
    ASSUME IInv, NEW c \in Cpus, Step(c)
    PROVE  ControlInv'
<1> DEFINE P(d) ==
        /\ pc[d] = "lock" => /\ level[d] \in 1 .. end_pwrlvl[d] + 1
                             /\ op[d] \in DownOps \cup {"warmboot", "standby_finish"}
        /\ pc[d] = "unlock" => level[d] <= end_pwrlvl[d] /\ op[d] # "none"
        /\ pc[d] \in {"coordinated", "wfi"} => op[d] \in DownOps
        /\ pc[d] \in {"on_finish", "suspend_finish"} => op[d] = "warmboot"
        /\ pc[d] = "run" => op[d] \in {"warmboot", "standby_finish"}
        /\ pc[d] # "panic"
<1>1. TypeOK /\ \A d \in Cpus : P(d)
    BY Zenon DEF IInv, ControlInv
<1>2. \A d \in Cpus : d # c => P(d)'
    BY <1>1, Frame
<1>3. P(c)'
    <2>1. /\ P(c)
          /\ end_pwrlvl[c] \in Nat /\ level[c] \in Int
          /\ get_power_on_target_pwrlvl(c) \in Nat
          /\ \A l \in AllLevels : l \in Nat
        BY <1>1, PlatformAssumption
        DEF TypeOK, AllLevels, get_power_on_target_pwrlvl, PSCI_INVALID_PWR_LVL
    <2>2. ~Panic(c)
        BY Zenon DEF IInv, AffInv, IsOff, Panic
    <2>3. CASE Stay(c) BY <2>1, <2>3, Zenon DEF Stay, NsPlaces
    <2>4. CASE Enter(c) BY <2>1, <2>4 DEF Enter
    <2>5. CASE Wake(c) BY <2>1, <2>5 DEF Wake
    <2>6. CASE Reset(c) BY <2>6, Zenon DEF Reset
    <2>7. CASE Lock(c) BY <2>1, <2>7 DEF Lock
    <2>8. CASE Inside(c) BY <2>1, <2>8, Zenon DEF Inside, LocksTaken
    <2>9. CASE Leave(c) BY <2>1, <2>9 DEF Leave, LocksTaken, DownOps
    <2>10. CASE Exit(c) BY <2>1, <2>10, Zenon DEF Exit
    <2> HIDE DEF P
    <2> QED BY <1>1, <2>2, <2>3, <2>4, <2>5, <2>6, <2>7, <2>8, <2>9, <2>10, Control, Zenon
<1> QED BY <1>2, <1>3, Zenon DEF ControlInv

(* A CPU holds the locks its place in the handler says it holds.           *)
LEMMA LockStep ==
    ASSUME IInv, NEW c \in Cpus, Step(c)
    PROVE  LockInv'
<1>1. TypeOK /\ LockInv /\ ControlInv
    BY Zenon DEF IInv
<1>2. psci_release_pwr_domain_locks(c) =>
        /\ level[c] \in Levels /\ psci_locks[parent_nodes[c][level[c]]] = c
    <2> SUFFICES ASSUME psci_release_pwr_domain_locks(c)
                 PROVE  level[c] \in Levels /\ psci_locks[parent_nodes[c][level[c]]] = c
        BY Zenon
    <2>1. level[c] \in Levels /\ Holds(c, level[c])
        BY <1>1, PlatformAssumption
        DEF psci_release_pwr_domain_locks, Holds, TypeOK, ControlInv, Levels, AllLevels
    <2> QED BY <1>1, <2>1, Zenon DEF LockInv
<1>3. ASSUME NEW d \in Cpus, d # c, NEW l \in Levels, Holds(d, l)'
      PROVE  psci_locks'[parent_nodes[d][l]] = d
    <2>1. Holds(d, l)
        BY <1>1, <1>3, Frame, Zenon DEF Holds
    <2>2. psci_locks[parent_nodes[d][l]] = d /\ d # NoCpu
        BY <1>1, <2>1, BasicFacts, Zenon DEF LockInv
    <2>3. CASE psci_locks' = psci_locks BY <2>2, <2>3, Zenon
    <2>4. CASE psci_acquire_pwr_domain_locks(c)
        BY <2>2, <2>4 DEF psci_acquire_pwr_domain_locks
    <2>5. CASE psci_release_pwr_domain_locks(c)
        BY <1>2, <1>3, <2>2, <2>5 DEF psci_release_pwr_domain_locks
    <2> QED BY <2>3, <2>4, <2>5, Effects, Zenon
<1>4. ASSUME NEW l \in Levels, Holds(c, l)'
      PROVE  psci_locks'[parent_nodes[c][l]] = c
    <2>1. /\ l \in Nat /\ l > 0 /\ level[c] \in Nat /\ end_pwrlvl[c] \in Nat
          /\ Holds(c, l) => psci_locks[parent_nodes[c][l]] = c
        BY <1>1, PlatformAssumption DEF TypeOK, AllLevels, Levels, LockInv
    <2>2. CASE psci_acquire_pwr_domain_locks(c)
        <3>1. pc[c] = "lock" /\ pc'[c] = "lock" /\ level'[c] = level[c] + 1
            BY <1>1, <2>2, Zenon DEF psci_acquire_pwr_domain_locks, TypeOK
        <3>2. CASE l = level[c]
            <4>1. parent_nodes[c][l] \in Nodes
                BY TopologyAssumption, Zenon
            <4>2. psci_locks' = [psci_locks EXCEPT ![parent_nodes[c][l]] = c]
                BY <2>2, <3>2, Zenon DEF psci_acquire_pwr_domain_locks
            <4> QED BY <1>1, <4>1, <4>2, Zenon DEF TypeOK
        <3>3. CASE l < level[c]
            <4>1. psci_locks[parent_nodes[c][l]] = c
                BY <2>1, <3>1, <3>3, Zenon DEF Holds
            <4> QED BY <2>2, <4>1, BasicFacts DEF psci_acquire_pwr_domain_locks
        <3> QED BY <1>4, <2>1, <3>1, <3>2, <3>3 DEF Holds
    <2>3. CASE psci_release_pwr_domain_locks(c)
        <3>1. pc[c] = "unlock" /\ pc'[c] = "unlock" /\ level'[c] = level[c] - 1
            BY <1>1, <2>3, Zenon DEF psci_release_pwr_domain_locks, TypeOK
        <3>2. l < level[c]
            BY <1>4, <2>1, <3>1 DEF Holds
        <3>3. psci_locks[parent_nodes[c][l]] = c
            BY <2>1, <3>1, <3>2 DEF Holds
        <3>4. parent_nodes[c][l] # parent_nodes[c][level[c]]
            BY <1>2, <2>1, <2>3, <3>2, TopologyAssumption
        <3> QED BY <2>3, <3>3, <3>4 DEF psci_release_pwr_domain_locks
    <2>4. CASE psci_locks' = psci_locks /\ ~Lock(c)
        <3> SUFFICES Holds(c, l) BY <2>1, <2>4, Zenon
        <3> USE <1>4, <2>1 DEF Holds
        <3>1. CASE Stay(c) \/ Enter(c) \/ Wake(c) \/ Reset(c) \/ Exit(c)
            BY <3>1 DEF Stay, NsPlaces, Enter, Wake, Reset, Exit
        <3>2. CASE Inside(c) BY <3>2 DEF Inside, LocksTaken
        <3>3. CASE Leave(c) BY <3>3 DEF Leave, LocksTaken
        <3>4. ~Panic(c) BY Zenon DEF IInv, AffInv, IsOff, Panic
        <3> HIDE <1>4, <2>1 DEF Holds
        <3> QED BY <1>1, <2>4, <3>1, <3>2, <3>3, <3>4, Control, Zenon
    <2>5. CASE Lock(c)
        BY <2>2, <2>3, <2>5, Zenon DEF Lock
    <2> QED BY <2>2, <2>3, <2>4, <2>5, Effects, Zenon
<1> QED BY <1>3, <1>4, Zenon DEF LockInv

(* A CPU that is awake has withdrawn every vote, and no CPU votes above    *)
(* the level it is going to withdraw its votes up to when it wakes.        *)
LEMMA VoteStep ==
    ASSUME IInv, NEW c \in Cpus, Step(c)
    PROVE  VoteInv'
<1>1. TypeOK /\ VoteInv /\ ControlInv /\ SuspendInv /\ AffInv
    BY Zenon DEF IInv
<1>2. ASSUME NEW d \in Cpus, d # c, NEW l \in Levels, (NotVoted(d) \/ l > VotedUpTo(d))'
      PROVE  req_local_pwr_states'[l][d] = RUN
    <2>1. NotVoted(d) \/ l > VotedUpTo(d)
        BY <1>1, <1>2, Frame, Zenon DEF NotVoted, Awake, VotedUpTo, get_power_on_target_pwrlvl
    <2> QED BY <1>1, <1>2, <2>1, VotesAreLocked, Zenon DEF VoteInv
<1>3. ASSUME NEW l \in Levels, (NotVoted(c) \/ l > VotedUpTo(c))'
      PROVE  req_local_pwr_states'[l][c] = RUN
    <2>1. /\ NotVoted(c) \/ l > VotedUpTo(c) => req_local_pwr_states[l][c] = RUN
          /\ l \in Nat /\ end_pwrlvl[c] \in Nat /\ target_pwrlvl[c] \in Nat
          /\ l <= PLAT_MAX_PWR_LVL /\ PLAT_MAX_PWR_LVL \in Nat
        BY <1>1, PlatformAssumption
        DEF VoteInv, TypeOK, Levels, AllLevels, PSCI_INVALID_PWR_LVL
    <2>2. /\ pc[c] \in {"wfi", "coordinated"} => op[c] \in DownOps
          /\ pc[c] = "wfi" /\ op[c] = "off" => target_pwrlvl[c] = PSCI_INVALID_PWR_LVL
          /\ pc[c] = "wfi" /\ op[c] \in PwrDownOps => target_pwrlvl[c] = end_pwrlvl[c]
          /\ pc[c] = "run" => op[c] \notin DownOps
          /\ ~Panic(c)
        BY <1>1, Zenon DEF ControlInv, SuspendInv, AffInv, Suspended, IsOff, PwrDownOps, DownOps, Panic
    <2>3. CASE psci_set_pwr_domains_to_run(c)
        <3>1. /\ l <= end_pwrlvl[c] => req_local_pwr_states'[l][c] = RUN
              /\ l > end_pwrlvl[c] => req_local_pwr_states'[l][c] = req_local_pwr_states[l][c]
              /\ pc[c] = "run"
            BY <1>1, <2>1, <2>3 DEF psci_set_pwr_domains_to_run, TypeOK
        <3> QED BY <2>1, <3>1 DEF VotedUpTo
    <2>4. CASE psci_do_state_coordination(c)
        <3>1. /\ pc[c] = "lock" /\ op[c] \in DownOps /\ pc'[c] = "coordinated"
              /\ end_pwrlvl'[c] = end_pwrlvl[c]
              /\ l > end_pwrlvl[c] => req_local_pwr_states'[l][c] = req_local_pwr_states[l][c]
            BY <1>1, <2>1, <2>4 DEF psci_do_state_coordination, psci_set_req_local_pwr_state,
               TypeOK, LocksTaken, Goto
        <3> QED BY <1>3, <2>1, <3>1, Zenon DEF NotVoted, Awake, VotedUpTo
    <2>5. CASE /\ req_local_pwr_states' = req_local_pwr_states
               /\ ~psci_set_pwr_domains_to_run(c)
        <3> SUFFICES NotVoted(c) \/ l > VotedUpTo(c) BY <2>1, <2>5, Zenon
        <3>1. target_pwrlvl' = target_pwrlvl \/ pc'[c] # "reset"
            BY <1>1, Effects, Zenon DEF psci_set_target_local_pwr_states, psci_cpu_suspend_finish,
               TypeOK, StartUnlocking, Goto
        <3> USE <1>3, <2>1, <2>2 DEF NotVoted, VotedUpTo, Awake
        <3>2. CASE Stay(c) \/ Enter(c) BY <3>2, Zenon DEF Stay, NsPlaces, Enter
        <3>3. CASE Wake(c) BY <3>3, Zenon DEF Wake, DownOps
        <3>4. CASE Reset(c)
            BY <3>1, <3>4 DEF Reset, get_power_on_target_pwrlvl, PSCI_INVALID_PWR_LVL, PwrDownOps
        <3>5. CASE Lock(c) BY <3>5, Zenon DEF Lock
        <3>6. CASE Inside(c) BY <3>6, Zenon DEF Inside, LocksTaken
        <3>7. CASE Leave(c) BY <2>5, <3>7, Zenon DEF Leave, LocksTaken
        <3>8. CASE Exit(c) BY <3>8, Zenon DEF Exit
        <3> HIDE <1>3, <2>1 DEF NotVoted, VotedUpTo, Awake
        <3> QED BY <1>1, <3>2, <3>3, <3>4, <3>5, <3>6, <3>7, <3>8, Control, Zenon
    <2> QED BY <2>3, <2>4, <2>5, Effects, Zenon
<1> QED BY <1>2, <1>3, Zenon DEF VoteInv

(* Between coordination and the write of its result no vote below the      *)
(* domains changes, because their locks are held.                          *)
LEMMA CoordinatedStep ==
    ASSUME IInv, NEW c \in Cpus, Step(c)
    PROVE  CoordinatedInv'
<1>1. TypeOK /\ CoordinatedInv /\ ControlInv /\ LockInv
    BY Zenon DEF IInv
<1>2. ASSUME NEW e \in Cpus, NEW d \in Cpus, NEW l \in Levels, e # c,
             pc'[e] = "coordinated", l <= end_pwrlvl'[e],
             parent_nodes[d][l] = parent_nodes[e][l]
      PROVE  state_info'[e][l] <= req_local_pwr_states'[l][d]
    <2>1. /\ pc[e] = "coordinated" /\ l <= end_pwrlvl[e]
          /\ state_info'[e] = state_info[e]
        BY <1>1, <1>2, Frame, Zenon
    <2>2. state_info[e][l] <= req_local_pwr_states[l][d]
        BY <1>1, <1>2, <2>1, Zenon DEF CoordinatedInv
    <2>3. psci_locks[parent_nodes[e][l]] = e
        BY <1>1, <2>1, Zenon DEF LockInv, Holds
    <2>4. ASSUME req_local_pwr_states'[l][d] # req_local_pwr_states[l][d] PROVE FALSE
        <3>1. d = c /\ Holds(c, l)
            BY <1>1, <2>4, VotesAreLocked, Zenon
        <3>2. psci_locks[parent_nodes[c][l]] = c
            BY <1>1, <3>1, Zenon DEF LockInv
        <3> QED BY <1>2, <2>3, <3>1, <3>2, Zenon
    <2> QED BY <2>1, <2>2, <2>4, Zenon
<1>3. ASSUME NEW d \in Cpus, NEW l \in Levels, pc'[c] = "coordinated", l <= end_pwrlvl'[c],
             parent_nodes[d][l] = parent_nodes[c][l]
      PROVE  state_info'[c][l] <= req_local_pwr_states'[l][d]
    <2>1. psci_do_state_coordination(c)
        <3>1. ~Panic(c)
            BY Zenon DEF IInv, AffInv, IsOff, Panic
        <3> QED BY <1>1, <1>3, <3>1, Control, Zenon
                DEF Stay, NsPlaces, Enter, Wake, Reset, Lock, Inside, Leave, Exit
    <2>2. TypeOK'
        BY <1>1, TypeStep, Zenon
    <2>3. /\ req_local_pwr_states' \in [Levels -> [Cpus -> LocalStates]]
          /\ state_info'[c] = Coordinated(c, req_local_pwr_states')
          /\ l <= end_pwrlvl[c]
        BY <1>1, <1>3, <2>1, <2>2, Zenon DEF psci_do_state_coordination, TypeOK
    <2> QED BY <1>1, <1>3, <2>3, CoordinationIsSound, Zenon
<1> QED BY <1>2, <1>3, Zenon DEF CoordinatedInv

(* No domain gets deeper than a vote of a CPU below it.                    *)
LEMMA NeverDeeperStep ==
    ASSUME IInv, NEW c \in Cpus, Step(c)
    PROVE  NeverDeeperThanVoted'
<1>1. /\ TypeOK /\ CoordinatedInv /\ ControlInv /\ NeverDeeperThanVoted /\ VoteInv
      /\ TypeOK'
    BY TypeStep, Zenon DEF IInv
<1> SUFFICES ASSUME NEW d \in Cpus, NEW l \in Levels
             PROVE  node_local_state'[parent_nodes[d][l]] <= req_local_pwr_states'[l][d]
    BY Zenon DEF NeverDeeperThanVoted
<1> DEFINE n == parent_nodes[d][l]
<1>2. n \in Nodes
    BY TopologyAssumption
<1>3. /\ node_local_state[n] <= req_local_pwr_states[l][d]
      /\ node_local_state[n] \in Nat /\ node_local_state'[n] \in Nat
      /\ req_local_pwr_states[l][d] \in Nat /\ req_local_pwr_states'[l][d] \in Nat
    BY <1>1, <1>2, PlatformAssumption DEF NeverDeeperThanVoted, TypeOK, LocalStates, RUN
<1>4. CASE psci_set_target_local_pwr_states(c)
    <2>1. req_local_pwr_states' = req_local_pwr_states
        BY <1>4, Zenon DEF psci_set_target_local_pwr_states
    <2>2. CASE InScope(c, n)
        <3>1. LevelOf(c, n) \in Levels /\ LevelOf(c, n) <= end_pwrlvl[c]
              /\ parent_nodes[c][LevelOf(c, n)] = n
            BY <1>1, <1>2, <2>2, ScopeLevel, Zenon
        <3>2. LevelOf(c, n) = l
            BY <3>1, TopologyAssumption
        <3>3. node_local_state'[n] = state_info[c][l]
            BY <1>2, <1>4, <2>2, <3>2, Zenon DEF psci_set_target_local_pwr_states
        <3>4. pc[c] = "coordinated"
            BY <1>4, Zenon DEF psci_set_target_local_pwr_states
        <3>5. state_info[c][l] <= req_local_pwr_states[l][d]
            BY <1>1, <3>1, <3>2, <3>4, Zenon DEF CoordinatedInv
        <3> QED BY <2>1, <3>3, <3>5, Zenon
    <2>3. CASE ~InScope(c, n)
        <3>1. node_local_state'[n] = node_local_state[n]
            BY <1>2, <1>4, <2>3, Zenon DEF psci_set_target_local_pwr_states
        <3> QED BY <1>3, <2>1, <3>1, Zenon
    <2> QED BY <2>2, <2>3, Zenon
<1>5. CASE psci_set_pwr_domains_to_run(c)
    <2>1. CASE InScope(c, n)
        <3>1. node_local_state'[n] = 0
            BY <1>2, <1>5, <2>1, Zenon DEF psci_set_pwr_domains_to_run, RUN
        <3> QED BY <1>3, <3>1
    <2>2. CASE ~InScope(c, n)
        <3>1. node_local_state'[n] = node_local_state[n]
            BY <1>2, <1>5, <2>2, Zenon DEF psci_set_pwr_domains_to_run
        <3>2. ASSUME req_local_pwr_states'[l][d] # req_local_pwr_states[l][d] PROVE FALSE
            BY <1>1, <1>2, <2>2, <3>2, VotesAreLocked, ScopeLevel
        <3> QED BY <1>3, <3>1, <3>2, Zenon
    <2> QED BY <2>1, <2>2, Zenon
<1>6. CASE psci_do_state_coordination(c)
    <2>1. node_local_state' = node_local_state
        BY <1>6, Zenon DEF psci_do_state_coordination
    <2>2. CASE req_local_pwr_states'[l][d] = req_local_pwr_states[l][d]
        BY <1>3, <2>1, <2>2, Zenon
    <2>3. CASE req_local_pwr_states'[l][d] # req_local_pwr_states[l][d]
        <3>1. d = c
            BY <1>1, <2>3, VotesAreLocked, Zenon
        <3>2. NotVoted(c)
            BY <1>6, Zenon DEF psci_do_state_coordination, LocksTaken, NotVoted, Awake
        <3>3. req_local_pwr_states[l][d] = 0
            BY <1>1, <3>1, <3>2, Zenon DEF VoteInv, RUN
        <3> QED BY <1>3, <2>1, <3>3
    <2> QED BY <2>2, <2>3, Zenon
<1>7. CASE /\ ~psci_set_target_local_pwr_states(c) /\ ~psci_set_pwr_domains_to_run(c)
           /\ ~psci_do_state_coordination(c)
    <2>1. node_local_state'[n] = node_local_state[n]
        BY <1>1, <1>2, <1>7, NodesAreLocked, Zenon
    <2>2. req_local_pwr_states'[l][d] = req_local_pwr_states[l][d]
        BY <1>1, <1>7, VotesAreLocked, Zenon
    <2> QED BY <1>3, <2>1, <2>2, Zenon
<1> QED BY <1>4, <1>5, <1>6, <1>7, Zenon

(* A CPU in a retention state has voted for no OFF state.                  *)
LEMMA RetentionStep ==
    ASSUME IInv, NEW c \in Cpus, Step(c)
    PROVE  RetentionInv'
<1> DEFINE V(d) == \A l \in Levels : ~is_local_state_off(req_local_pwr_states[l][d])
           P(d) == op[d] = "retention" =>
             /\ pc[d] = "lock" => \A l \in AllLevels : ~is_local_state_off(state_info[d][l])
             /\ pc[d] \in {"coordinated", "unlock", "wfi"} => V(d)
<1>1. TypeOK /\ ControlInv /\ VoteInv /\ \A d \in Cpus : P(d)
    BY Zenon DEF IInv, RetentionInv
<1>2. ASSUME NEW d \in Cpus, d # c PROVE P(d)'
    <2>1. \A l \in Levels : req_local_pwr_states'[l][d] = req_local_pwr_states[l][d]
        BY <1>1, <1>2, VotesAreLocked, Zenon
    <2> QED BY <1>1, <1>2, <2>1, Frame, Zenon
<1>3. P(c)'
    <2>1. P(c) /\ (pc[c] = "run" => op[c] # "retention")
        BY <1>1, Zenon DEF ControlInv
    <2>2. CASE psci_do_state_coordination(c)
        <3>1. pc'[c] = "coordinated" /\ op'[c] = op[c] /\ pc[c] = "lock" /\ op[c] \in DownOps
            BY <1>1, <2>2, Zenon DEF psci_do_state_coordination, TypeOK, LocksTaken, Goto
        <3>2. ASSUME NEW l \in Levels, op[c] = "retention"
              PROVE  ~is_local_state_off(req_local_pwr_states'[l][c])
            <4>1. req_local_pwr_states'[l][c] =
                     IF l <= end_pwrlvl[c] THEN state_info[c][l] ELSE req_local_pwr_states[l][c]
                BY <1>1, <2>2, Zenon
                DEF psci_do_state_coordination, psci_set_req_local_pwr_state, TypeOK
            <4>2. ~is_local_state_off(state_info[c][l])
                BY <2>1, <3>1, <3>2, BasicFacts, Zenon
            <4>3. ~is_local_state_off(req_local_pwr_states[l][c])
                BY <1>1, <3>1, BasicFacts, Zenon DEF VoteInv, NotVoted, Awake
            <4> QED BY <4>1, <4>2, <4>3, Zenon
        <3> QED BY <3>1, <3>2, Zenon
    <2>3. CASE psci_set_pwr_domains_to_run(c)
        <3>1. pc[c] = "run" /\ op'[c] = op[c]
            BY <2>3, Zenon DEF psci_set_pwr_domains_to_run
        <3> QED BY <2>1, <3>1, Zenon
    <2>4. CASE /\ req_local_pwr_states' = req_local_pwr_states
               /\ ~psci_set_pwr_domains_to_run(c) /\ ~psci_do_state_coordination(c)
        <3>1. V(c)' <=> V(c)
            BY <2>4, Zenon
        <3> HIDE DEF V
        <3>2. CASE Stay(c) \/ Enter(c) BY <2>1, <3>1, <3>2, Zenon DEF Stay, NsPlaces, Enter
        <3>3. CASE Wake(c) \/ Reset(c) BY <3>3, Zenon DEF Wake, Reset
        <3>4. CASE Lock(c) BY <2>1, <3>1, <3>4, Zenon DEF Lock
        <3>5. CASE Inside(c) BY <2>1, <2>4, <3>5, Zenon DEF Inside, LocksTaken
        <3>6. CASE Leave(c) BY <2>1, <2>4, <3>1, <3>6, Zenon DEF Leave, LocksTaken
        <3>7. CASE Exit(c) BY <2>1, <3>1, <3>7, Zenon DEF Exit
        <3>8. ~Panic(c) BY Zenon DEF IInv, AffInv, IsOff, Panic
        <3> HIDE DEF P
        <3> QED BY <1>1, <3>2, <3>3, <3>4, <3>5, <3>6, <3>7, <3>8, Control, Zenon
    <2> QED BY <2>2, <2>3, <2>4, Effects, Zenon
<1> QED BY <1>2, <1>3, Zenon DEF RetentionInv

=============================================================================
