-------------------------- MODULE PsciPowerProofs ---------------------------
(***************************************************************************)
(* Every step of PsciPower keeps the parts of IInv about affinity states,  *)
(* suspended CPUs, CPU_ON and saved contexts; so IInv is an inductive      *)
(* invariant, and the properties follow from it.                           *)
(***************************************************************************)
EXTENDS PsciPowerSteps

(* Only the steps of psci_cpu_on_start touch the affinity state, the       *)
(* power controller request or the context of another CPU.                 *)
LEMMA CpuOnFrame ==
    ASSUME TypeOK, NEW c \in Cpus, Step(c), NEW d \in Cpus, d # c
    PROVE  /\ \/ aff_info_state'[d] = aff_info_state[d]
              \/ idx[c] = d /\ (cpu_on_validate_state(c) \/ pwr_domain_on_fails(c))
           /\ \/ power_on'[d] = power_on[d]
              \/ idx[c] = d /\ pwr_domain_on(c)
           /\ \/ ns_context'[d] = ns_context[d]
              \/ idx[c] = d /\ cm_init_context_by_index(c) /\ ns_context'[d]
<1>1. /\ aff_info_state \in [Cpus -> AFF_STATES]
      /\ power_on \in [Cpus -> BOOLEAN] /\ ns_context \in [Cpus -> BOOLEAN]
    BY Zenon DEF TypeOK
<1>2. \/ aff_info_state'[d] = aff_info_state[d]
      \/ idx[c] = d /\ (cpu_on_validate_state(c) \/ pwr_domain_on_fails(c))
    <2>1. CASE Unlocked(c) \/ psci_set_pwr_domains_to_run(c)
        BY <1>1, <2>1, Zenon DEF Unlocked, psci_set_pwr_domains_to_run
    <2>2. CASE cpu_on_validate_state(c) \/ pwr_domain_on_fails(c)
        BY <1>1, <2>2, Zenon DEF cpu_on_validate_state, pwr_domain_on_fails
    <2> QED BY <2>1, <2>2, Effects, Zenon
<1>3. power_on'[d] = power_on[d] \/ (idx[c] = d /\ pwr_domain_on(c))
    <2>1. CASE WarmReset(c) BY <1>1, <2>1, Zenon DEF WarmReset
    <2>2. CASE pwr_domain_on(c) BY <1>1, <2>2, Zenon DEF pwr_domain_on
    <2> QED BY <2>1, <2>2, Effects, Zenon
<1>4. \/ ns_context'[d] = ns_context[d]
      \/ idx[c] = d /\ cm_init_context_by_index(c) /\ ns_context'[d]
    <2>1. CASE psci_set_target_local_pwr_states(c) \/ psci_set_pwr_domains_to_run(c)
        BY <1>1, <2>1, Zenon DEF psci_set_target_local_pwr_states, psci_set_pwr_domains_to_run
    <2>2. CASE cm_init_context_by_index(c)
        BY <1>1, <2>2, Zenon DEF cm_init_context_by_index
    <2> QED BY <2>1, <2>2, Effects, Zenon
<1> QED BY <1>2, <1>3, <1>4, Zenon

(* What a step does to the affinity state and the power request of its own *)
(* CPU: a CPU_ON call has no effect on the caller.                         *)
LEMMA OwnState ==
    ASSUME IInv, NEW c \in Cpus, Step(c)
    PROVE  /\ pc[c] = "run" => aff_info_state'[c] = "ON"
           /\ pc[c] = "unlock" /\ level[c] = 0 /\ op[c] = "off" =>
                aff_info_state'[c] = "OFF"
           /\ \/ pc[c] = "run" \/ (pc[c] = "unlock" /\ level[c] = 0 /\ op[c] = "off")
              \/ aff_info_state'[c] = aff_info_state[c]
           /\ power_on'[c] => power_on[c] /\ pc'[c] # "reset"
<1>1. /\ TypeOK
      /\ aff_info_state \in [Cpus -> AFF_STATES] /\ power_on \in [Cpus -> BOOLEAN]
      /\ aff_info_state[c] = "OFF" => pc[c] = "wfi"
      /\ pc[c] = "on_plat" => idx[c] # c
      /\ ~Panic(c)
    BY Zenon DEF IInv, TypeOK, AffInv, IsOff, CpuOnInv, Panic
<1>2. ASSUME power_on'[c] PROVE power_on[c] /\ pc'[c] # "reset"
    <2>1. ~WarmReset(c)
        BY <1>1, <1>2, Zenon DEF WarmReset
    <2>2. power_on[c]
        BY <1>1, <1>2, <2>1, Effects, Zenon DEF pwr_domain_on
    <2>3. pc'[c] # "reset"
        BY <1>1, <2>1, Control, Zenon DEF Stay, NsPlaces, Enter, Wake, Reset, Lock, Inside, Leave, Exit
    <2> QED BY <2>2, <2>3, Zenon
<1>3. ASSUME pc[c] = "run" PROVE aff_info_state'[c] = "ON"
    <2>1. psci_set_pwr_domains_to_run(c)
        BY <1>1, <1>3, Control, Zenon
        DEF Stay, NsPlaces, Enter, Wake, Reset, Lock, Inside, Leave, Exit, LocksTaken
    <2> QED BY <1>1, <2>1, Zenon DEF psci_set_pwr_domains_to_run
<1>4. ASSUME pc[c] = "unlock", level[c] = 0, op[c] = "off" PROVE aff_info_state'[c] = "OFF"
    <2>1. Unlocked(c)
        BY <1>1, <1>4, Control
        DEF Stay, NsPlaces, Enter, Wake, Reset, Lock, Inside, Leave, Exit, LocksTaken
    <2> QED BY <1>1, <1>4, <2>1, Zenon DEF Unlocked
<1>5. \/ pc[c] = "run" \/ (pc[c] = "unlock" /\ level[c] = 0 /\ op[c] = "off")
      \/ aff_info_state'[c] = aff_info_state[c]
    <2>1. CASE Unlocked(c)
        <3>1. CASE op[c] = "off" BY <2>1, <3>1, Zenon DEF Unlocked
        <3>2. CASE op[c] # "off" BY <1>1, <2>1, <3>2, Zenon DEF Unlocked
        <3> QED BY <3>1, <3>2, Zenon
    <2>2. CASE psci_set_pwr_domains_to_run(c) BY <2>2, Zenon DEF psci_set_pwr_domains_to_run
    <2>3. CASE cpu_on_validate_state(c) \/ pwr_domain_on_fails(c)
        BY <1>1, <2>3, Zenon DEF cpu_on_validate_state, pwr_domain_on_fails
    <2> QED BY <2>1, <2>2, <2>3, Effects, Zenon
<1> QED BY <1>2, <1>3, <1>4, <1>5, Zenon

(* What a step does to the rest of the data of its own CPU.                *)
LEMMA OwnData ==
    ASSUME IInv, NEW c \in Cpus, Step(c)
    PROVE  /\ pc[c] \notin {"coordinated", "suspend_finish"} =>
                target_pwrlvl'[c] = target_pwrlvl[c]
           /\ pc[c] = "suspend_finish" => target_pwrlvl'[c] = PSCI_INVALID_PWR_LVL
           /\ pc[c] = "coordinated" =>
                /\ cpu_local_state'[c] = state_info[c][0]
                /\ op[c] \in PwrDownOps => target_pwrlvl'[c] = end_pwrlvl[c] /\ ns_context'[c]
                /\ op[c] \notin PwrDownOps => target_pwrlvl'[c] = target_pwrlvl[c]
           /\ pc[c] \notin {"coordinated", "ns", "standby", "run"} =>
                cpu_local_state'[c] = cpu_local_state[c]
           /\ ns_context[c] /\ pc[c] # "run" => ns_context'[c]
           /\ pc'[c] = "coordinated" => state_info'[c][0] = state_info[c][0]
<1>1. /\ TypeOK /\ ~Panic(c)
      /\ target_pwrlvl \in [Cpus -> 0 .. PSCI_INVALID_PWR_LVL]
      /\ cpu_local_state \in [Cpus -> LocalStates] /\ ns_context \in [Cpus -> BOOLEAN]
    BY Zenon DEF IInv, TypeOK, AffInv, IsOff, Panic
<1>2. pc[c] \notin {"coordinated", "suspend_finish"} => target_pwrlvl'[c] = target_pwrlvl[c]
    BY Effects, Zenon DEF psci_set_target_local_pwr_states, psci_cpu_suspend_finish
<1>3. ASSUME pc[c] = "suspend_finish" PROVE target_pwrlvl'[c] = PSCI_INVALID_PWR_LVL
    <2>1. psci_cpu_suspend_finish(c)
        BY <1>1, <1>3, Control, Zenon
        DEF Stay, NsPlaces, Enter, Wake, Reset, Lock, Inside, Leave, Exit, LocksTaken
    <2> QED BY <1>1, <2>1, Zenon DEF psci_cpu_suspend_finish
<1>4. ASSUME pc[c] = "coordinated"
      PROVE  /\ cpu_local_state'[c] = state_info[c][0]
             /\ op[c] \in PwrDownOps => target_pwrlvl'[c] = end_pwrlvl[c] /\ ns_context'[c]
             /\ op[c] \notin PwrDownOps => target_pwrlvl'[c] = target_pwrlvl[c]
    <2>1. psci_set_target_local_pwr_states(c)
        BY <1>1, <1>4, Control, Zenon
        DEF Stay, NsPlaces, Enter, Wake, Reset, Lock, Inside, Leave, Exit, LocksTaken
    <2> QED BY <1>1, <2>1, Zenon DEF psci_set_target_local_pwr_states, PwrDownOps
<1>5. pc[c] \notin {"coordinated", "ns", "standby", "run"} =>
        cpu_local_state'[c] = cpu_local_state[c]
    BY Effects, Zenon DEF psci_set_target_local_pwr_states, CpuSuspend, StandbyExit,
       psci_set_pwr_domains_to_run
<1>6. ASSUME ns_context[c], pc[c] # "run" PROVE ns_context'[c]
    <2>1. CASE psci_set_target_local_pwr_states(c)
        BY <1>1, <1>6, <2>1, Zenon DEF psci_set_target_local_pwr_states
    <2>2. CASE psci_set_pwr_domains_to_run(c)
        BY <1>6, <2>2, Zenon DEF psci_set_pwr_domains_to_run
    <2>3. CASE cm_init_context_by_index(c)
        BY <1>1, <1>6, <2>3, Zenon DEF cm_init_context_by_index
    <2> QED BY <1>6, <2>1, <2>2, <2>3, Effects, Zenon
<1>7. ASSUME pc'[c] = "coordinated" PROVE state_info'[c][0] = state_info[c][0]
    <2>1. psci_do_state_coordination(c) \/ pc[c] = "coordinated"
        BY <1>1, <1>7, Control, Zenon DEF Stay, NsPlaces, Enter, Wake, Reset, Lock, Inside, Leave, Exit
    <2>2. pc[c] # "coordinated"
        BY <1>1, <1>7, Control, Zenon
        DEF Stay, NsPlaces, Enter, Wake, Reset, Lock, Inside, Leave, Exit, LocksTaken
    <2>3. /\ state_info \in [Cpus -> PowerStates]
          /\ req_local_pwr_states' \in [Levels -> [Cpus -> LocalStates]]
        BY <1>1, TypeStep, Zenon DEF TypeOK
    <2>4. Coordinated(c, req_local_pwr_states')[0] = state_info[c][0]
        BY <1>1, <2>3, CoordinationIsSound, Zenon
    <2> QED BY <2>1, <2>2, <2>3, <2>4, Zenon DEF psci_do_state_coordination
<1> QED BY <1>2, <1>3, <1>4, <1>5, <1>6, <1>7, Zenon

(* The affinity state of a CPU agrees with its place in the handlers: OFF  *)
(* only in wfi after CPU_OFF, ON_PENDING only from there to the end of the *)
(* warm boot path.                                                         *)
LEMMA AffStep ==
    ASSUME IInv, NEW c \in Cpus, Step(c)
    PROVE  AffInv'
<1> DEFINE P(d) ==
        /\ aff_info_state[d] = "OFF" => IsOff(d)
        /\ aff_info_state[d] = "ON_PENDING" =>
             \/ IsOff(d) \/ pc[d] \in {"reset", "on_finish"}
             \/ pc[d] \in {"lock", "run"} /\ op[d] = "warmboot"
        /\ IsOff(d) => aff_info_state[d] # "ON"
        /\ pc[d] = "on_finish" => aff_info_state[d] = "ON_PENDING"
        /\ pc[d] = "suspend_finish" => aff_info_state[d] = "ON"
        /\ power_on[d] => aff_info_state[d] = "ON_PENDING" /\ IsOff(d)
<1>1. TypeOK /\ ControlInv /\ CpuOnInv /\ \A d \in Cpus : P(d)
    BY Zenon DEF IInv, AffInv
<1>2. ASSUME NEW d \in Cpus, d # c PROVE P(d)'
    <2>1. P(d) /\ pc'[d] = pc[d] /\ op'[d] = op[d] /\ (IsOff(d)' <=> IsOff(d))
        BY <1>1, <1>2, Frame, Zenon DEF IsOff
    <2>2. /\ aff_info_state \in [Cpus -> AFF_STATES] /\ power_on \in [Cpus -> BOOLEAN]
          /\ pc[c] = "on_plat" => IsOff(idx[c]) /\ ~power_on[idx[c]]
                                  /\ aff_info_state[idx[c]] = "ON_PENDING"
        BY <1>1, Zenon DEF TypeOK, CpuOnInv, TurningOn
    <2>3. CASE idx[c] = d /\ cpu_on_validate_state(c)
        <3>1. /\ power_on' = power_on
              /\ \/ aff_info_state' = aff_info_state
                 \/ aff_info_state[d] = "OFF" /\ aff_info_state'[d] = "ON_PENDING"
            BY <2>2, <2>3, Zenon DEF cpu_on_validate_state
        <3> QED BY <2>1, <3>1, Zenon DEF IsOff
    <2>4. CASE idx[c] = d /\ pwr_domain_on_fails(c)
        <3>1. power_on' = power_on /\ aff_info_state'[d] = "OFF" /\ IsOff(d) /\ ~power_on[d]
            BY <2>2, <2>4, Zenon DEF pwr_domain_on_fails
        <3> QED BY <2>1, <3>1, Zenon DEF IsOff
    <2>5. CASE idx[c] = d /\ pwr_domain_on(c)
        <3>1. aff_info_state' = aff_info_state /\ aff_info_state[d] = "ON_PENDING" /\ IsOff(d)
            BY <2>2, <2>5, Zenon DEF pwr_domain_on, data
        <3> QED BY <2>1, <3>1, Zenon DEF IsOff
    <2>6. CASE aff_info_state'[d] = aff_info_state[d] /\ power_on'[d] = power_on[d]
        BY <2>1, <2>6, Zenon DEF IsOff
    <2> HIDE DEF P
    <2> QED BY <1>1, <1>2, <2>3, <2>4, <2>5, <2>6, CpuOnFrame, Zenon
<1>3. P(c)'
    <2>1. /\ P(c) /\ ~Panic(c) /\ aff_info_state[c] \in AFF_STATES
          /\ pc[c] = "unlock" => op[c] # "none"
          /\ pc[c] = "run" => op[c] \in {"warmboot", "standby_finish"}
          /\ pc[c] = "on_finish" => op[c] = "warmboot"
        BY <1>1, Zenon DEF ControlInv, TypeOK, IsOff, Panic
    <2>2. /\ pc[c] = "run" => aff_info_state'[c] = "ON"
          /\ pc[c] = "unlock" /\ level[c] = 0 /\ op[c] = "off" =>
               aff_info_state'[c] = "OFF"
          /\ \/ pc[c] = "run" \/ (pc[c] = "unlock" /\ level[c] = 0 /\ op[c] = "off")
             \/ aff_info_state'[c] = aff_info_state[c]
          /\ power_on'[c] => power_on[c] /\ pc'[c] # "reset"
        BY OwnState, Zenon
    <2> USE <2>1, <2>2 DEF IsOff, AFF_STATES
    <2>3. CASE Stay(c) BY <2>3, Zenon DEF Stay, NsPlaces
    <2>4. CASE Enter(c) BY <2>4, Zenon DEF Enter
    <2>5. CASE Wake(c) BY <2>5, Zenon DEF Wake
    <2>6. CASE Reset(c) BY <2>6, Zenon DEF Reset, PwrDownOps
    <2>7. CASE Lock(c) BY <2>7 DEF Lock
    <2>8. CASE Inside(c) BY <2>8, Zenon DEF Inside, LocksTaken, DownOps
    <2>9. CASE Leave(c) BY <2>9, Zenon DEF Leave, LocksTaken, DownOps
    <2>10. CASE Exit(c) BY <2>10, Zenon DEF Exit, DownOps
    <2> HIDE DEF P
    <2> QED BY <1>1, <2>1, <2>3, <2>4, <2>5, <2>6, <2>7, <2>8, <2>9, <2>10, Control, Zenon
<1> QED BY <1>2, <1>3, Zenon DEF AffInv

(* The suspend level and the context to resume with are recorded exactly   *)
(* while a CPU is suspended with power off, and the level is the one its   *)
(* votes reach up to.                                                      *)
LEMMA SuspendStep ==
    ASSUME IInv, NEW c \in Cpus, Step(c)
    PROVE  SuspendInv'
<1> DEFINE P(d) ==
        /\ ~Suspended(d) => target_pwrlvl[d] = PSCI_INVALID_PWR_LVL
        /\ Suspended(d) =>
             /\ target_pwrlvl[d] \in AllLevels
             /\ pc[d] # "reset" => target_pwrlvl[d] = end_pwrlvl[d]
             /\ is_local_state_off(cpu_local_state[d])
             /\ ns_context[d]
        /\ pc[d] = "suspend_finish" => is_local_state_off(state_info[d][0])
        /\ pc[d] \in {"lock", "coordinated"} /\ op[d] \in PwrDownOps =>
             is_local_state_off(state_info[d][0])
        /\ op[d] = "off" => end_pwrlvl[d] = PLAT_MAX_PWR_LVL
<1>1. TypeOK /\ ControlInv /\ CpuOnInv /\ AffInv /\ \A d \in Cpus : P(d)
    BY Zenon DEF IInv, SuspendInv
<1>2. ASSUME NEW d \in Cpus, d # c PROVE P(d)'
    <2>1. /\ P(d) /\ pc'[d] = pc[d] /\ op'[d] = op[d] /\ end_pwrlvl'[d] = end_pwrlvl[d]
          /\ state_info'[d] = state_info[d] /\ target_pwrlvl'[d] = target_pwrlvl[d]
          /\ cpu_local_state'[d] = cpu_local_state[d]
        BY <1>1, <1>2, Frame, Zenon
    <2>2. ns_context[d] => ns_context'[d]
        BY <1>1, <1>2, CpuOnFrame, Zenon
    <2>3. Suspended(d)' <=> Suspended(d)
        <3>1. CASE aff_info_state'[d] = aff_info_state[d]
            BY <2>1, <3>1, Zenon DEF Suspended
        <3>2. CASE idx[c] = d /\ cpu_on_validate_state(c) /\ aff_info_state'[d] # aff_info_state[d]
            <4>1. aff_info_state[d] = "OFF"
                BY <1>1, <3>2, Zenon DEF cpu_on_validate_state, TypeOK
            <4>2. IsOff(d)
                BY <1>1, <4>1, Zenon DEF AffInv
            <4> QED BY <2>1, <4>2, Zenon DEF IsOff, Suspended, PwrDownOps
        <3>3. CASE idx[c] = d /\ pwr_domain_on_fails(c)
            <4>1. IsOff(d)
                BY <1>1, <3>3, Zenon DEF pwr_domain_on_fails, CpuOnInv
            <4> QED BY <2>1, <4>1, Zenon DEF IsOff, Suspended, PwrDownOps
        <3> QED BY <1>1, <1>2, <3>1, <3>2, <3>3, CpuOnFrame, Zenon
    <2> QED BY <2>1, <2>2, <2>3, Zenon
<1>3. P(c)'
    <2>1. /\ ~Panic(c) /\ aff_info_state[c] \in AFF_STATES
          /\ pc[c] \in {"coordinated", "wfi"} => op[c] \in DownOps
          /\ pc[c] = "lock" => op[c] \in DownOps \cup {"warmboot", "standby_finish"}
          /\ pc[c] = "run" => op[c] \in {"warmboot", "standby_finish"}
          /\ pc[c] = "on_finish" => aff_info_state[c] = "ON_PENDING" /\ op[c] = "warmboot"
          /\ pc[c] = "suspend_finish" => aff_info_state[c] = "ON" /\ op[c] = "warmboot"
          /\ aff_info_state[c] = "OFF" => IsOff(c)
          /\ aff_info_state[c] = "ON_PENDING" =>
               IsOff(c) \/ pc[c] \in {"reset", "on_finish", "lock", "run"}
          /\ IsOff(c) => aff_info_state[c] # "ON"
          /\ end_pwrlvl[c] \in AllLevels
        BY <1>1, Zenon DEF ControlInv, AffInv, TypeOK, IsOff, Panic
    <2>2. /\ pc[c] = "run" => aff_info_state'[c] = "ON"
          /\ pc[c] # "run" /\ ~(pc[c] = "unlock" /\ level[c] = 0 /\ op[c] = "off") =>
                aff_info_state'[c] = aff_info_state[c]
        BY OwnState, Zenon
    <2>3. /\ pc[c] \notin {"coordinated", "suspend_finish"} =>
               target_pwrlvl'[c] = target_pwrlvl[c]
          /\ pc[c] = "suspend_finish" => target_pwrlvl'[c] = PSCI_INVALID_PWR_LVL
          /\ pc[c] = "coordinated" =>
               /\ cpu_local_state'[c] = state_info[c][0]
               /\ op[c] \in PwrDownOps => target_pwrlvl'[c] = end_pwrlvl[c] /\ ns_context'[c]
               /\ op[c] \notin PwrDownOps => target_pwrlvl'[c] = target_pwrlvl[c]
          /\ pc[c] \notin {"coordinated", "ns", "standby", "run"} =>
               cpu_local_state'[c] = cpu_local_state[c]
          /\ ns_context[c] /\ pc[c] # "run" => ns_context'[c]
          /\ pc'[c] = "coordinated" => state_info'[c][0] = state_info[c][0]
        BY OwnData, Zenon
    <2>4. PSCI_INVALID_PWR_LVL \notin AllLevels
        BY PlatformAssumption DEF PSCI_INVALID_PWR_LVL, AllLevels
    <2>5. P(c) BY <1>1, Zenon
    <2>6. CASE Stay(c)
        <3>1. ~Suspended(c) /\ ~Suspended(c)' /\ target_pwrlvl'[c] = target_pwrlvl[c]
            BY <2>3, <2>6, Zenon DEF Stay, NsPlaces, Suspended
        <3> QED BY <2>5, <2>6, <3>1, Zenon DEF Stay, NsPlaces
    <2>7. CASE Enter(c)
        <3>1. ~Suspended(c) /\ ~Suspended(c)' /\ target_pwrlvl'[c] = target_pwrlvl[c]
            BY <2>3, <2>7, Zenon DEF Enter, Suspended, DownOps
        <3> QED BY <2>5, <2>7, <3>1, Zenon DEF Enter
    <2>8. CASE Wake(c)
        <3>1. /\ Suspended(c)' <=> Suspended(c)
              /\ pc[c] = "wfi" => ~Suspended(c)
            BY <2>1, <2>2, <2>8, Zenon DEF Wake, Suspended, PwrDownOps
        <3>2. /\ target_pwrlvl'[c] = target_pwrlvl[c]
              /\ cpu_local_state'[c] = cpu_local_state[c]
              /\ ns_context[c] => ns_context'[c]
            BY <2>3, <2>8, Zenon DEF Wake
        <3> QED BY <2>4, <2>5, <2>8, <3>1, <3>2, Zenon
                DEF Wake, get_power_on_target_pwrlvl, PwrDownOps
    <2>9. CASE Reset(c)
        <3>1. Suspended(c)' <=> Suspended(c)
            BY <2>1, <2>2, <2>9, Zenon DEF Reset, Suspended, IsOff, PwrDownOps, AFF_STATES
        <3>2. /\ target_pwrlvl'[c] = target_pwrlvl[c]
              /\ cpu_local_state'[c] = cpu_local_state[c]
              /\ ns_context[c] => ns_context'[c]
            BY <2>3, <2>9, Zenon DEF Reset
        <3> QED BY <2>5, <2>9, <3>1, <3>2, Zenon DEF Reset
    <2>10. CASE Lock(c)
        <3>1. Suspended(c)' <=> Suspended(c)
            BY <2>2, <2>10, Zenon DEF Lock, Suspended
        <3>2. /\ target_pwrlvl'[c] = target_pwrlvl[c]
              /\ cpu_local_state'[c] = cpu_local_state[c]
              /\ ns_context[c] => ns_context'[c]
            BY <2>3, <2>10, Zenon DEF Lock
        <3> QED BY <2>5, <2>10, <3>1, <3>2, Zenon DEF Lock
    <2>11. CASE Inside(c)
        <3>1. CASE pc[c] = "suspend_finish"
            <4>1. ~Suspended(c)' /\ target_pwrlvl'[c] = PSCI_INVALID_PWR_LVL
                  /\ pc'[c] = "run" /\ op'[c] = "warmboot"
                BY <2>1, <2>3, <2>11, <3>1, Zenon DEF Inside, Suspended, LocksTaken
            <4> QED BY <4>1, Zenon DEF PwrDownOps
        <3>2. CASE pc[c] # "suspend_finish"
            <4>1. Suspended(c)' <=> Suspended(c)
                BY <2>1, <2>2, <2>11, <3>2, Zenon
                DEF Inside, LocksTaken, Suspended, DownOps, PwrDownOps, IsOff, AFF_STATES
            <4>2. /\ target_pwrlvl'[c] = target_pwrlvl[c]
                  /\ cpu_local_state'[c] = cpu_local_state[c]
                  /\ ns_context[c] => ns_context'[c]
                BY <2>3, <2>11, <3>2, Zenon DEF Inside, LocksTaken
            <4>3. pc'[c] = "suspend_finish" => Suspended(c)
                BY <2>1, <2>11, Zenon DEF Inside, LocksTaken, Suspended, IsOff, AFF_STATES
            <4> QED BY <2>3, <2>5, <2>11, <3>2, <4>1, <4>2, <4>3, Zenon
                    DEF Inside, LocksTaken
        <3> QED BY <3>1, <3>2, Zenon
    <2>12. CASE Leave(c)
        <3>1. CASE pc[c] = "coordinated" /\ op[c] \in PwrDownOps
            BY <2>1, <2>3, <2>5, <2>12, <3>1, Zenon DEF Leave, LocksTaken, Suspended, PwrDownOps
        <3>2. CASE ~(pc[c] = "coordinated" /\ op[c] \in PwrDownOps)
            <4>1. ~Suspended(c) /\ ~Suspended(c)' /\ target_pwrlvl'[c] = target_pwrlvl[c]
                BY <2>1, <2>3, <2>12, <3>2, Zenon
                DEF Leave, LocksTaken, Suspended, PwrDownOps, DownOps
            <4> QED BY <2>5, <2>12, <4>1, Zenon DEF Leave
        <3> QED BY <3>1, <3>2, Zenon
    <2>13. CASE Exit(c)
        <3>1. Suspended(c)' <=> Suspended(c)
            BY <2>2, <2>13, Zenon DEF Exit, Suspended, PwrDownOps, DownOps
        <3>2. /\ target_pwrlvl'[c] = target_pwrlvl[c]
              /\ cpu_local_state'[c] = cpu_local_state[c]
              /\ ns_context[c] => ns_context'[c]
            BY <2>3, <2>13, Zenon DEF Exit
        <3>3. Suspended(c) => op[c] \in DownOps
            BY <2>13, Zenon DEF Exit, Suspended, PwrDownOps, DownOps
        <3> QED BY <2>5, <2>13, <3>1, <3>2, <3>3, Zenon DEF Exit
    <2> HIDE DEF P
    <2> QED BY <1>1, <2>1, <2>6, <2>7, <2>8, <2>9, <2>10, <2>11, <2>12, <2>13, Control, Zenon
<1> QED BY <1>2, <1>3, Zenon DEF SuspendInv

(* A CPU that is being turned on keeps ON_PENDING and does not pass        *)
(* psci_cpu_on_finish while psci_cpu_on_start holds its lock; until the    *)
(* power controller is asked for it, it takes no step at all.              *)
LEMMA PendingFrame ==
    ASSUME IInv, NEW c \in Cpus, Step(c), aff_info_state[c] = "ON_PENDING",
           cpu_lock[c] # NoCpu, pc[c] # "run"
    PROVE  /\ aff_info_state'[c] = "ON_PENDING" /\ pc'[c] # "run"
           /\ ~(IsOff(c) /\ ~power_on[c])
<1>1. /\ TypeOK /\ ~Panic(c)
      /\ IsOff(c) \/ pc[c] \in {"reset", "on_finish"} \/ (pc[c] = "lock" /\ op[c] = "warmboot")
    BY Zenon DEF IInv, AffInv, Panic
<1>2. ~psci_cpu_on_finish(c)
    BY Zenon DEF psci_cpu_on_finish
<1>3. aff_info_state'[c] = "ON_PENDING"
    BY <1>1, OwnState, Zenon DEF IsOff
<1>4. pc'[c] # "run" /\ ~(IsOff(c) /\ ~power_on[c])
    BY <1>1, <1>2, Control, Zenon
    DEF IsOff, Stay, NsPlaces, Enter, Wake, Reset, Lock, Inside, Leave, Exit, LocksTaken,
        PwrDownOps
<1> QED BY <1>3, <1>4, Zenon

(* The steps of psci_cpu_on_start own their target until the lock is       *)
(* released.                                                               *)
LEMMA CpuOnStep ==
    ASSUME IInv, NEW c \in Cpus, Step(c)
    PROVE  CpuOnInv'
<1> DEFINE P(d) ==
        /\ pc[d] = "on_lock" => idx[d] \in Cpus
        /\ pc[d] \in {"on_validate", "on_plat", "on_context", "on_unlock"} =>
             idx[d] \in Cpus /\ cpu_lock[idx[d]] = d
        /\ pc[d] = "on_plat" => IsOff(idx[d]) /\ ~power_on[idx[d]]
        /\ TurningOn(d, idx[d]) =>
             aff_info_state[idx[d]] = "ON_PENDING" /\ pc[idx[d]] # "run"
<1>1. TypeOK /\ \A d \in Cpus : P(d)
    BY Zenon DEF IInv, CpuOnInv
<1>2. ASSUME NEW d \in Cpus, d # c PROVE P(d)'
    <2>1. P(d) /\ pc'[d] = pc[d] /\ op'[d] = op[d] /\ idx'[d] = idx[d] /\ d # NoCpu
        BY <1>1, <1>2, Frame, BasicFacts, Zenon
    <2> DEFINE t == idx[d]
    <2>2. ASSUME pc[d] \in {"on_validate", "on_plat", "on_context", "on_unlock"}
          PROVE  t \in Cpus /\ cpu_lock[t] = d /\ cpu_lock'[t] = d
        <3>1. t \in Cpus /\ cpu_lock[t] = d
            BY <2>1, <2>2, Zenon
        <3>2. CASE psci_spin_lock_cpu(c)
            BY <2>1, <3>1, <3>2 DEF psci_spin_lock_cpu
        <3>3. CASE psci_spin_unlock_cpu(c)
            <4>1. cpu_lock[idx[c]] = c
                BY <1>1, <3>3, Zenon DEF psci_spin_unlock_cpu
            <4> QED BY <1>2, <3>1, <3>3, <4>1 DEF psci_spin_unlock_cpu
        <3> QED BY <3>1, <3>2, <3>3, Effects, Zenon
    <2>3. ASSUME pc[d] \in {"on_plat", "on_context"}, idx[c] = t,
                 pc[c] \in {"on_validate", "on_plat", "on_context", "on_unlock"}
          PROVE  FALSE
        BY <1>1, <1>2, <2>2, <2>3, Zenon
    <2>4. ASSUME TurningOn(d, t)
          PROVE  /\ t \in Cpus /\ cpu_lock[t] = d /\ pc[d] \in {"on_plat", "on_context"}
                 /\ aff_info_state'[t] = "ON_PENDING" /\ pc'[t] # "run"
        <3>1. /\ t \in Cpus /\ cpu_lock[t] = d /\ pc[d] \in {"on_plat", "on_context"}
              /\ aff_info_state[t] = "ON_PENDING" /\ pc[t] # "run"
            BY <2>1, <2>4, Zenon DEF TurningOn
        <3>2. CASE t = c
            BY <2>1, <3>1, <3>2, PendingFrame, Zenon
        <3>3. CASE t # c
            <4>1. pc'[t] = pc[t]
                BY <1>1, <3>1, <3>3, Frame, Zenon
            <4>2. aff_info_state'[t] = aff_info_state[t]
                BY <1>1, <2>3, <3>1, <3>3, CpuOnFrame
                DEF cpu_on_validate_state, pwr_domain_on_fails
            <4> QED BY <3>1, <4>1, <4>2, Zenon
        <3> QED BY <3>1, <3>2, <3>3, Zenon
    <2>5. ASSUME pc[d] = "on_plat" PROVE IsOff(t)' /\ ~power_on'[t]
        <3>1. /\ t \in Cpus /\ IsOff(t) /\ ~power_on[t] /\ cpu_lock[t] = d
              /\ aff_info_state[t] = "ON_PENDING" /\ pc[t] # "run"
            BY <2>1, <2>5, Zenon DEF TurningOn
        <3>2. t # c
            BY <2>1, <3>1, PendingFrame, Zenon
        <3>3. IsOff(t)'
            <4>1. pc'[t] = pc[t] /\ op'[t] = op[t]
                BY <1>1, <3>1, <3>2, Frame, Zenon
            <4> QED BY <2>1, <3>1, <4>1, Zenon DEF IsOff
        <3>4. power_on'[t] = power_on[t]
            BY <1>1, <2>3, <2>5, <3>1, <3>2, CpuOnFrame DEF pwr_domain_on
        <3> QED BY <3>1, <3>3, <3>4, Zenon
    <2>6. t = idx'[d] /\ (TurningOn(d, idx[d])' => TurningOn(d, t))
        BY <2>1, Zenon DEF TurningOn
    <2>7. pc'[d] = "on_lock" => idx'[d] \in Cpus
        BY <2>1, Zenon
    <2>8. pc'[d] \in {"on_validate", "on_plat", "on_context", "on_unlock"} =>
             idx'[d] \in Cpus /\ cpu_lock'[idx'[d]] = d
        BY <2>1, <2>2, Zenon
    <2>9. pc'[d] = "on_plat" => IsOff(idx[d])' /\ ~power_on'[idx'[d]]
        BY <2>1, <2>5, Zenon DEF IsOff
    <2> QED BY <2>1, <2>4, <2>6, <2>7, <2>8, <2>9, Zenon
<1>3. P(c)'
    <2>1. /\ P(c) /\ ~Panic(c)
          /\ pc \in [Cpus -> Places] /\ cpu_lock \in [Cpus -> Cpus \cup {NoCpu}]
          /\ aff_info_state \in [Cpus -> AFF_STATES]
          /\ \A t \in Cpus : aff_info_state[t] = "OFF" => IsOff(t)
          /\ \A t \in Cpus : power_on[t] => aff_info_state[t] = "ON_PENDING"
        BY <1>1, Zenon DEF IInv, AffInv, IsOff, Panic, TypeOK
    <2> USE DEF TurningOn, data, locals
    <2>2. CASE psci_spin_lock_cpu(c)
        BY <2>1, <2>2, Zenon DEF psci_spin_lock_cpu, Goto
    <2>3. CASE cpu_on_validate_state(c)
        <3>1. CASE aff_info_state[idx[c]] = "OFF"
            BY <2>1, <2>3, <3>1, Zenon DEF cpu_on_validate_state, Goto, IsOff
        <3>2. CASE aff_info_state[idx[c]] # "OFF"
            BY <2>1, <2>3, <3>2, Zenon DEF cpu_on_validate_state, Goto
        <3> QED BY <3>1, <3>2, Zenon
    <2>4. CASE pwr_domain_on(c) \/ pwr_domain_on_fails(c)
        BY <2>1, <2>4 DEF pwr_domain_on, pwr_domain_on_fails, Goto, IsOff
    <2>5. CASE cm_init_context_by_index(c)
        BY <2>1, <2>5, Zenon DEF cm_init_context_by_index, Goto
    <2>6. CASE /\ pc'[c] \notin {"on_validate", "on_plat", "on_context", "on_unlock"}
               /\ pc'[c] = "on_lock" => idx'[c] \in Cpus
        BY <2>6, Zenon
    <2>7. \/ psci_spin_lock_cpu(c) \/ cpu_on_validate_state(c) \/ pwr_domain_on(c)
          \/ pwr_domain_on_fails(c) \/ cm_init_context_by_index(c)
          \/ /\ pc'[c] \notin {"on_validate", "on_plat", "on_context", "on_unlock"}
             /\ pc'[c] = "on_lock" => idx'[c] \in Cpus
        <3> HIDE DEF P, TurningOn
        <3> QED BY <1>1, <2>1, Control, Zenon
                DEF Stay, Enter, Wake, Reset, Lock, Inside, Leave, Exit, LocksTaken
    <2> HIDE DEF P
    <2> QED BY <2>2, <2>3, <2>4, <2>5, <2>6, <2>7, Zenon
<1> QED BY <1>2, <1>3, Zenon DEF CpuOnInv

(* The context of a CPU that is being turned on is initialised once        *)
(* psci_cpu_on_start is done with it.                                      *)
LEMMA ContextStep ==
    ASSUME IInv, NEW c \in Cpus, Step(c)
    PROVE  ContextInv'
<1>1. /\ TypeOK /\ AffInv /\ SuspendInv /\ CpuOnInv /\ ContextInv /\ ~Panic(c)
      /\ aff_info_state \in [Cpus -> AFF_STATES] /\ ns_context \in [Cpus -> BOOLEAN]
    BY Zenon DEF IInv, TypeOK, AffInv, IsOff, Panic
<1>2. ASSUME NEW t \in Cpus, aff_info_state'[t] = "ON_PENDING"
      PROVE  ns_context'[t] \/ \E d \in Cpus : TurningOn(d, t)'
    <2>1. CASE aff_info_state[t] # "ON_PENDING"
        <3>1. cpu_on_validate_state(c)
            <4>1. CASE Unlocked(c) BY <1>1, <1>2, <2>1, <4>1, Zenon DEF Unlocked
            <4>2. CASE psci_set_pwr_domains_to_run(c)
                BY <1>1, <1>2, <2>1, <4>2, Zenon DEF psci_set_pwr_domains_to_run
            <4>3. CASE pwr_domain_on_fails(c)
                BY <1>1, <1>2, <2>1, <4>3, Zenon DEF pwr_domain_on_fails
            <4> QED BY <1>2, <2>1, <4>1, <4>2, <4>3, Effects, Zenon
        <3>2. idx[c] = t /\ idx' = idx /\ pc'[c] = "on_plat"
            BY <1>1, <1>2, <2>1, <3>1, Zenon DEF cpu_on_validate_state, locals, Goto, TypeOK
        <3>3. TurningOn(c, t)'
            BY <3>2, Zenon DEF TurningOn
        <3> QED BY <3>3, Zenon
    <2>2. CASE aff_info_state[t] = "ON_PENDING" /\ ns_context[t]
        <3>1. CASE t # c BY <1>1, <2>2, <3>1, CpuOnFrame, Zenon
        <3>2. CASE t = c
            <4>1. pc[c] # "run" BY <1>2, <3>2, OwnState, Zenon
            <4> QED BY <2>2, <3>2, <4>1, OwnData, Zenon
        <3> QED BY <3>1, <3>2, Zenon
    <2>3. CASE aff_info_state[t] = "ON_PENDING" /\ \E d \in Cpus : TurningOn(d, t)
        <3>1. PICK d \in Cpus : TurningOn(d, t) BY <2>3, Zenon
        <3>2. CASE d # c
            <4>1. TurningOn(d, t)'
                BY <1>1, <3>1, <3>2, Frame, Zenon DEF TurningOn
            <4> QED BY <4>1, Zenon
        <3>3. CASE d = c
            <4>1. \/ pwr_domain_on(c) /\ pc'[c] = "on_context"
                  \/ pwr_domain_on_fails(c) \/ cm_init_context_by_index(c)
                BY <1>1, <3>1, <3>3, Control, Zenon
                DEF TurningOn, Stay, Enter, Wake, Reset, Lock, Inside, Leave, Exit, LocksTaken
            <4>2. CASE pwr_domain_on(c) /\ pc'[c] = "on_context"
                <5>1. TurningOn(c, t)'
                    BY <3>1, <3>3, <4>2, Zenon DEF pwr_domain_on, TurningOn, locals
                <5> QED BY <5>1, Zenon
            <4>3. CASE pwr_domain_on_fails(c)
                BY <1>1, <1>2, <3>1, <3>3, <4>3, Zenon DEF pwr_domain_on_fails, TurningOn
            <4>4. CASE cm_init_context_by_index(c)
                BY <1>1, <3>1, <3>3, <4>4, Zenon DEF cm_init_context_by_index, TurningOn
            <4> QED BY <4>1, <4>2, <4>3, <4>4, Zenon
        <3> QED BY <3>2, <3>3, Zenon
    <2> QED BY <1>1, <2>1, <2>2, <2>3, Zenon DEF ContextInv
<1>3. ASSUME NEW t \in Cpus, pc'[t] = "run", op'[t] = "warmboot" PROVE ns_context'[t]
    <2>1. CASE t # c
        <3>1. pc[t] = "run" /\ op[t] = "warmboot"
            BY <1>1, <1>3, <2>1, Frame, Zenon
        <3>2. ns_context[t]
            BY <1>1, <3>1, Zenon DEF ContextInv
        <3> QED BY <1>1, <2>1, <3>2, CpuOnFrame, Zenon
    <2>2. CASE t = c
        <3>1. pc[c] # "run" /\ (psci_cpu_on_finish(c) \/ pc[c] = "suspend_finish")
            BY <1>1, <1>3, <2>2, Control, Zenon
            DEF Stay, NsPlaces, Enter, Wake, Reset, Lock, Inside, Leave, Exit, LocksTaken, DownOps
        <3>2. ns_context[c]
            <4>1. CASE pc[c] = "suspend_finish"
                BY <1>1, <4>1, Zenon DEF SuspendInv, Suspended, AffInv
            <4>2. CASE psci_cpu_on_finish(c)
                <5>1. aff_info_state[c] = "ON_PENDING" /\ cpu_lock[c] = NoCpu
                    BY <1>1, <4>2, Zenon DEF psci_cpu_on_finish, AffInv
                <5>2. ASSUME NEW d \in Cpus, TurningOn(d, c) PROVE FALSE
                    BY <1>1, <5>1, <5>2, BasicFacts, Zenon DEF CpuOnInv, TurningOn
                <5> QED BY <1>1, <5>1, <5>2, Zenon DEF ContextInv
            <4> QED BY <3>1, <4>1, <4>2, Zenon
        <3> QED BY <2>2, <3>1, <3>2, OwnData, Zenon
    <2> QED BY <2>1, <2>2, Zenon
<1> QED BY <1>2, <1>3, Zenon DEF ContextInv

-----------------------------------------------------------------------------
(* The invariant is inductive.                                             *)

(* The state psci_setup leaves satisfies the invariant.                    *)
LEMMA InitIInv == Init => IInv
<1> SUFFICES ASSUME Init PROVE IInv
    BY Zenon
<1> USE BasicFacts
<1>1. TypeOK
    BY PlatformAssumption, Zenon DEF Init, TypeOK, AFF_STATES, Ops, DownOps, Places
<1>2. /\ pc \in [Cpus -> {"ns", "wfi"}]
      /\ \A c \in Cpus : /\ pc[c] = "wfi" => op[c] = "off" /\ aff_info_state[c] = "OFF"
                         /\ pc[c] = "ns" => op[c] = "none" /\ aff_info_state[c] = "ON"
    BY Zenon DEF Init
<1>3. ControlInv
    BY <1>2, Zenon DEF ControlInv, DownOps
<1>4. LockInv
    BY <1>2, Zenon DEF LockInv, Holds
<1>5. VoteInv
    <2>1. ASSUME NEW c \in Cpus, NEW l \in Levels, NotVoted(c) \/ l > VotedUpTo(c)
          PROVE  req_local_pwr_states[l][c] = RUN
        <3>1. l <= PLAT_MAX_PWR_LVL /\ l \in Int
            BY PlatformAssumption DEF Levels
        <3>2. c = BootCpu
            BY <2>1, <3>1, PlatformAssumption DEF Init, NotVoted, Awake, VotedUpTo
        <3> QED BY <3>2, Zenon DEF Init
    <2> QED BY <2>1, Zenon DEF VoteInv
<1>6. CoordinatedInv
    BY <1>2, Zenon DEF CoordinatedInv
<1>7. NeverDeeperThanVoted
    <2> SUFFICES ASSUME NEW c \in Cpus, NEW l \in Levels
                 PROVE  node_local_state[parent_nodes[c][l]] <= req_local_pwr_states[l][c]
        BY Zenon DEF NeverDeeperThanVoted
    <2>1. parent_nodes[c][l] \in Nodes
        BY TopologyAssumption
    <2>2. CASE c = BootCpu
        <3>1. node_local_state[parent_nodes[c][l]] = RUN /\ req_local_pwr_states[l][c] = RUN
            BY <2>1, <2>2, Zenon DEF Init
        <3> QED BY <3>1 DEF RUN
    <2>3. CASE c # BootCpu
        <3>1. req_local_pwr_states[l][c] = PLAT_MAX_OFF_STATE
            BY <2>3, Zenon DEF Init
        <3> QED BY <1>1, <2>1, <3>1, PlatformAssumption DEF TypeOK, LocalStates, RUN
    <2> QED BY <2>2, <2>3, Zenon
<1>8. RetentionInv
    BY <1>2, Zenon DEF RetentionInv
<1>9. AffInv
    BY <1>2, Zenon DEF AffInv, IsOff, Init
<1>10. SuspendInv
    BY <1>2, Zenon DEF SuspendInv, Suspended, PwrDownOps, Init
<1>11. CpuOnInv /\ ContextInv
    BY <1>2, Zenon DEF CpuOnInv, ContextInv, TurningOn, Init
<1> QED BY <1>1, <1>3, <1>4, <1>5, <1>6, <1>7, <1>8, <1>9, <1>10, <1>11, Zenon DEF IInv

(* Every step of every CPU preserves the invariant.                        *)
LEMMA NextIInv == IInv /\ [Next]_vars => IInv'
<1> SUFFICES ASSUME IInv, [Next]_vars PROVE IInv'
    BY Zenon
<1>1. CASE Next
    <2>1. PICK c \in Cpus : Step(c) BY <1>1, Zenon DEF Next
    <2>2. TypeOK' BY <2>1, TypeStep, Zenon DEF IInv
    <2> QED BY <2>1, <2>2, ControlStep, LockStep, VoteStep, CoordinatedStep, NeverDeeperStep,
               RetentionStep, AffStep, SuspendStep, CpuOnStep, ContextStep, Zenon DEF IInv
<1>2. CASE UNCHANGED vars
    <2>1. /\ aff_info_state' = aff_info_state /\ target_pwrlvl' = target_pwrlvl
          /\ cpu_local_state' = cpu_local_state /\ node_local_state' = node_local_state
          /\ req_local_pwr_states' = req_local_pwr_states /\ psci_locks' = psci_locks
          /\ cpu_lock' = cpu_lock /\ ns_context' = ns_context /\ power_on' = power_on
          /\ pc' = pc /\ op' = op /\ end_pwrlvl' = end_pwrlvl /\ level' = level
          /\ state_info' = state_info /\ idx' = idx
        BY <1>2, Zenon DEF vars, data, locals
    <2>2. TypeOK' /\ ControlInv' /\ LockInv'
        BY <2>1, Zenon DEF IInv, TypeOK, ControlInv, LockInv, Holds
    <2>3. VoteInv'
        BY <2>1, Zenon DEF IInv, VoteInv, NotVoted, Awake, VotedUpTo, get_power_on_target_pwrlvl
    <2>4. CoordinatedInv' /\ NeverDeeperThanVoted' /\ RetentionInv'
        BY <2>1, Zenon DEF IInv, CoordinatedInv, NeverDeeperThanVoted, RetentionInv
    <2>5. AffInv' /\ SuspendInv'
        BY <2>1, Zenon DEF IInv, AffInv, IsOff, SuspendInv, Suspended
    <2>6. CpuOnInv' /\ ContextInv'
        BY <2>1 DEF IInv, CpuOnInv, IsOff, TurningOn, ContextInv
    <2> QED BY <2>2, <2>3, <2>4, <2>5, <2>6, Zenon DEF IInv
<1> QED BY <1>1, <1>2, Zenon

(* The inductive invariant holds in every behaviour.                       *)
THEOREM SpecIInv == Spec => []IInv
BY InitIInv, NextIInv, PTL DEF Spec

(* Every variable keeps its type.                                          *)
THEOREM TypeOKHolds == Spec => []TypeOK
<1>1. IInv => TypeOK BY Zenon DEF IInv
<1> QED BY <1>1, SpecIInv, PTL

(* No domain is deeper than a vote: psci_do_state_coordination and the     *)
(* locks around it, for every tree and every platform.                     *)
THEOREM NeverDeeperThanVotedHolds == Spec => []NeverDeeperThanVoted
<1>1. IInv => NeverDeeperThanVoted BY Zenon DEF IInv
<1> QED BY <1>1, SpecIInv, PTL

(* No domain above an executing CPU is in a low-power state.               *)
THEOREM AwakeCpuIsPoweredHolds == Spec => []AwakeCpuIsPowered
<1>1. ASSUME IInv PROVE AwakeCpuIsPowered
    <2> SUFFICES ASSUME NEW c \in Cpus, Awake(c), NEW l \in Levels
                 PROVE  node_local_state[parent_nodes[c][l]] = RUN
        BY Zenon DEF AwakeCpuIsPowered
    <2>1. req_local_pwr_states[l][c] = RUN
        BY <1>1, Zenon DEF IInv, VoteInv, NotVoted
    <2>2. node_local_state[parent_nodes[c][l]] <= RUN
        BY <1>1, <2>1, Zenon DEF IInv, NeverDeeperThanVoted
    <2>3. node_local_state[parent_nodes[c][l]] \in Nat
        BY <1>1, TopologyAssumption, PlatformAssumption DEF IInv, TypeOK, LocalStates, RUN
    <2> QED BY <2>2, <2>3 DEF RUN
<1> QED BY <1>1, SpecIInv, PTL

(* No domain above a CPU in a retention state is off.                      *)
THEOREM RetentionKeepsPowerHolds == Spec => []RetentionKeepsPower
<1>1. ASSUME IInv PROVE RetentionKeepsPower
    <2> SUFFICES ASSUME NEW c \in Cpus, pc[c] = "wfi", op[c] = "retention", NEW l \in Levels
                 PROVE  ~is_local_state_off(node_local_state[parent_nodes[c][l]])
        BY Zenon DEF RetentionKeepsPower
    <2>1. ~is_local_state_off(req_local_pwr_states[l][c])
        BY <1>1, Zenon DEF IInv, RetentionInv
    <2>2. node_local_state[parent_nodes[c][l]] <= req_local_pwr_states[l][c]
        BY <1>1, Zenon DEF IInv, NeverDeeperThanVoted
    <2>3. /\ node_local_state[parent_nodes[c][l]] \in Nat
          /\ req_local_pwr_states[l][c] \in Nat
        BY <1>1, TopologyAssumption, PlatformAssumption DEF IInv, TypeOK, LocalStates, RUN
    <2> QED BY <2>1, <2>2, <2>3, PlatformAssumption DEF is_local_state_off
<1> QED BY <1>1, SpecIInv, PTL

(* Every domain has the power that the CPUs below it need, whether they    *)
(* execute or wait in retention (psci_do_state_coordination).              *)
THEOREM DomainsKeepPowerHolds == Spec => []DomainsKeepPower
<1>1. AwakeCpuIsPowered /\ RetentionKeepsPower => DomainsKeepPower
    BY Zenon DEF DomainsKeepPower
<1> QED BY <1>1, AwakeCpuIsPoweredHolds, RetentionKeepsPowerHolds, PTL

(* The panic and the assertions of the warm boot path are never reached.   *)
THEOREM AssertionsHoldAlways == Spec => []AssertionsHold
<1>1. IInv => AssertionsHold
    BY Zenon DEF IInv, ControlInv, AffInv, SuspendInv, AssertionsHold
<1> QED BY <1>1, SpecIInv, PTL

(* A CPU leaves the warm boot path with an initialised context.            *)
THEOREM ContextIsFreshHolds == Spec => []ContextIsFresh
<1>1. IInv => ContextIsFresh BY Zenon DEF IInv, ContextInv, ContextIsFresh
<1> QED BY <1>1, SpecIInv, PTL

(* Node states and votes change only under the lock of the domain.         *)
THEOREM ChangesAreLockedHolds == Spec => ChangesAreLocked
<1> DEFINE A == /\ \A n \in Nodes : node_local_state'[n] # node_local_state[n] =>
                      psci_locks[n] # NoCpu /\ InScope(psci_locks[n], n)
                /\ \A c \in Cpus, l \in Levels :
                      req_local_pwr_states'[l][c] # req_local_pwr_states[l][c] =>
                         psci_locks[parent_nodes[c][l]] = c
<1>1. ASSUME IInv, [Next]_vars PROVE [A]_vars
    <2>1. CASE Next
        <3>1. PICK c \in Cpus : Step(c) BY <2>1, Zenon DEF Next
        <3>2. ASSUME NEW n \in Nodes, node_local_state'[n] # node_local_state[n]
              PROVE  psci_locks[n] = c /\ InScope(c, n)
            <4>1. InScope(c, n) /\ Holds(c, LevelOf(c, n))
                BY <1>1, <3>1, <3>2, NodesAreLocked, Zenon DEF IInv
            <4>2. LevelOf(c, n) \in Levels /\ parent_nodes[c][LevelOf(c, n)] = n
                BY <1>1, <4>1, ScopeLevel, Zenon DEF IInv
            <4> QED BY <1>1, <4>1, <4>2, Zenon DEF IInv, LockInv
        <3>3. ASSUME NEW d \in Cpus, NEW l \in Levels,
                     req_local_pwr_states'[l][d] # req_local_pwr_states[l][d]
              PROVE  psci_locks[parent_nodes[d][l]] = d
            <4>1. d = c /\ Holds(c, l)
                BY <1>1, <3>1, <3>3, VotesAreLocked, Zenon DEF IInv
            <4> QED BY <1>1, <4>1, Zenon DEF IInv, LockInv
        <3> QED BY <3>2, <3>3, BasicFacts, Zenon
    <2>2. CASE UNCHANGED vars BY <2>2, Zenon
    <2> QED BY <1>1, <2>1, <2>2, Zenon
<1> QED BY <1>1, SpecIInv, PTL DEF Spec, ChangesAreLocked

-----------------------------------------------------------------------------
(* The order of the levels.  That no domain is deeper than one inside it   *)
(* is not inductive: it rests on the requests and the votes being ordered  *)
(* in the same way, and on a domain being in exactly the shallowest state  *)
(* voted for, except between a vote and the write that follows it.         *)

Same(c, d, l) == parent_nodes[d][l] = parent_nodes[c][l]

\* What a CPU is about to vote for, and has voted for, is no deeper above.
RequestInv == \A c \in Cpus : pc[c] = "lock" /\ op[c] \in DownOps =>
    \A k, l \in AllLevels : k < l =>
        find_local_state_type(state_info[c][l]) <= find_local_state_type(state_info[c][k])

VotesOrdered(req) == \A c \in Cpus, k, l \in Levels : k < l =>
    find_local_state_type(req[l][c]) <= find_local_state_type(req[k][c])

VoteOrderInv == VotesOrdered(req_local_pwr_states)

\* The result of coordination is the vote of a CPU below the domain.
AttainedInv == \A c \in Cpus, l \in Levels :
    pc[c] = "coordinated" /\ l <= end_pwrlvl[c] =>
        \E d \in Cpus : Same(c, d, l) /\ state_info[c][l] = req_local_pwr_states[l][d]

\* A CPU below the domain has voted and has not written the result.
BeforeWrite(c, l) ==
    \E d \in Cpus : Same(c, d, l) /\ pc[d] = "coordinated" /\ l <= end_pwrlvl[d]

\* So is the state of a domain at any other time.
VotedForInv == \A c \in Cpus, l \in Levels :
    \/ BeforeWrite(c, l)
    \/ \E d \in Cpus : /\ Same(c, d, l)
                       /\ node_local_state[parent_nodes[c][l]] = req_local_pwr_states[l][d]

OrderInv == RequestInv /\ VoteOrderInv /\ AttainedInv /\ VotedForInv /\ ParentNotDeeper

(* find_local_state_type follows the depth of the states.                  *)
LEMMA StateType ==
    /\ find_local_state_type(RUN) = 0
    /\ \A s \in LocalStates : find_local_state_type(s) \in 0 .. 2
    /\ \A s \in LocalStates : find_local_state_type(s) <= 0 => s = RUN
    /\ \A s, t \in LocalStates : s <= t => find_local_state_type(s) <= find_local_state_type(t)
    /\ \A s \in LocalStates : find_local_state_type(s) <= find_local_state_type(PLAT_MAX_OFF_STATE)
    /\ \A s \in LocalStates : s <= RUN => s = RUN
BY PlatformAssumption DEF find_local_state_type, LocalStates, RUN

(* CPUs that share a domain share the domains above it.                    *)
LEMMA SameAbove ==
    ASSUME NEW c \in Cpus, NEW d \in Cpus, NEW k \in Levels, NEW l \in Levels, k < l,
           Same(c, d, k)
    PROVE  Same(c, d, l)
BY TopologyAssumption DEF Same

(* psci_validate_suspend_req compares neighbouring levels only; the order  *)
(* of any two levels follows.                                              *)
LEMMA ValidIsOrdered ==
    ASSUME NEW f \in PowerStates, NEW k \in AllLevels, NEW l \in AllLevels, k < l,
           \A j \in Levels : find_local_state_type(f[j]) <= find_local_state_type(f[j-1])
    PROVE  find_local_state_type(f[l]) <= find_local_state_type(f[k])
<1> DEFINE t(j) == find_local_state_type(f[j])
           T == {j \in Nat : j > k /\ j \in AllLevels /\ ~(t(j) <= t(k))}
<1> SUFFICES ASSUME ~(t(l) <= t(k)) PROVE FALSE
    BY Zenon
<1>1. \A j \in AllLevels : t(j) \in 0 .. 2
    BY StateType, BasicFacts, Zenon
<1>2. l \in T
    BY PlatformAssumption DEF AllLevels
<1>3. PICK j \in T : \A i \in T : j <= i
    BY <1>2, LeastNat, Zenon
<1>4. j - 1 \in AllLevels /\ j \in Levels /\ j \in AllLevels /\ j - 1 >= k /\ j - 1 \in Nat
    BY PlatformAssumption DEF AllLevels, Levels
<1>5. j - 1 \notin T
    BY <1>3, <1>4
<1>6. t(j - 1) <= t(k)
    <2>1. CASE j - 1 = k
        BY <1>1, <2>1
    <2>2. CASE j - 1 # k
        <3>1. j - 1 > k
            BY <1>4, <2>2 DEF AllLevels
        <3> QED BY <1>4, <1>5, <3>1, Zenon
    <2> QED BY <2>1, <2>2, Zenon
<1>7. t(j) <= t(j - 1)
    BY <1>4, Zenon
<1>8. ~(t(j) <= t(k))
    BY Zenon
<1> HIDE DEF t
<1> QED BY <1>1, <1>4, <1>6, <1>7, <1>8

(* A handler that takes the locks in order to power down starts with a     *)
(* valid request.                                                          *)
LEMMA EnteredRequest ==
    ASSUME TypeOK, NEW c \in Cpus, Step(c), Enter(c)
    PROVE  \/ state_info'[c] = [l \in AllLevels |-> PLAT_MAX_OFF_STATE]
           \/ psci_validate_suspend_req(state_info'[c])
<1>1. state_info \in [Cpus -> PowerStates] /\ pc \in [Cpus -> Places]
    BY Zenon DEF TypeOK
<1>2. pc[c] \in {"ns", "last_cpu"} /\ pc'[c] = "lock"
    BY Zenon DEF Enter
<1>3. /\ \A si \in idle_states : psci_validate_suspend_req(si)
      /\ psci_validate_suspend_req(sys_suspend_state)
    BY PlatformAssumption, Zenon
<1>4. CASE CpuOff(c)
    BY <1>1, <1>4, Zenon DEF CpuOff
<1>5. CASE \E si \in idle_states : CpuSuspend(c, si)
    BY <1>1, <1>2, <1>3, <1>5, Zenon DEF CpuSuspend, Goto
<1>6. CASE IsLastOnCpu(c)
    BY <1>1, <1>3, <1>6, Zenon DEF IsLastOnCpu
<1>7. ~SystemSuspend(c) /\ ~(\E t \in Cpus : CpuOn(c, t)) /\ ~psci_is_last_on_cpu(c)
    BY <1>1, <1>2, Zenon DEF SystemSuspend, CpuOn, psci_is_last_on_cpu, Goto
<1>8. ~Interrupt(c) /\ ~WarmReset(c) /\ ~Wait(c)
    BY <1>2, Zenon DEF Interrupt, StandbyExit, WakeFromRetention, WarmReset, Wait,
        psci_acquire_pwr_domain_locks, psci_cpu_on_finish, psci_spin_lock_cpu
<1>9. ASSUME Compute(c) PROVE psci_is_last_on_cpu(c) \/ IsLastOnCpu(c)
    BY <1>2, <1>9, Zenon DEF Compute, psci_release_pwr_domain_locks, DenyOrInterrupt,
        LocksTaken, psci_do_state_coordination, psci_set_target_local_pwr_states, Unlocked,
        psci_warmboot_entrypoint, psci_get_target_local_pwr_states, psci_cpu_suspend_finish,
        psci_set_pwr_domains_to_run, cpu_on_validate_state, pwr_domain_on,
        pwr_domain_on_fails, cm_init_context_by_index, psci_spin_unlock_cpu
<1> QED BY <1>4, <1>5, <1>6, <1>7, <1>8, <1>9, Zenon DEF Step, Call

(* Requests are ordered from the start and stay so until they are voted.   *)
LEMMA RequestStep ==
    ASSUME IInv, RequestInv, NEW c \in Cpus, Step(c)
    PROVE  RequestInv'
<1> DEFINE R(si) == \A k, l \in AllLevels : k < l =>
                       find_local_state_type(si[l]) <= find_local_state_type(si[k])
<1>1. TypeOK /\ TypeOK' /\ ~Panic(c)
    BY TypeStep, Zenon DEF IInv, AffInv, IsOff, Panic
<1>2. ASSUME NEW d \in Cpus, d # c, (pc[d] = "lock" /\ op[d] \in DownOps)'
      PROVE  R(state_info[d])'
    BY <1>1, <1>2, Frame, Zenon DEF RequestInv
<1>3. ASSUME (pc[c] = "lock" /\ op[c] \in DownOps)'
      PROVE  R(state_info[c])'
    <2>1. \/ Enter(c)
          \/ pc[c] = "lock" /\ op[c] \in DownOps /\ state_info'[c] = state_info[c]
        BY <1>1, <1>3, Control, Zenon
        DEF Stay, NsPlaces, Enter, Wake, Reset, Lock, Inside, Leave, Exit, DownOps
    <2>2. CASE Enter(c)
        <3>1. state_info'[c] \in PowerStates
            BY <1>1, Zenon DEF TypeOK
        <3>2. CASE state_info'[c] = [l \in AllLevels |-> PLAT_MAX_OFF_STATE]
            <4>1. \A l \in AllLevels : state_info'[c][l] = PLAT_MAX_OFF_STATE
                BY <3>2, Zenon
            <4>2. find_local_state_type(PLAT_MAX_OFF_STATE)
                    <= find_local_state_type(PLAT_MAX_OFF_STATE)
                BY StateType, BasicFacts, Zenon
            <4> QED BY <4>1, <4>2, Zenon
        <3>3. CASE psci_validate_suspend_req(state_info'[c])
            BY <3>1, <3>3, ValidIsOrdered, Zenon DEF psci_validate_suspend_req
        <3> QED BY <1>1, <2>2, <3>2, <3>3, EnteredRequest, Zenon
    <2>3. CASE pc[c] = "lock" /\ op[c] \in DownOps /\ state_info'[c] = state_info[c]
        BY <2>3, Zenon DEF RequestInv
    <2> QED BY <2>1, <2>2, <2>3, Zenon
<1> QED BY <1>2, <1>3, Zenon DEF RequestInv

(* psci_set_req_local_pwr_state and psci_set_pwr_domains_to_run keep the   *)
(* votes of a CPU ordered: above the levels they write, it votes RUN.      *)
LEMMA VoteOrderStep ==
    ASSUME IInv, RequestInv, VoteOrderInv, NEW c \in Cpus, Step(c)
    PROVE  VoteOrderInv'
<1>1. TypeOK /\ VoteInv /\ TypeOK'
    BY TypeStep, Zenon DEF IInv
<1> SUFFICES ASSUME NEW d \in Cpus, NEW k \in Levels, NEW l \in Levels, k < l
             PROVE  find_local_state_type(req_local_pwr_states'[l][d])
                      <= find_local_state_type(req_local_pwr_states'[k][d])
    BY Zenon DEF VoteOrderInv, VotesOrdered
<1> DEFINE Goal == find_local_state_type(req_local_pwr_states'[l][d])
                      <= find_local_state_type(req_local_pwr_states'[k][d])
<1>2. req_local_pwr_states'[l][d] = RUN => Goal
    <2>1. find_local_state_type(req_local_pwr_states'[k][d]) \in 0 .. 2
        <3>1. req_local_pwr_states' \in [Levels -> [Cpus -> LocalStates]]
            BY <1>1, Zenon DEF TypeOK
        <3>2. req_local_pwr_states'[k][d] \in LocalStates
            BY <3>1, Zenon
        <3> QED BY <3>2, StateType, Zenon
    <2>2. find_local_state_type(RUN) = 0
        BY StateType, Zenon
    <2> HIDE DEF find_local_state_type
    <2> QED BY <2>1, <2>2
<1>3. CASE /\ req_local_pwr_states'[l][d] = req_local_pwr_states[l][d]
           /\ req_local_pwr_states'[k][d] = req_local_pwr_states[k][d]
    BY <1>3, Zenon DEF VoteOrderInv, VotesOrdered
<1>4. CASE psci_do_state_coordination(c) /\ d = c
    <2>1. /\ pc[c] = "lock" /\ op[c] \in DownOps /\ NotVoted(c)
        BY <1>4, Zenon DEF psci_do_state_coordination, LocksTaken, NotVoted, Awake
    <2>2. \A j \in Levels : req_local_pwr_states'[j][c] =
             IF j <= end_pwrlvl[c] THEN state_info[c][j] ELSE req_local_pwr_states[j][c]
        BY <1>1, <1>4, Zenon
        DEF psci_do_state_coordination, psci_set_req_local_pwr_state, TypeOK
    <2>3. CASE l <= end_pwrlvl[c]
        <3>1. k <= end_pwrlvl[c]
            BY <1>1, <2>3, BasicFacts DEF TypeOK
        <3>2. find_local_state_type(state_info[c][l]) <= find_local_state_type(state_info[c][k])
            BY <2>1, BasicFacts, Zenon DEF RequestInv
        <3> QED BY <1>4, <2>2, <2>3, <3>1, <3>2, Zenon
    <2>4. CASE ~(l <= end_pwrlvl[c])
        <3>1. req_local_pwr_states[l][c] = RUN
            BY <1>1, <2>1, Zenon DEF VoteInv
        <3> QED BY <1>2, <1>4, <2>2, <2>4, <3>1, Zenon
    <2> QED BY <2>3, <2>4, Zenon
<1>5. CASE psci_set_pwr_domains_to_run(c) /\ d = c
    <2>1. req_local_pwr_states'[l][c] =
             IF l <= end_pwrlvl[c] THEN RUN ELSE req_local_pwr_states[l][c]
        BY <1>1, <1>5, Zenon DEF psci_set_pwr_domains_to_run, TypeOK
    <2>2. CASE ~(l <= end_pwrlvl[c])
        <3>1. l > VotedUpTo(c)
            <4>1. VotedUpTo(c) = end_pwrlvl[c]
                BY <1>5, Zenon DEF psci_set_pwr_domains_to_run, VotedUpTo
            <4>2. l \in Int /\ end_pwrlvl[c] \in Int
                BY <1>1, BasicFacts, Zenon DEF TypeOK
            <4> QED BY <2>2, <4>1, <4>2
        <3> QED BY <1>1, <1>2, <1>5, <2>1, <2>2, <3>1, Zenon DEF VoteInv
    <2> QED BY <1>2, <1>5, <2>1, <2>2, Zenon
<1> QED BY <1>1, <1>3, <1>4, <1>5, VotesAreLocked, Zenon

(* The target of a domain is one of the states requested for it.           *)
LEMMA TargetIsRequested ==
    ASSUME NEW R, R \subseteq LocalStates, R # {}
    PROVE  plat_get_target_pwr_state(R) \in R
<1> DEFINE T == R \cup {PLAT_MAX_OFF_STATE}
<1>1. T # {} /\ T \subseteq Nat /\ \A r \in R : r <= PLAT_MAX_OFF_STATE /\ r \in Nat
    BY PlatformAssumption DEF LocalStates, RUN
<1>2. \E x \in T : \A y \in T : x <= y
    BY <1>1, LeastNat, Zenon
<1>3. Min(T) \in T /\ \A y \in T : Min(T) <= y
    BY <1>2, Zenon DEF Min
<1>4. CASE Min(T) \notin R
    <2>1. PICK r \in R : TRUE
        BY Zenon
    <2>2. Min(T) = PLAT_MAX_OFF_STATE /\ Min(T) <= r
        BY <1>3, <1>4, <2>1, Zenon
    <2>3. r = PLAT_MAX_OFF_STATE
        <3>1. r <= PLAT_MAX_OFF_STATE /\ PLAT_MAX_OFF_STATE <= r /\ r \in Nat
              /\ PLAT_MAX_OFF_STATE \in Nat
            BY <1>1, <2>1, <2>2, PlatformAssumption, Zenon
        <3> QED BY <3>1
    <2> QED BY <1>4, <2>1, <2>2, <2>3, Zenon
<1> QED BY <1>4, Zenon DEF plat_get_target_pwr_state

(* psci_do_state_coordination gives each level a state some CPU below      *)
(* voted for, the levels kept in RUN for the sake of a lower one included. *)
LEMMA CoordinationIsTight ==
    ASSUME TypeOK, NEW c \in Cpus, NEW req \in [Levels -> [Cpus -> LocalStates]],
           VotesOrdered(req), NEW l \in Levels, l <= end_pwrlvl[c]
    PROVE  \E d \in Cpus : Same(c, d, l) /\ Coordinated(c, req)[l] = req[l][d]
<1> DEFINE R(k) == psci_get_req_local_pwr_states(c, k, req)
           t(k) == plat_get_target_pwr_state(R(k))
<1>1. ASSUME NEW k \in Levels PROVE \E d \in Cpus : Same(c, d, k) /\ t(k) = req[k][d]
    <2>1. R(k) \subseteq LocalStates
        BY DEF psci_get_req_local_pwr_states
    <2>2. req[k][c] \in R(k)
        BY Zenon DEF psci_get_req_local_pwr_states
    <2>3. t(k) \in R(k)
        BY <2>1, <2>2, TargetIsRequested, Zenon
    <2> QED BY <2>3, Zenon DEF psci_get_req_local_pwr_states, Same
<1>2. Coordinated(c, req)[l] = IF \E k \in 1 .. l : t(k) = RUN THEN RUN ELSE t(l)
    <2>1. l \in AllLevels /\ ~(l = 0 \/ l > end_pwrlvl[c])
        BY PlatformAssumption DEF TypeOK, Levels, AllLevels
    <2> QED BY <2>1, Zenon DEF Coordinated
<1>3. CASE \E k \in 1 .. l : t(k) = RUN
    <2>1. PICK k \in 1 .. l : t(k) = RUN
        BY <1>3, Zenon
    <2>2. k \in Levels /\ (k = l \/ k < l)
        BY PlatformAssumption DEF Levels
    <2>3. PICK d \in Cpus : Same(c, d, k) /\ req[k][d] = RUN
        BY <1>1, <2>1, <2>2, Zenon
    <2>4. Same(c, d, l) /\ req[l][d] = RUN
        <3>1. CASE k = l
            BY <2>3, <3>1, Zenon
        <3>2. CASE k < l
            <4>1. find_local_state_type(req[l][d]) <= find_local_state_type(RUN)
                BY <2>2, <2>3, <3>2, Zenon DEF VotesOrdered
            <4>2. req[l][d] \in LocalStates
                BY Zenon
            <4> QED BY <2>2, <2>3, <3>2, <4>1, <4>2, StateType, SameAbove, Zenon
        <3> QED BY <2>2, <3>1, <3>2, Zenon
    <2> QED BY <1>2, <1>3, <2>4, Zenon
<1>4. CASE ~(\E k \in 1 .. l : t(k) = RUN)
    BY <1>1, <1>2, <1>4, Zenon
<1> QED BY <1>3, <1>4, Zenon

(* A vote at a level whose lock another CPU holds does not change.         *)
LEMMA OthersVote ==
    ASSUME IInv, NEW c \in Cpus, Step(c), NEW d \in Cpus, NEW e \in Cpus, NEW l \in Levels,
           Same(d, e, l), d # c, pc[d] = "coordinated", l <= end_pwrlvl[d]
    PROVE  req_local_pwr_states'[l][e] = req_local_pwr_states[l][e]
<1>1. TypeOK /\ LockInv
    BY Zenon DEF IInv
<1>2. psci_locks[parent_nodes[d][l]] = d
    BY <1>1, Zenon DEF LockInv, Holds
<1>3. ASSUME req_local_pwr_states'[l][e] # req_local_pwr_states[l][e] PROVE FALSE
    <2>1. e = c /\ Holds(c, l)
        BY <1>1, <1>3, VotesAreLocked, Zenon
    <2>2. psci_locks[parent_nodes[c][l]] = c
        BY <1>1, <2>1, Zenon DEF LockInv
    <2> QED BY <1>2, <2>1, <2>2, Zenon DEF Same
<1> QED BY <1>3, Zenon

(* What is about to be written stays the vote of some CPU: the locks keep  *)
(* the votes of the others as they were.                                   *)
LEMMA AttainedStep ==
    ASSUME IInv, RequestInv, VoteOrderInv, AttainedInv, NEW c \in Cpus, Step(c)
    PROVE  AttainedInv'
<1>1. TypeOK /\ TypeOK' /\ VoteOrderInv' /\ ~Panic(c)
    BY TypeStep, VoteOrderStep, Zenon DEF IInv, AffInv, IsOff, Panic
<1> SUFFICES ASSUME NEW e \in Cpus, NEW l \in Levels,
                    pc'[e] = "coordinated", l <= end_pwrlvl'[e]
             PROVE  \E d \in Cpus : /\ Same(e, d, l)
                                    /\ state_info'[e][l] = req_local_pwr_states'[l][d]
    BY Zenon DEF AttainedInv, Same
<1>2. CASE e # c
    <2>1. pc[e] = "coordinated" /\ l <= end_pwrlvl[e] /\ state_info'[e] = state_info[e]
        BY <1>1, <1>2, Frame, Zenon
    <2>2. PICK d \in Cpus : Same(e, d, l) /\ state_info[e][l] = req_local_pwr_states[l][d]
        BY <2>1, Zenon DEF AttainedInv
    <2> QED BY <1>2, <2>1, <2>2, OthersVote, Zenon
<1>3. CASE e = c
    <2>1. psci_do_state_coordination(c)
        BY <1>1, <1>3, Control, Zenon
        DEF Stay, NsPlaces, Enter, Wake, Reset, Lock, Inside, Leave, Exit
    <2>2. /\ req_local_pwr_states' \in [Levels -> [Cpus -> LocalStates]]
          /\ state_info'[c] = Coordinated(c, req_local_pwr_states')
          /\ l <= end_pwrlvl[c]
        BY <1>1, <1>3, <2>1, Zenon DEF psci_do_state_coordination, TypeOK
    <2>3. VotesOrdered(req_local_pwr_states')
        BY <1>1, Zenon DEF VoteOrderInv
    <2> DEFINE req == req_local_pwr_states'
    <2>4. req \in [Levels -> [Cpus -> LocalStates]] /\ VotesOrdered(req)
        BY <2>2, <2>3, Zenon
    <2> HIDE DEF req
    <2>5. \E d \in Cpus : Same(c, d, l) /\ Coordinated(c, req)[l] = req[l][d]
        BY <1>1, <2>2, <2>4, CoordinationIsTight, Zenon
    <2> QED BY <1>3, <2>2, <2>5, Zenon DEF req
<1> QED BY <1>2, <1>3, Zenon

(* Domain n above CPU d is in the scope of the handler of CPU c just if it *)
(* is above c as well, at one of the levels of the handler.                *)
LEMMA NodeScope ==
    ASSUME TypeOK, NEW c \in Cpus, NEW d \in Cpus, NEW l \in Levels
    PROVE  /\ parent_nodes[d][l] \in Nodes
           /\ InScope(c, parent_nodes[d][l]) <=> (Same(d, c, l) /\ l <= end_pwrlvl[c])
           /\ InScope(c, parent_nodes[d][l]) => LevelOf(c, parent_nodes[d][l]) = l
<1> DEFINE n == parent_nodes[d][l]
<1>1. n \in Nodes
    BY TopologyAssumption
<1>2. \A k \in Levels : parent_nodes[c][k] = n => k = l
    BY TopologyAssumption
<1> HIDE DEF n
<1>3. InScope(c, n) => parent_nodes[c][l] = n /\ LevelOf(c, n) = l
    BY <1>1, <1>2, ScopeLevel, Zenon
<1> QED BY <1>1, <1>3, ScopeLevel, Zenon DEF Same, n

(* The state of a domain that no CPU is about to write is the vote of a    *)
(* CPU below it.                                                           *)
LEMMA VotedForStep ==
    ASSUME IInv, OrderInv, NEW c \in Cpus, Step(c)
    PROVE  VotedForInv'
<1>1. TypeOK /\ TypeOK' /\ AttainedInv /\ VotedForInv /\ ~Panic(c)
    BY TypeStep, Zenon DEF IInv, AffInv, IsOff, Panic, OrderInv
<1> DEFINE Voted(d, l) == \E e \in Cpus :
                /\ Same(d, e, l)
                /\ node_local_state[parent_nodes[d][l]] = req_local_pwr_states[l][e]
<1> SUFFICES ASSUME NEW d \in Cpus, NEW l \in Levels
             PROVE  BeforeWrite(d, l)' \/ Voted(d, l)'
    BY Zenon DEF VotedForInv
<1> DEFINE n == parent_nodes[d][l]
<1>2. /\ n \in Nodes
      /\ InScope(c, n) <=> (Same(d, c, l) /\ l <= end_pwrlvl[c])
      /\ InScope(c, n) => LevelOf(c, n) = l
    BY <1>1, NodeScope, Zenon
\* Nothing that matters to the domain changes.
<1>3. ASSUME node_local_state'[n] = node_local_state[n],
             \A e \in Cpus : Same(d, e, l) =>
                 req_local_pwr_states'[l][e] = req_local_pwr_states[l][e],
             ~(InScope(c, n) /\ psci_set_target_local_pwr_states(c))
      PROVE  BeforeWrite(d, l)' \/ Voted(d, l)'
    <2>1. CASE Voted(d, l)
        BY <1>3, <2>1, Zenon DEF Same
    <2>2. CASE BeforeWrite(d, l)
        <3>1. PICK e \in Cpus : Same(d, e, l) /\ pc[e] = "coordinated" /\ l <= end_pwrlvl[e]
            BY <2>2, Zenon DEF BeforeWrite
        <3>2. e # c
            <4> SUFFICES ASSUME e = c PROVE FALSE
                BY Zenon
            <4>1. InScope(c, n) /\ pc[c] = "coordinated"
                BY <1>2, <3>1, Zenon
            <4> QED BY <1>1, <1>3, <4>1, Control, Zenon
                    DEF Stay, NsPlaces, Enter, Wake, Reset, Lock, Inside, Leave, Exit, LocksTaken
        <3>3. pc'[e] = "coordinated" /\ l <= end_pwrlvl'[e]
            BY <1>1, <3>1, <3>2, Frame, Zenon
        <3> QED BY <3>1, <3>3, Zenon DEF BeforeWrite, Same
    <2> QED BY <1>1, <2>1, <2>2, Zenon DEF VotedForInv
<1>4. CASE psci_set_target_local_pwr_states(c)
    <2>1. req_local_pwr_states' = req_local_pwr_states /\ pc[c] = "coordinated"
        BY <1>4, Zenon DEF psci_set_target_local_pwr_states
    <2>2. CASE InScope(c, n)
        <3>1. node_local_state'[n] = state_info[c][l]
            BY <1>2, <1>4, <2>2, Zenon DEF psci_set_target_local_pwr_states
        <3>2. PICK e \in Cpus : Same(c, e, l) /\ state_info[c][l] = req_local_pwr_states[l][e]
            BY <1>1, <1>2, <2>1, <2>2, Zenon DEF AttainedInv
        <3> QED BY <1>2, <2>1, <2>2, <3>1, <3>2, Zenon DEF Same
    <2>3. CASE ~InScope(c, n)
        <3>1. node_local_state'[n] = node_local_state[n]
            BY <1>2, <1>4, <2>3, Zenon DEF psci_set_target_local_pwr_states
        <3> QED BY <1>3, <2>1, <2>3, <3>1, Zenon
    <2> QED BY <2>2, <2>3, Zenon
<1>5. CASE psci_set_pwr_domains_to_run(c)
    <2>1. CASE InScope(c, n)
        <3>1. node_local_state'[n] = RUN
            BY <1>2, <1>5, <2>1, Zenon DEF psci_set_pwr_domains_to_run
        <3>2. req_local_pwr_states'[l][c] = RUN
            BY <1>1, <1>2, <1>5, <2>1, Zenon DEF psci_set_pwr_domains_to_run, TypeOK
        <3> QED BY <1>2, <2>1, <3>1, <3>2, Zenon DEF Same
    <2>2. CASE ~InScope(c, n)
        <3>1. node_local_state'[n] = node_local_state[n]
            BY <1>2, <1>5, <2>2, Zenon DEF psci_set_pwr_domains_to_run
        <3>2. ASSUME NEW e \in Cpus, Same(d, e, l)
              PROVE  req_local_pwr_states'[l][e] = req_local_pwr_states[l][e]
            BY <1>1, <1>2, <2>2, <3>2, VotesAreLocked, Zenon
        <3> QED BY <1>3, <2>2, <3>1, <3>2, Zenon
    <2> QED BY <2>1, <2>2, Zenon
<1>6. CASE psci_do_state_coordination(c)
    <2>1. /\ node_local_state' = node_local_state /\ pc'[c] = "coordinated"
          /\ end_pwrlvl' = end_pwrlvl /\ pc[c] = "lock"
        BY <1>1, <1>6, Zenon DEF psci_do_state_coordination, Goto, TypeOK, LocksTaken
    <2>2. CASE InScope(c, n)
        BY <1>2, <2>1, <2>2, Zenon DEF BeforeWrite, Same
    <2>3. CASE ~InScope(c, n)
        <3>1. ASSUME NEW e \in Cpus, Same(d, e, l)
              PROVE  req_local_pwr_states'[l][e] = req_local_pwr_states[l][e]
            BY <1>1, <1>2, <2>3, <3>1, VotesAreLocked, Zenon
        <3> QED BY <1>3, <2>1, <2>3, <3>1, Zenon
    <2> QED BY <2>2, <2>3, Zenon
<1>7. CASE /\ ~psci_set_target_local_pwr_states(c) /\ ~psci_set_pwr_domains_to_run(c)
           /\ ~psci_do_state_coordination(c)
    <2>1. node_local_state'[n] = node_local_state[n]
        BY <1>1, <1>2, <1>7, NodesAreLocked, Zenon
    <2>2. \A e \in Cpus : req_local_pwr_states'[l][e] = req_local_pwr_states[l][e]
        BY <1>1, <1>7, VotesAreLocked, Zenon
    <2> QED BY <1>3, <1>7, <2>1, <2>2, Zenon
<1> QED BY <1>4, <1>5, <1>6, <1>7, Zenon

(* A domain just above the scope of a handler that has voted is in RUN.    *)
LEMMA RunAboveScope ==
    ASSUME IInv, NEW c \in Cpus, pc[c] \in {"coordinated", "run"},
           NEW l \in Levels, ~(l <= end_pwrlvl[c])
    PROVE  req_local_pwr_states[l][c] = RUN /\ node_local_state[parent_nodes[c][l]] = RUN
<1>1. TypeOK /\ VoteInv /\ NeverDeeperThanVoted
    BY Zenon DEF IInv
<1>2. l > VotedUpTo(c)
    <2>1. VotedUpTo(c) = end_pwrlvl[c]
        BY Zenon DEF VotedUpTo
    <2>2. l \in Int /\ end_pwrlvl[c] \in Int
        BY <1>1, BasicFacts, Zenon DEF TypeOK
    <2> QED BY <2>1, <2>2
<1>3. req_local_pwr_states[l][c] = RUN
    BY <1>1, <1>2, Zenon DEF VoteInv
<1>4. node_local_state[parent_nodes[c][l]] \in LocalStates
    BY <1>1, TopologyAssumption DEF TypeOK
<1> QED BY <1>1, <1>3, <1>4, StateType, Zenon DEF NeverDeeperThanVoted

(* The writes of the handlers keep the levels in order, whatever part of   *)
(* the ancestors of a CPU they reach.                                      *)
LEMMA ParentStep ==
    ASSUME IInv, OrderInv, NEW c \in Cpus, Step(c)
    PROVE  ParentNotDeeper'
<1>1. /\ TypeOK /\ TypeOK' /\ AttainedInv /\ VotedForInv /\ VoteOrderInv /\ ParentNotDeeper
      /\ CoordinatedInv /\ LockInv
    BY TypeStep, Zenon DEF IInv, OrderInv
<1> SUFFICES ASSUME NEW d \in Cpus, NEW l \in Levels, l > 1
             PROVE  find_local_state_type(node_local_state'[parent_nodes[d][l]])
                      <= find_local_state_type(node_local_state'[parent_nodes[d][l-1]])
    BY Zenon DEF ParentNotDeeper
<1> DEFINE k == l - 1
           n == parent_nodes[d][l]
           m == parent_nodes[d][k]
           Type(s) == find_local_state_type(s)
<1>2. k \in Levels /\ k < l
    BY PlatformAssumption DEF Levels
<1> SUFFICES Type(node_local_state'[n]) <= Type(node_local_state'[m])
    BY Zenon
<1> HIDE DEF k
<1>3. /\ n \in Nodes /\ m \in Nodes
      /\ InScope(c, n) <=> (Same(d, c, l) /\ l <= end_pwrlvl[c])
      /\ InScope(c, m) <=> (Same(d, c, k) /\ k <= end_pwrlvl[c])
      /\ InScope(c, n) => LevelOf(c, n) = l
      /\ InScope(c, m) => LevelOf(c, m) = k
    BY <1>1, <1>2, NodeScope, Zenon
<1>4. Type(node_local_state[n]) <= Type(node_local_state[m])
    BY <1>1, Zenon DEF ParentNotDeeper, k
<1>5. node_local_state'[n] = RUN => Type(node_local_state'[n]) <= Type(node_local_state'[m])
    <2>1. Type(node_local_state'[m]) \in 0 .. 2 /\ Type(RUN) = 0
        <3>1. node_local_state' \in [Nodes -> LocalStates]
            BY <1>1, Zenon DEF TypeOK
        <3>2. node_local_state'[m] \in LocalStates
            BY <1>3, <3>1, Zenon
        <3> QED BY <3>2, StateType, Zenon
    <2> HIDE DEF Type
    <2> QED BY <2>1
<1>6. ASSUME NEW x \in LocalStates, NEW e \in Cpus, x <= req_local_pwr_states[l][e]
      PROVE  Type(x) <= Type(req_local_pwr_states[k][e])
    <2>1. req_local_pwr_states[l][e] \in LocalStates /\ req_local_pwr_states[k][e] \in LocalStates
        BY <1>1, <1>2 DEF TypeOK
    <2>2. /\ Type(x) <= Type(req_local_pwr_states[l][e])
          /\ Type(req_local_pwr_states[l][e]) <= Type(req_local_pwr_states[k][e])
        BY <1>1, <1>2, <1>6, <2>1, StateType, Zenon DEF VoteOrderInv, VotesOrdered
    <2>3. /\ Type(x) \in 0 .. 2 /\ Type(req_local_pwr_states[l][e]) \in 0 .. 2
          /\ Type(req_local_pwr_states[k][e]) \in 0 .. 2
        BY <2>1, StateType, Zenon
    <2> HIDE DEF Type
    <2> QED BY <2>2, <2>3
\* The handler ends between the two levels.
<1>7. ASSUME ~InScope(c, n), InScope(c, m), pc[c] \in {"coordinated", "run"},
             node_local_state'[n] = node_local_state[n]
      PROVE  Type(node_local_state'[n]) <= Type(node_local_state'[m])
    <2>1. Same(d, c, l) /\ ~(l <= end_pwrlvl[c])
        BY <1>2, <1>3, <1>7, SameAbove, Zenon
    <2>2. node_local_state[n] = RUN
        BY <1>7, <2>1, RunAboveScope, Zenon DEF Same
    <2> QED BY <1>5, <1>7, <2>2, Zenon
<1>8. CASE psci_set_target_local_pwr_states(c)
    <2>1. pc[c] = "coordinated"
        BY <1>8, Zenon DEF psci_set_target_local_pwr_states
    <2>2. /\ node_local_state'[n] = IF InScope(c, n) THEN state_info[c][l] ELSE node_local_state[n]
          /\ node_local_state'[m] = IF InScope(c, m) THEN state_info[c][k] ELSE node_local_state[m]
        BY <1>3, <1>8, Zenon DEF psci_set_target_local_pwr_states
    <2>3. CASE InScope(c, n)
        <3>1. Same(d, c, l) /\ l <= end_pwrlvl[c] /\ state_info[c][l] \in LocalStates
            BY <1>1, <1>3, <2>3, BasicFacts, Zenon DEF TypeOK
        <3>2. ASSUME NEW e \in Cpus, Same(d, e, k)
              PROVE  Same(c, e, l) /\ state_info[c][l] <= req_local_pwr_states[l][e]
            <4>1. Same(c, e, l)
                BY <1>2, <3>1, <3>2, SameAbove, Zenon DEF Same
            <4> QED BY <1>1, <2>1, <3>1, <4>1, Zenon DEF CoordinatedInv, Same
        <3>3. CASE InScope(c, m)
            <4>1. PICK e \in Cpus : Same(c, e, k) /\ state_info[c][k] = req_local_pwr_states[k][e]
                BY <1>1, <1>2, <1>3, <2>1, <3>3, Zenon DEF AttainedInv
            <4>2. Same(d, e, k)
                BY <1>3, <3>3, <4>1, Zenon DEF Same
            <4> QED BY <1>6, <2>2, <2>3, <3>1, <3>2, <3>3, <4>1, <4>2, Zenon
        <3>4. CASE ~InScope(c, m) /\ BeforeWrite(d, k)
            <4>1. PICK e \in Cpus : Same(d, e, k) /\ pc[e] = "coordinated" /\ k <= end_pwrlvl[e]
                BY <3>4, Zenon DEF BeforeWrite
            <4>2. e # c
                BY <1>3, <3>4, <4>1, Zenon
            <4>3. Same(c, e, l) /\ state_info[c][l] <= req_local_pwr_states[l][e]
                BY <3>2, <4>1, Zenon
            <4>4. ~(l <= end_pwrlvl[e])
                <5>1. psci_locks[parent_nodes[c][l]] = c
                    BY <1>1, <2>1, <3>1, Zenon DEF LockInv, Holds
                <5>2. l <= end_pwrlvl[e] => psci_locks[parent_nodes[e][l]] = e
                    BY <1>1, <4>1, Zenon DEF LockInv, Holds
                <5> QED BY <4>2, <4>3, <5>1, <5>2, Zenon DEF Same
            <4>5. state_info[c][l] = RUN
                BY <3>1, <4>1, <4>3, <4>4, RunAboveScope, StateType, Zenon
            <4> QED BY <1>5, <2>2, <2>3, <4>5, Zenon
        <3>5. CASE ~InScope(c, m) /\ ~BeforeWrite(d, k)
            <4>1. PICK e \in Cpus : Same(d, e, k) /\ node_local_state[m] = req_local_pwr_states[k][e]
                BY <1>1, <1>2, <3>5, Zenon DEF VotedForInv
            <4> QED BY <1>6, <2>2, <2>3, <3>1, <3>2, <3>5, <4>1, Zenon
        <3> QED BY <3>3, <3>4, <3>5, Zenon
    <2>4. CASE ~InScope(c, n) /\ InScope(c, m)
        BY <1>7, <2>1, <2>2, <2>4, Zenon
    <2>5. CASE ~InScope(c, n) /\ ~InScope(c, m)
        BY <1>4, <2>2, <2>5, Zenon
    <2> QED BY <2>3, <2>4, <2>5, Zenon
<1>9. CASE psci_set_pwr_domains_to_run(c)
    <2>1. pc[c] = "run"
        BY <1>9, Zenon DEF psci_set_pwr_domains_to_run
    <2>2. /\ node_local_state'[n] = IF InScope(c, n) THEN RUN ELSE node_local_state[n]
          /\ node_local_state'[m] = IF InScope(c, m) THEN RUN ELSE node_local_state[m]
        BY <1>3, <1>9, Zenon DEF psci_set_pwr_domains_to_run
    <2>3. CASE InScope(c, n)
        BY <1>5, <2>2, <2>3, Zenon
    <2>4. CASE ~InScope(c, n) /\ InScope(c, m)
        BY <1>7, <2>1, <2>2, <2>4, Zenon
    <2>5. CASE ~InScope(c, n) /\ ~InScope(c, m)
        BY <1>4, <2>2, <2>5, Zenon
    <2> QED BY <2>3, <2>4, <2>5, Zenon
<1>10. CASE ~psci_set_target_local_pwr_states(c) /\ ~psci_set_pwr_domains_to_run(c)
    <2>1. node_local_state'[n] = node_local_state[n] /\ node_local_state'[m] = node_local_state[m]
        BY <1>1, <1>3, <1>10, NodesAreLocked, Zenon
    <2> QED BY <1>4, <2>1, Zenon
<1> QED BY <1>8, <1>9, <1>10, Zenon

(* psci_setup leaves the levels in order: RUN above the boot CPU, OFF      *)
(* elsewhere.                                                              *)
LEMMA InitOrderInv == Init => OrderInv
<1> SUFFICES ASSUME Init PROVE OrderInv
    BY Zenon
<1>1. /\ \A c \in Cpus : pc[c] \in {"ns", "wfi"}
      /\ \A l \in Levels, c \in Cpus : req_local_pwr_states[l][c] =
            IF c = BootCpu THEN RUN ELSE PLAT_MAX_OFF_STATE
      /\ BootCpu \in Cpus
    BY PlatformAssumption, Zenon DEF Init
<1>2. ASSUME NEW c \in Cpus, NEW l \in Levels
      PROVE  node_local_state[parent_nodes[c][l]] =
                IF Same(c, BootCpu, l) THEN RUN ELSE PLAT_MAX_OFF_STATE
    <2>1. parent_nodes[c][l] \in Nodes
        BY TopologyAssumption
    <2>2. \A k \in Levels : parent_nodes[c][l] = parent_nodes[BootCpu][k] => k = l
        BY <1>1, TopologyAssumption
    <2>3. node_local_state[parent_nodes[c][l]] =
            IF \E k \in Levels : parent_nodes[c][l] = parent_nodes[BootCpu][k]
            THEN RUN ELSE PLAT_MAX_OFF_STATE
        BY <2>1, Zenon DEF Init
    <2> QED BY <2>2, <2>3, Zenon DEF Same
<1>3. RequestInv /\ AttainedInv
    BY <1>1, Zenon DEF RequestInv, AttainedInv
<1>4. VoteOrderInv
    <2>1. \A s \in LocalStates : find_local_state_type(s) <= find_local_state_type(s)
        BY StateType DEF find_local_state_type
    <2> QED BY <1>1, <2>1, BasicFacts, Zenon DEF VoteOrderInv, VotesOrdered
<1>5. VotedForInv
    <2> SUFFICES ASSUME NEW c \in Cpus, NEW l \in Levels
                 PROVE  \E d \in Cpus : /\ Same(c, d, l)
                          /\ node_local_state[parent_nodes[c][l]] = req_local_pwr_states[l][d]
        BY Zenon DEF VotedForInv
    <2>1. CASE Same(c, BootCpu, l)
        BY <1>1, <1>2, <2>1, Zenon
    <2>2. CASE ~Same(c, BootCpu, l)
        <3>1. Same(c, c, l) /\ c # BootCpu
            BY <2>2, Zenon DEF Same
        <3>2. node_local_state[parent_nodes[c][l]] = PLAT_MAX_OFF_STATE
            BY <1>2, <2>2, Zenon
        <3>3. req_local_pwr_states[l][c] = PLAT_MAX_OFF_STATE
            BY <1>1, <3>1, Zenon
        <3> QED BY <3>1, <3>2, <3>3, Zenon
    <2> QED BY <2>1, <2>2, Zenon
<1>6. ParentNotDeeper
    <2> SUFFICES ASSUME NEW c \in Cpus, NEW l \in Levels, l > 1
                 PROVE  find_local_state_type(node_local_state[parent_nodes[c][l]])
                          <= find_local_state_type(node_local_state[parent_nodes[c][l-1]])
        BY Zenon DEF ParentNotDeeper
    <2>1. l - 1 \in Levels /\ l - 1 < l
        BY PlatformAssumption DEF Levels
    <2>2. CASE Same(c, BootCpu, l - 1)
        <3>1. Same(c, BootCpu, l)
            BY <1>1, <2>1, <2>2, SameAbove, Zenon
        <3>2. /\ node_local_state[parent_nodes[c][l]] = RUN
              /\ node_local_state[parent_nodes[c][l-1]] = RUN
            BY <1>2, <2>1, <2>2, <3>1, Zenon
        <3>3. find_local_state_type(RUN) <= find_local_state_type(RUN)
            BY StateType
        <3> QED BY <3>2, <3>3, Zenon
    <2>3. CASE ~Same(c, BootCpu, l - 1)
        <3>1. node_local_state[parent_nodes[c][l-1]] = PLAT_MAX_OFF_STATE
            BY <1>2, <2>1, <2>3, Zenon
        <3>2. node_local_state[parent_nodes[c][l]] \in LocalStates
            BY <1>2, BasicFacts, Zenon
        <3> QED BY <3>1, <3>2, StateType, Zenon
    <2> QED BY <2>2, <2>3, Zenon
<1> QED BY <1>3, <1>4, <1>5, <1>6, Zenon DEF OrderInv

(* Every step keeps the order.                                             *)
LEMMA NextOrderInv == IInv /\ OrderInv /\ [Next]_vars => OrderInv'
<1> SUFFICES ASSUME IInv, OrderInv, [Next]_vars PROVE OrderInv'
    BY Zenon
<1>1. CASE Next
    <2>1. PICK c \in Cpus : Step(c)
        BY <1>1, Zenon DEF Next
    <2>2. RequestInv /\ VoteOrderInv /\ AttainedInv
        BY Zenon DEF OrderInv
    <2> QED BY <2>1, <2>2, RequestStep, VoteOrderStep, AttainedStep, VotedForStep, ParentStep,
               Zenon DEF OrderInv
<1>2. CASE UNCHANGED vars
    <2>1. /\ node_local_state' = node_local_state /\ pc' = pc /\ op' = op
          /\ req_local_pwr_states' = req_local_pwr_states
          /\ end_pwrlvl' = end_pwrlvl /\ state_info' = state_info
        BY <1>2, Zenon DEF vars, data, locals
    <2>2. RequestInv' /\ VoteOrderInv' /\ AttainedInv'
        BY <2>1, Zenon DEF OrderInv, RequestInv, VoteOrderInv, VotesOrdered, AttainedInv, Same
    <2>3. VotedForInv' /\ ParentNotDeeper'
        BY <2>1, Zenon DEF OrderInv, VotedForInv, BeforeWrite, Same, ParentNotDeeper
    <2> QED BY <2>2, <2>3, Zenon DEF OrderInv
<1> QED BY <1>1, <1>2, Zenon

(* A power domain is never in a deeper kind of state than a domain inside  *)
(* it, for any topology and any interleaving of the handlers.              *)
THEOREM ParentNotDeeperHolds == Spec => []ParentNotDeeper
<1>1. OrderInv => ParentNotDeeper
    BY Zenon DEF OrderInv
<1> QED BY <1>1, InitOrderInv, NextOrderInv, SpecIInv, PTL DEF Spec

=============================================================================
