------------------------------ MODULE PsciOsi ------------------------------
(***************************************************************************)
(* CPU_SUSPEND in a build with PSCI_OS_INIT_MODE: the operating system may *)
(* ask for the state of a power domain itself (OS-initiated mode) instead  *)
(* of voting for it, and PSCI_SET_SUSPEND_MODE switches between the modes. *)
(*                                                                         *)
(* Power levels: 0 is the CPU, 1 the cluster and 2, if it exists, the      *)
(* system.                                                                 *)
(* The locks of a request are taken in one step, all of them: PsciPower    *)
(* has the level-by-level acquisition.  CPU_OFF and CPU_ON, which are      *)
(* modelled in detail there, are single steps under the locks here.        *)
(***************************************************************************)
EXTENDS Integers, FiniteSets, FiniteSetsExt

CONSTANTS Cluster,      \* the cluster of each CPU
          PLAT_MAX_PWR_LVL,
          Platforms     \* the platforms to be looked at: modes, the arguments
                        \* of PSCI_SET_SUSPEND_MODE; standby, CPUs use the
                        \* standby fast path; validate, it has the hook
                        \* pwr_domain_validate_suspend; truthful, callers name
                        \* the requested level in last_at_pwrlvl

None == "none"

ASSUME OsiAssumption ==
    /\ None \notin DOMAIN Cluster /\ PLAT_MAX_PWR_LVL \in {1, 2}
    /\ Platforms \subseteq [modes : SUBSET {0, 1}, standby : BOOLEAN, validate : BOOLEAN,
                            truthful : BOOLEAN]

VARIABLES plat,         \* the one of Platforms that runs
          psci_suspend_mode,
          cpu_local_state, node_local_state, req_local_pwr_states, aff_info_state,
          locks,
          pc, state_info, end_pwrlvl, last_at_pwrlvl, prev, mode   \* a call and its locals

data == <<cpu_local_state, node_local_state, req_local_pwr_states, aff_info_state>>
request == <<state_info, end_pwrlvl, last_at_pwrlvl>>
vars == <<plat, psci_suspend_mode, data, locks, pc, request, prev, mode>>

CPUs == DOMAIN Cluster
PLAT_COORD == 0
OS_INIT == 1
RUN == 0
RET == 1
OFF == 2
States == {RUN, RET, OFF}
Levels == 1 .. PLAT_MAX_PWR_LVL
Unset == <<>>        \* an automatic variable that has not been assigned

Node(c, l) == IF l = 1 THEN <<1, Cluster[c]>> ELSE <<2, 0>>
Nodes == {Node(c, l) : c \in CPUs, l \in Levels}
Below(n) == {c \in CPUs : Node(c, n[1]) = n}

\* psci_validate_suspend_req: the states do not get deeper with the level.
Requests ==
    {s \in [0 .. PLAT_MAX_PWR_LVL -> States] : s[0] # RUN /\ \A l \in Levels : s[l] <= s[l - 1]}
psci_find_target_suspend_lvl(s) == CHOOSE l \in 0 .. PLAT_MAX_PWR_LVL : s[l] # RUN /\ \A k \in l + 1 .. PLAT_MAX_PWR_LVL : s[k] = RUN

\* At boot, or once the operating system has chosen its mode.
Init ==
    /\ plat \in Platforms
    /\ psci_suspend_mode \in plat.modes
    /\ cpu_local_state = [c \in CPUs |-> RUN]
    /\ node_local_state = [n \in Nodes |-> RUN]
    /\ req_local_pwr_states = [l \in Levels |-> [c \in CPUs |-> RUN]]
    /\ aff_info_state = [c \in CPUs |-> "ON"]
    /\ locks = [n \in Nodes |-> None]
    /\ pc = [c \in CPUs |-> "run"]
    /\ state_info = [c \in CPUs |-> Unset] /\ prev = [c \in CPUs |-> Unset]
    /\ end_pwrlvl = [c \in CPUs |-> 0] /\ last_at_pwrlvl = [c \in CPUs |-> 0]
    /\ mode = [c \in CPUs |-> PLAT_COORD]

Go(c, where) == pc' = [pc EXCEPT ![c] = where]
\* The call returns to the normal world: its locals are gone.
Return(c) ==
    /\ Go(c, "run")
    /\ state_info' = [state_info EXCEPT ![c] = Unset] /\ prev' = [prev EXCEPT ![c] = Unset]
    /\ end_pwrlvl' = [end_pwrlvl EXCEPT ![c] = 0] /\ last_at_pwrlvl' = [last_at_pwrlvl EXCEPT ![c] = 0]
    /\ mode' = [mode EXCEPT ![c] = PLAT_COORD]
Free(c, lvl) == \A l \in 1 .. lvl : locks[Node(c, l)] = None
Acquire(c, lvl) ==
    /\ Free(c, lvl)
    /\ locks' = [n \in Nodes |-> IF \E l \in 1 .. lvl : n = Node(c, l) THEN c ELSE locks[n]]
Release(c) == locks' = [n \in Nodes |-> IF locks[n] = c THEN None ELSE locks[n]]

Votes(c) == [l \in Levels |-> req_local_pwr_states[l][c]]
SetVotes(c, v) == req_local_pwr_states' = [l \in Levels |-> [req_local_pwr_states[l] EXCEPT ![c] = v[l]]]

\* psci_update_req_local_pwr_states writes every level, not only those up to
\* the requested one, and takes no lock for the others.
psci_update_req_local_pwr_states(c, s) ==
    LET end == psci_find_target_suspend_lvl(s)
    IN [l \in Levels |-> s[IF l <= end THEN l ELSE end]]

\* The default plat_get_target_pwr_state: the shallowest of the votes.
plat_get_target_pwr_state(votes, l, cpus) == Min({votes[l][d] : d \in cpus})

----------------------------------------------------------------------------
(* CPU_SUSPEND: the fast path for CPU standby, which takes no lock.        *)

IsStandby(s) == s[0] = RET /\ psci_find_target_suspend_lvl(s) = 0

EnterStandby(c, s) ==
    /\ plat.standby /\ pc[c] = "run" /\ IsStandby(s)
    /\ cpu_local_state' = [cpu_local_state EXCEPT ![c] = s[0]]
    /\ IF psci_suspend_mode = OS_INIT
       THEN /\ prev' = [prev EXCEPT ![c] = Votes(c)]
            /\ SetVotes(c, psci_update_req_local_pwr_states(c, s))
       ELSE /\ prev' = [prev EXCEPT ![c] = Unset]
            /\ UNCHANGED req_local_pwr_states
    /\ Go(c, "standby")
    /\ UNCHANGED <<psci_suspend_mode, node_local_state, aff_info_state, locks, request, mode>>

ExitStandby(c) ==
    /\ pc[c] = "standby"
    /\ cpu_local_state' = [cpu_local_state EXCEPT ![c] = RUN]
    /\ Go(c, "restore")
    /\ UNCHANGED <<psci_suspend_mode, node_local_state, req_local_pwr_states, aff_info_state,
                   locks, request, prev, mode>>

\* A standby that leaves the votes of the CPU as they are.
FaultyRestore(c) ==
    /\ pc[c] = "restore" /\ Return(c)
    /\ UNCHANGED <<psci_suspend_mode, data, locks>>

\* The mode is read again; prev is indeterminate if it was not assigned.
RestoreVotes(c) ==
    /\ pc[c] = "restore"
    /\ IF psci_suspend_mode # OS_INIT THEN UNCHANGED req_local_pwr_states
       ELSE \E v \in IF prev[c] = Unset THEN [Levels -> States] ELSE {prev[c]} : SetVotes(c, v)
    /\ Return(c)
    /\ UNCHANGED <<psci_suspend_mode, cpu_local_state, node_local_state, aff_info_state,
                   locks>>

----------------------------------------------------------------------------
(* psci_cpu_suspend_start.                                                 *)

psci_cpu_suspend_start(c, s) ==
    /\ pc[c] = "run" /\ ~IsStandby(s)
    /\ Acquire(c, psci_find_target_suspend_lvl(s))
    /\ state_info' = [state_info EXCEPT ![c] = s]
    /\ end_pwrlvl' = [end_pwrlvl EXCEPT ![c] = psci_find_target_suspend_lvl(s)]
    /\ \E l \in 0 .. PLAT_MAX_PWR_LVL : last_at_pwrlvl' = [last_at_pwrlvl EXCEPT ![c] = l]
    /\ plat.truthful => last_at_pwrlvl'[c] = end_pwrlvl'[c]
    /\ prev' = [prev EXCEPT ![c] = Votes(c)]
    /\ Go(c, "locked")
    /\ UNCHANGED <<psci_suspend_mode, data, mode>>

\* A pending interrupt ends the request before anything is recorded.
PendingInterrupt(c) ==
    /\ pc[c] = "locked" /\ Release(c) /\ Return(c)
    /\ UNCHANGED <<psci_suspend_mode, data>>

\* A check that forgets the other CPUs.
FaultyLast(c, lvl) == TRUE

\* psci_is_last_cpu_to_idle_at_pwrlvl: the loop over the levels does not
\* climb, so it looks at the CPUs of the cluster whatever the level is.
psci_is_last_cpu_to_idle_at_pwrlvl(c, lvl) ==
    lvl = 0 \/ \A d \in Below(Node(c, 1)) \ {c} : cpu_local_state[d] # RUN

\* psci_validate_state_coordination: nor does its loop climb (parent_idx stays
\* the cluster).  The votes are put back when the request is denied.
psci_validate_state_coordination(c) ==
    LET v == psci_update_req_local_pwr_states(c, state_info[c])
        votes == [l \in Levels |-> [req_local_pwr_states[l] EXCEPT ![c] = v[l]]]
        ok == /\ \A l \in 1 .. end_pwrlvl[c] :
                    state_info[c][l] = plat_get_target_pwr_state(votes, l, Below(Node(c, 1)))
              /\ psci_is_last_cpu_to_idle_at_pwrlvl(c, last_at_pwrlvl[c])
    IN /\ pc[c] = "locked" /\ psci_suspend_mode = OS_INIT
       /\ req_local_pwr_states' = IF ok THEN votes ELSE req_local_pwr_states
       /\ Go(c, IF ok THEN "granted" ELSE "denied")
       /\ UNCHANGED <<psci_suspend_mode, cpu_local_state, node_local_state, aff_info_state,
                      locks, request, prev, mode>>

\* The states negotiated for s up to end: RUN above a domain that stays in RUN.
Negotiated(c, s, end, votes) ==
    LET target(l) == plat_get_target_pwr_state(votes, l, Below(Node(c, l)))
    IN [l \in 0 .. PLAT_MAX_PWR_LVL |->
           CASE l = 0 -> s[0]
             [] l \in 1 .. end -> IF \E k \in 1 .. l : target(k) = RUN THEN RUN ELSE target(l)
             [] OTHER -> RUN]

psci_do_state_coordination(c) ==
    LET s == state_info[c]
        votes == [l \in Levels |-> IF l <= end_pwrlvl[c] THEN [req_local_pwr_states[l] EXCEPT ![c] = s[l]]
                                   ELSE req_local_pwr_states[l]]
    IN /\ pc[c] = "locked" /\ psci_suspend_mode # OS_INIT
       /\ req_local_pwr_states' = votes
       /\ state_info' = [state_info EXCEPT ![c] = Negotiated(c, s, end_pwrlvl[c], votes)]
       /\ Go(c, "granted")
       /\ UNCHANGED <<psci_suspend_mode, cpu_local_state, node_local_state, aff_info_state, locks,
                      end_pwrlvl, last_at_pwrlvl, prev, mode>>

\* pwr_domain_validate_suspend refuses.
ValidateFails(c) ==
    /\ plat.validate /\ pc[c] = "granted" /\ Go(c, "denied")
    /\ UNCHANGED <<psci_suspend_mode, data, locks, request, prev, mode>>

Denied(c) ==
    /\ pc[c] = "denied" /\ Release(c) /\ Return(c)
    /\ UNCHANGED <<psci_suspend_mode, data>>

\* psci_set_target_local_pwr_states, the platform's pwr_domain_suspend and the
\* release of the locks: the level to wake up to is in state_info.
SuspendGranted(c) ==
    /\ pc[c] = "granted"
    /\ cpu_local_state' = [cpu_local_state EXCEPT ![c] = state_info[c][0]]
    /\ node_local_state' = [n \in Nodes |->
           IF locks[n] = c THEN state_info[c][n[1]] ELSE node_local_state[n]]
    /\ Release(c) /\ Go(c, IF state_info[c][0] = OFF THEN "down" ELSE "retention")
    /\ UNCHANGED <<psci_suspend_mode, req_local_pwr_states, aff_info_state, prev, request, mode>>

\* psci_set_pwr_domains_to_run(lvl), under the locks up to lvl.
SetToRun(c, lvl) ==
    /\ Free(c, lvl)
    /\ node_local_state' = [n \in Nodes |->
           IF \E l \in 1 .. lvl : n = Node(c, l) THEN RUN ELSE node_local_state[n]]
    /\ req_local_pwr_states' = [l \in Levels |->
           IF l <= lvl THEN [req_local_pwr_states[l] EXCEPT ![c] = RUN] ELSE req_local_pwr_states[l]]
    /\ cpu_local_state' = [cpu_local_state EXCEPT ![c] = RUN]
    /\ aff_info_state' = [aff_info_state EXCEPT ![c] = "ON"]

\* A wake-up that restores the requested level only.
FaultyFinish(c) ==
    /\ pc[c] = "down" /\ SetToRun(c, end_pwrlvl[c]) /\ Return(c)
    /\ UNCHANGED <<psci_suspend_mode, locks>>

\* Warm boot: psci_suspend_to_pwrdown_start stored PLAT_MAX_PWR_LVL.
psci_cpu_suspend_finish(c) ==
    /\ pc[c] = "down" /\ SetToRun(c, PLAT_MAX_PWR_LVL) /\ Return(c)
    /\ UNCHANGED <<psci_suspend_mode, locks>>

psci_suspend_to_standby_finisher(c) ==
    /\ pc[c] = "retention" /\ SetToRun(c, end_pwrlvl[c]) /\ Return(c)
    /\ UNCHANGED <<psci_suspend_mode, locks>>

----------------------------------------------------------------------------
(* CPU_OFF, CPU_ON and PSCI_SET_SUSPEND_MODE.                              *)

\* CPU_OFF coordinates as in platform-coordinated mode, in both modes.
psci_do_cpu_off(c) ==
    LET off == [l \in 0 .. PLAT_MAX_PWR_LVL |-> OFF]
        votes == [l \in Levels |-> [req_local_pwr_states[l] EXCEPT ![c] = OFF]]
        s == Negotiated(c, off, PLAT_MAX_PWR_LVL, votes)
    IN /\ pc[c] = "run" /\ Free(c, PLAT_MAX_PWR_LVL)
       /\ req_local_pwr_states' = votes
       /\ cpu_local_state' = [cpu_local_state EXCEPT ![c] = OFF]
       /\ node_local_state' = [n \in Nodes |-> IF c \in Below(n) THEN s[n[1]] ELSE node_local_state[n]]
       /\ aff_info_state' = [aff_info_state EXCEPT ![c] = "OFF"]
       /\ Go(c, "off")
       /\ UNCHANGED <<psci_suspend_mode, locks, request, prev, mode>>

psci_cpu_on(c, d) ==
    /\ pc[c] = "run" /\ aff_info_state[d] = "OFF"
    /\ aff_info_state' = [aff_info_state EXCEPT ![d] = "ON_PENDING"]
    /\ UNCHANGED <<psci_suspend_mode, cpu_local_state, node_local_state, req_local_pwr_states,
                   locks, pc, request, prev, mode>>

psci_cpu_on_finish(c) ==
    /\ aff_info_state[c] = "ON_PENDING" /\ SetToRun(c, PLAT_MAX_PWR_LVL) /\ Return(c)
    /\ UNCHANGED <<psci_suspend_mode, locks>>

psci_is_last_on_cpu_safe(c) == \A d \in CPUs \ {c} : aff_info_state[d] = "OFF"
psci_are_all_cpus_on_safe == \A d \in CPUs : aff_info_state[d] # "OFF"

\* The checks are made under the locks, the mode is written after them.
psci_set_suspend_mode(c, m) ==
    /\ pc[c] = "run" /\ m # psci_suspend_mode
    /\ m \in {PLAT_COORD, OS_INIT} => Free(c, PLAT_MAX_PWR_LVL)
    /\ m = PLAT_COORD => psci_is_last_on_cpu_safe(c)
    /\ m = OS_INIT => psci_are_all_cpus_on_safe \/ psci_is_last_on_cpu_safe(c)
    /\ mode' = [mode EXCEPT ![c] = m] /\ Go(c, "setmode")
    /\ UNCHANGED <<psci_suspend_mode, data, locks, request, prev>>

WriteMode(c) ==
    /\ pc[c] = "setmode"
    /\ psci_suspend_mode' = mode[c] /\ Return(c)
    /\ UNCHANGED <<data, locks>>

Next ==
    /\ UNCHANGED plat
    /\ \E c \in CPUs :
        \/ \E s \in Requests : EnterStandby(c, s) \/ psci_cpu_suspend_start(c, s)
        \/ ExitStandby(c) \/ RestoreVotes(c)
        \/ PendingInterrupt(c) \/ psci_validate_state_coordination(c) \/ psci_do_state_coordination(c)
        \/ ValidateFails(c) \/ Denied(c) \/ SuspendGranted(c)
        \/ psci_cpu_suspend_finish(c) \/ psci_suspend_to_standby_finisher(c)
        \/ psci_do_cpu_off(c) \/ (\E d \in CPUs : psci_cpu_on(c, d)) \/ psci_cpu_on_finish(c)
        \/ (\E m \in plat.modes : psci_set_suspend_mode(c, m)) \/ WriteMode(c)

Spec == Init /\ [][Next]_vars

----------------------------------------------------------------------------
(* Properties.                                                             *)

\* Every variable stays in its domain.
TypeOK ==
    /\ cpu_local_state \in [CPUs -> States] /\ node_local_state \in [Nodes -> States]
    /\ req_local_pwr_states \in [Levels -> [CPUs -> States]]
    /\ \A c \in CPUs : aff_info_state[c] \in {"OFF", "ON_PENDING"} <=> pc[c] = "off"
    /\ locks \in [Nodes -> CPUs \cup {None}]

\* Executing in the normal world, or in a PSCI call that may yet return to it.
Running(c) == pc[c] \in {"run", "setmode", "locked", "denied"}

\* In OS-initiated mode a request for a power domain is granted only to the
\* last CPU that runs below it: psci_validate_state_coordination denies it
\* when "at least one of the node's children is running"
\* (docs/design_documents/psci_osi_mode.rst).
GrantOnlyWhenLast ==
    [][\A c \in CPUs : pc[c] = "locked" /\ pc'[c] = "granted" /\ psci_suspend_mode = OS_INIT =>
          \A l \in 1 .. end_pwrlvl[c] : \A d \in Below(Node(c, l)) \ {c} : ~Running(d)]_vars

\* A CPU that executes in the normal world votes for RUN at every level, so
\* no other CPU's request counts it as idle (without the validate hook: when it
\* refuses, the votes stay as the request left them).
RunningCpuVotesRun ==
    ~plat.validate =>
        \A c \in CPUs : pc[c] = "run" => \A l \in Levels : req_local_pwr_states[l][c] = RUN

\* No CPU executes below a power domain that psci_set_target_local_pwr_states
\* has recorded as idle (on platforms without the standby fast path, which
\* wakes a CPU without looking at the domains above it, and without the hook).
IdleDomainIsIdle ==
    ~plat.standby /\ ~plat.validate =>
        \A n \in Nodes : node_local_state[n] # RUN => \A c \in Below(n) : ~Running(c)

=============================================================================
