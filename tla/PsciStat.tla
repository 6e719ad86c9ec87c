------------------------------ MODULE PsciStat ------------------------------
(***************************************************************************)
(* PSCI statistics (ENABLE_PSCI_STAT): how often each power domain was in  *)
(* each low-power state, and which CPU was the last to go down in it, from *)
(* whose timestamp the residency is computed.  The statistics of a domain  *)
(* are touched under its lock together with its state, so that going down  *)
(* and coming up are one step each; PsciPower has the interleavings inside *)
(* these steps.                                                            *)
(*                                                                         *)
(* Residency times are left out: they are sums over the same events.       *)
(***************************************************************************)
EXTENDS Integers, FiniteSets, FiniteSetsExt

CONSTANTS Cluster,           \* the cluster of each CPU
          Primary,           \* the CPU that boots
          PLAT_MAX_PWR_LVL,
          MaxSleeps          \* bound: requests to go down in a behaviour

CPUs == DOMAIN Cluster
RUN == 0
RET == 1
OFF == 2
States == {RUN, RET, OFF}
None == "none"               \* -1 in last_cpu_in_non_cpu_pd

ASSUME StatAssumption ==
    /\ PLAT_MAX_PWR_LVL \in {1, 2} /\ Primary \in CPUs /\ None \notin CPUs
    /\ MaxSleeps \in Nat

Levels == 1 .. PLAT_MAX_PWR_LVL
Node(c, l) == CASE l = 0 -> <<0, c>> [] l = 1 -> <<1, Cluster[c]>> [] OTHER -> <<2, 0>>
CpuNodes == {Node(c, 0) : c \in CPUs}
Domains == {Node(c, l) : c \in CPUs, l \in Levels}
Below(n) == {c \in CPUs : Node(c, n[1]) = n}

VARIABLES local_state,   \* of every node, CPUs included
          votes,         \* req_local_pwr_states
          aff,           \* "ON" (running or suspended), "OFF", "ON_PENDING"
          level,         \* target_pwrlvl of a CPU that sleeps
          last_cpu_in_non_cpu_pd,
          count,         \* psci_cpu_stat and psci_non_cpu_stat
          stop,          \* an assertion has failed
          entered,       \* ghost: how often each node really entered each state
          early,         \* ghost: a CPU has gone down while a CPU_ON was pending
          sleeps         \* ghost: requests so far

vars == <<local_state, votes, aff, level, last_cpu_in_non_cpu_pd, count, stop, entered,
          early, sleeps>>

TypeOK ==
    /\ local_state \in [CpuNodes \cup Domains -> States]
    /\ votes \in [Levels -> [CPUs -> States]]
    /\ aff \in [CPUs -> {"ON", "OFF", "ON_PENDING"}]
    /\ level \in [CPUs -> 0 .. PLAT_MAX_PWR_LVL]
    /\ last_cpu_in_non_cpu_pd \in [Domains -> CPUs \cup {None}]
    /\ count \in [CpuNodes \cup Domains -> [{RET, OFF} -> Nat]]

BootState(n) == IF Primary \in Below(n) THEN RUN ELSE OFF

Init ==
    /\ local_state = [n \in CpuNodes \cup Domains |-> BootState(n)]
    /\ votes = [l \in Levels |-> [c \in CPUs |-> IF c = Primary THEN RUN ELSE OFF]]
    /\ aff = [c \in CPUs |-> IF c = Primary THEN "ON" ELSE "OFF"]
    /\ level = [c \in CPUs |-> PLAT_MAX_PWR_LVL]
    /\ last_cpu_in_non_cpu_pd = [n \in Domains |-> None]
    /\ count = [n \in CpuNodes \cup Domains |-> [s \in {RET, OFF} |-> 0]]
    /\ stop = FALSE
    \* A CPU that is off at boot counts as having entered that state; a
    \* domain does not, because its first power-up is skipped.
    /\ entered = [n \in CpuNodes \cup Domains |->
                    [s \in {RET, OFF} |-> IF n \in CpuNodes /\ s = BootState(n) THEN 1 ELSE 0]]
    /\ early = FALSE
    /\ sleeps = 0

Runs(c) == local_state[<<0, c>>] = RUN

----------------------------------------------------------------------------
(* Going down.                                                             *)

\* psci_do_state_coordination: the shallowest vote, and RUN above a domain
\* that stays RUN.
Coordinated(v, c, end) ==
    LET target(l) == Min({v[l][d] : d \in Below(Node(c, l))})
    IN [l \in 1 .. end |-> IF \E k \in 1 .. l : target(k) = RUN THEN RUN ELSE target(l)]

psci_stats_update_pwr_down(c, t) ==
    [n \in Domains |-> IF \E l \in DOMAIN t : n = Node(c, l) /\ t[l] # RUN
                       THEN c ELSE last_cpu_in_non_cpu_pd[n]]

GoDown(c, s, end) ==
    LET v == [l \in Levels |-> IF l <= end THEN [votes[l] EXCEPT ![c] = s[l]] ELSE votes[l]]
        t == Coordinated(v, c, end)
        new(n) == CASE n = <<0, c>> -> s[0]
                    [] \E l \in 1 .. end : n = Node(c, l) -> t[n[1]]
                    [] OTHER -> local_state[n]
    IN /\ Runs(c) /\ ~stop /\ sleeps < MaxSleeps
       /\ votes' = v
       /\ local_state' = [n \in CpuNodes \cup Domains |-> new(n)]
       /\ level' = [level EXCEPT ![c] = end]
       /\ last_cpu_in_non_cpu_pd' = psci_stats_update_pwr_down(c, t)
       /\ entered' = [n \in CpuNodes \cup Domains |-> [q \in {RET, OFF} |->
                        IF local_state[n] = RUN /\ new(n) = q THEN entered[n][q] + 1 ELSE entered[n][q]]]
       /\ early' = (early \/ \E d \in CPUs : aff[d] = "ON_PENDING")
       /\ sleeps' = sleeps + 1
       /\ UNCHANGED <<count, stop>>

\* CPU_SUSPEND to a composite state; a standby of the CPU alone touches no
\* domain and is the case end = 0.
psci_cpu_suspend(c, s) ==
    /\ s[0] # RUN /\ \A l \in Levels : s[l] <= s[l - 1]
    /\ GoDown(c, s, Max({l \in 0 .. PLAT_MAX_PWR_LVL : s[l] # RUN}))
    /\ UNCHANGED aff

psci_do_cpu_off(c) ==
    /\ GoDown(c, [l \in 0 .. PLAT_MAX_PWR_LVL |-> OFF], PLAT_MAX_PWR_LVL)
    /\ aff' = [aff EXCEPT ![c] = "OFF"]

CpuOn(c, t) ==
    /\ Runs(c) /\ ~stop /\ aff[t] = "OFF"
    /\ aff' = [aff EXCEPT ![t] = "ON_PENDING"]
    /\ level' = [level EXCEPT ![t] = PLAT_MAX_PWR_LVL]
    /\ UNCHANGED <<local_state, votes, last_cpu_in_non_cpu_pd, count, stop, entered, early, sleeps>>

----------------------------------------------------------------------------
(* Coming up: the warm boot and the retention finisher update the same.    *)

\* An update that does not recognise the first power-up.
FaultyUpdatedLevels(c, end) == {l \in 1 .. end : \A k \in 1 .. l : local_state[Node(c, k)] # RUN}

\* The levels whose statistics a wake-up to level end updates.
UpdatedLevels(c, end) ==
    IF last_cpu_in_non_cpu_pd[Node(c, 1)] = None THEN {}
    ELSE {l \in 1 .. end : \A k \in 1 .. l : local_state[Node(c, k)] # RUN}

\* An update that counts the shallowest state for every level.
FaultyPwrUp(c, end) ==
    LET up == {Node(c, l) : l \in UpdatedLevels(c, end)}
        at == Min({local_state[n] : n \in up \cup {<<0, c>>}})
    IN /\ stop' = (None \in {last_cpu_in_non_cpu_pd[n] : n \in up})
       /\ last_cpu_in_non_cpu_pd' =
            [n \in Domains |-> IF n \in up THEN None ELSE last_cpu_in_non_cpu_pd[n]]
       /\ count' = [n \in CpuNodes \cup Domains |->
                      IF n \in up \cup {<<0, c>>} THEN [count[n] EXCEPT ![at] = @ + 1] ELSE count[n]]

psci_stats_update_pwr_up(c, end) ==
    LET up == {Node(c, l) : l \in UpdatedLevels(c, end)}
    IN /\ stop' = (None \in {last_cpu_in_non_cpu_pd[n] : n \in up})
       /\ last_cpu_in_non_cpu_pd' =
            [n \in Domains |-> IF n \in up THEN None ELSE last_cpu_in_non_cpu_pd[n]]
       /\ count' = [n \in CpuNodes \cup Domains |->
                      IF n \in up \cup {<<0, c>>} THEN [count[n] EXCEPT ![local_state[n]] = @ + 1] ELSE count[n]]

psci_set_pwr_domains_to_run(c, end) ==
    /\ local_state' = [n \in CpuNodes \cup Domains |->
                         IF \E l \in 0 .. end : n = Node(c, l) THEN RUN ELSE local_state[n]]
    /\ votes' = [l \in Levels |-> IF l <= end THEN [votes[l] EXCEPT ![c] = RUN] ELSE votes[l]]

WakeUp(c) ==
    /\ ~Runs(c) /\ aff[c] # "OFF" /\ ~stop
    /\ psci_stats_update_pwr_up(c, level[c])
    /\ psci_set_pwr_domains_to_run(c, level[c])
    /\ aff' = [aff EXCEPT ![c] = "ON"]
    /\ level' = [level EXCEPT ![c] = PLAT_MAX_PWR_LVL]
    /\ UNCHANGED <<entered, early, sleeps>>

Next ==
    \E c \in CPUs :
       \/ \E s \in [0 .. PLAT_MAX_PWR_LVL -> States] : psci_cpu_suspend(c, s)
       \/ psci_do_cpu_off(c)
       \/ \E t \in CPUs : CpuOn(c, t)
       \/ WakeUp(c)

Spec == Init /\ [][Next]_vars

----------------------------------------------------------------------------
\* The assertion in psci_stats_update_pwr_up: a domain that a wake-up finds
\* asleep has a last CPU, although only the cluster is looked at to recognise
\* a first power-up.
LastCpuKnown == ~stop

\* The count that PSCI_STAT_COUNT reports is the number of times the node
\* entered the state, not counting the entry it has not left yet
\* (psci_stats_update_pwr_up counts on the way up).  The exception is the
\* system when a CPU went down while a CPU_ON was pending: if the target is the
\* first of its cluster, its early return leaves the system's period uncounted.
CountsEntries ==
    \A n \in CpuNodes \cup Domains, s \in {RET, OFF} :
        ~(early /\ n[1] = 2) =>
        count[n][s] = entered[n][s] - (IF local_state[n] = s /\ entered[n][s] > 0 THEN 1 ELSE 0)
=============================================================================
