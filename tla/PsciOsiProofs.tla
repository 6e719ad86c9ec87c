--------------------------- MODULE PsciOsiProofs ---------------------------
(***************************************************************************)
(* Proofs about PsciOsi, for any number of CPUs and clusters, on platforms *)
(* whose power domains are the clusters.  (With a system above them the    *)
(* properties do not hold: the loops of the OS-initiated checks do not     *)
(* climb, and the votes for levels above the requested one are written but *)
(* not put back.)                                                          *)
(***************************************************************************)
EXTENDS PsciOsi, TLAPS

\* What the theorems suppose of the platforms: the clusters are the highest
\* power domains; the operating system of a platform with the standby fast
\* path does not switch modes; where the platform may refuse a request that
\* has been granted, callers name the level they ask for.
OneLevel == PLAT_MAX_PWR_LVL = 1
Steady(p) == p.standby => PLAT_COORD \notin p.modes \/ OS_INIT \notin p.modes
SteadyMode == \A p \in Platforms : Steady(p)
TruthfulCallers == \A p \in Platforms : p.validate => p.truthful

Infos == [{0, 1} -> States]
Places == {"run", "standby", "restore", "locked", "granted", "denied", "down", "retention", "off", "setmode"}
Holding == {"locked", "granted", "denied"}
Vote(c) == req_local_pwr_states[1][c]

TypeInv ==
    /\ plat \in Platforms /\ psci_suspend_mode \in plat.modes
    /\ cpu_local_state \in [CPUs -> States] /\ node_local_state \in [Nodes -> States]
    /\ req_local_pwr_states \in [{1} -> [CPUs -> States]]
    /\ aff_info_state \in [CPUs -> {"ON", "OFF", "ON_PENDING"}]
    /\ locks \in [Nodes -> CPUs \cup {None}]
    /\ pc \in [CPUs -> Places]
    /\ state_info \in [CPUs -> Infos \cup {Unset}]
    /\ prev \in [CPUs -> [{1} -> States] \cup {Unset}]
    /\ end_pwrlvl \in [CPUs -> {0, 1}] /\ last_at_pwrlvl \in [CPUs -> {0, 1}]
    /\ mode \in [CPUs -> {PLAT_COORD, OS_INIT}]

\* The request of a call: down to the CPU alone it is a power-down, because
\* anything less is the standby fast path.
RequestOk(c) ==
    /\ pc[c] \in Holding \cup {"down", "retention"} =>
          state_info[c] \in Infos /\ (end_pwrlvl[c] = 0 => state_info[c][0] = OFF)
    /\ pc[c] = "locked" => /\ state_info[c][0] # RUN
                           /\ end_pwrlvl[c] = 1 => state_info[c][1] # RUN
                           /\ plat.truthful => last_at_pwrlvl[c] = end_pwrlvl[c]
    /\ pc[c] = "retention" => end_pwrlvl[c] = 1
    /\ pc[c] = "setmode" => mode[c] \in plat.modes /\ ~plat.standby
    /\ pc[c] \in {"standby", "restore"} => plat.standby
    /\ pc[c] \in {"run", "setmode", "restore"} \cup Holding => cpu_local_state[c] = RUN

\* The vote of a CPU that has nothing granted is RUN; in the standby fast
\* path the CPU remembers that vote if it has changed it.
VoteOk(c) ==
    ~plat.validate =>
        /\ Running(c) => Vote(c) = RUN
        /\ pc[c] \in {"standby", "restore"} =>
              IF psci_suspend_mode = OS_INIT THEN prev[c] # Unset /\ prev[c][1] = RUN ELSE Vote(c) = RUN

AffInv == \A c \in CPUs : aff_info_state[c] \in {"OFF", "ON_PENDING"} <=> pc[c] = "off"

\* The lock of a cluster is held by the CPU of the cluster whose request for
\* it is being decided.
LockInv ==
    /\ \A n \in Nodes : locks[n] # None =>
          pc[locks[n]] \in Holding /\ end_pwrlvl[locks[n]] = 1 /\ n = Node(locks[n], 1)
    /\ \A c \in CPUs : pc[c] \in Holding /\ end_pwrlvl[c] = 1 => locks[Node(c, 1)] = c

\* A cluster below which a CPU runs is recorded as running, and it is not
\* being turned off.
TurnsOff(c) == pc[c] = "granted" /\ end_pwrlvl[c] = 1 /\ state_info[c][1] # RUN
IdleInv ==
    ~plat.standby /\ ~plat.validate =>
        /\ \A c \in CPUs : Running(c) => node_local_state[Node(c, 1)] = RUN
        /\ \A c, d \in CPUs : TurnsOff(c) /\ c # d /\ Node(d, 1) = Node(c, 1) => ~Running(d)

IInv ==
    /\ TypeInv /\ AffInv /\ LockInv /\ IdleInv
    /\ \A c \in CPUs : RequestOk(c) /\ VoteOk(c)

\* A step leaves what belongs to d alone.
Untouched(d) ==
    /\ pc'[d] = pc[d] /\ state_info'[d] = state_info[d] /\ prev'[d] = prev[d]
    /\ end_pwrlvl'[d] = end_pwrlvl[d] /\ last_at_pwrlvl'[d] = last_at_pwrlvl[d]
    /\ mode'[d] = mode[d] /\ cpu_local_state'[d] = cpu_local_state[d] /\ Vote(d)' = Vote(d)
Others(c) == \A d \in CPUs : d # c => Untouched(d)

-----------------------------------------------------------------------------
(* The levels of a platform with clusters only.                            *)
LEMMA OneLevelFacts ==
    ASSUME OneLevel
    PROVE  /\ Levels = {1} /\ 0 .. PLAT_MAX_PWR_LVL = {0, 1} /\ 1 .. PLAT_MAX_PWR_LVL = {1}
           /\ 1 .. 1 = {1} /\ 1 .. 0 = {}
BY DEF OneLevel, Levels

(* The clusters.                                                           *)
LEMMA NodeFacts ==
    ASSUME OneLevel
    PROVE  /\ \A c \in CPUs : Node(c, 1) \in Nodes /\ Node(c, 1)[1] = 1
           /\ \A n \in Nodes : n[1] = 1 /\ \E c \in CPUs : n = Node(c, 1)
<1>1. Levels = {1}
    BY OneLevelFacts, Zenon
<1>2. \A c \in CPUs : Node(c, 1)[1] = 1
    BY DEF Node
<1>3. \A c \in CPUs : Node(c, 1) \in Nodes
    BY <1>1 DEF Nodes
<1>4. \A n \in Nodes : \E c \in CPUs : n = Node(c, 1)
    BY <1>1 DEF Nodes
<1>5. \A n \in Nodes : n[1] = 1
    BY <1>2, <1>4, Zenon
<1> QED BY <1>2, <1>3, <1>4, <1>5, Zenon

(* The CPUs below the cluster of c are those with its cluster.             *)
LEMMA BelowNode ==
    ASSUME OneLevel, NEW c \in CPUs
    PROVE  \A d : d \in Below(Node(c, 1)) <=> d \in CPUs /\ Node(d, 1) = Node(c, 1)
<1>1. Node(c, 1)[1] = 1
    BY NodeFacts, Zenon
<1> QED BY <1>1, Zenon DEF Below

(* The shallowest of a set of states is RUN only if one of them is.        *)
LEMMA MinState ==
    ASSUME NEW T \in SUBSET States, T # {}
    PROVE  Min(T) \in States /\ (Min(T) # RUN => RUN \notin T)
<1>1. T \subseteq {0, 1, 2}
    BY Zenon DEF States, RUN, RET, OFF
<1>2. \E x \in T : \A y \in T : x <= y
    <2>1. CASE 0 \in T
        <3>1. \A y \in T : 0 <= y
            BY <1>1
        <3> QED BY <2>1, <3>1, Zenon
    <2>2. CASE 0 \notin T /\ 1 \in T
        <3>1. \A y \in T : 1 <= y
            BY <1>1, <2>2
        <3> QED BY <2>2, <3>1, Zenon
    <2>3. CASE 0 \notin T /\ 1 \notin T
        <3>1. 2 \in T /\ \A y \in T : y = 2
            BY <1>1, <2>3, Zenon
        <3>2. \A y \in T : 2 <= y
            BY <3>1
        <3> QED BY <3>1, <3>2, Zenon
    <2> QED BY <2>1, <2>2, <2>3, Zenon
<1>3. Min(T) \in T /\ \A y \in T : Min(T) <= y
    BY <1>2, Zenon DEF Min
<1>4. Min(T) \in {0, 1, 2}
    BY <1>1, <1>3, Zenon
<1>5. Min(T) # 0 => 0 \notin T
    BY <1>3, <1>4
<1> QED BY <1>3, <1>5, Zenon DEF RUN

(* The level that composite states name.                                   *)
LEMMA TargetLevel ==
    ASSUME OneLevel, NEW s \in Infos, s[0] # RUN
    PROVE  LET lvl == psci_find_target_suspend_lvl(s)
           IN  /\ lvl \in {0, 1}
               /\ lvl = 1 => s[1] # RUN
               /\ lvl = 0 => s[1] = RUN
<1> DEFINE P(l) == s[l] # RUN /\ \A k \in l + 1 .. PLAT_MAX_PWR_LVL : s[k] = RUN
           lvl == CHOOSE l \in {0, 1} : P(l)
<1>1. psci_find_target_suspend_lvl(s) = lvl
    BY OneLevelFacts, Zenon DEF psci_find_target_suspend_lvl
<1>3. P(1) <=> s[1] # RUN
    <2>1. 1 + 1 .. PLAT_MAX_PWR_LVL = {}
        BY DEF OneLevel
    <2> QED BY <2>1, Zenon
<1>4. P(0) <=> s[1] = RUN
    <2>1. 0 + 1 .. PLAT_MAX_PWR_LVL = {1}
        BY DEF OneLevel
    <2> QED BY <2>1, Zenon
<1>5. \E l \in {0, 1} : P(l)
    BY <1>3, <1>4, Zenon
<1>6. lvl \in {0, 1} /\ P(lvl)
    BY <1>5, Zenon
<1> HIDE DEF P, lvl
<1> QED BY <1>1, <1>3, <1>4, <1>6, Zenon

(* A request and the level it names.                                       *)
LEMMA RequestLevel ==
    ASSUME OneLevel, NEW s \in Requests
    PROVE  LET lvl == psci_find_target_suspend_lvl(s)
           IN  /\ s \in Infos /\ s[0] # RUN /\ lvl \in {0, 1}
               /\ lvl = 1 => s[1] # RUN
               /\ lvl = 0 => s[1] = RUN
<1>1. s \in Infos /\ s[0] # RUN
    BY OneLevelFacts, Zenon DEF Requests, Infos
<1> QED BY <1>1, TargetLevel, Zenon

(* Anything less than a power-down of the CPU alone is a standby.          *)
LEMMA NoStandby ==
    ASSUME OneLevel, NEW s \in Requests, ~IsStandby(s), psci_find_target_suspend_lvl(s) = 0
    PROVE  s[0] = OFF
<1>1. s[0] \in States /\ s[0] # RUN
    BY RequestLevel, Zenon DEF Infos
<1> QED BY <1>1, Zenon DEF IsStandby, States

(* What a CPU votes for in OS-initiated mode.                              *)
LEMMA RequestVotes ==
    ASSUME OneLevel, NEW c \in CPUs, NEW s \in Infos, psci_find_target_suspend_lvl(s) \in {0, 1}
    PROVE  psci_update_req_local_pwr_states(c, s) \in [{1} -> States]
<1> DEFINE e == psci_find_target_suspend_lvl(s)
<1>1. \A l \in {1} : s[IF l <= e THEN l ELSE e] \in States
    BY DEF Infos
<1> HIDE DEF e
<1>2. psci_update_req_local_pwr_states(c, s) = [l \in {1} |-> s[IF l <= e THEN l ELSE e]]
    BY OneLevelFacts, Zenon DEF psci_update_req_local_pwr_states, e
<1> QED BY <1>1, <1>2, Zenon

(* A mode that can be asked for is another one only on a platform without  *)
(* the standby fast path.                                                  *)
LEMMA ModeSwitch ==
    ASSUME Steady(plat), TypeInv, NEW m \in plat.modes, m # psci_suspend_mode
    PROVE  ~plat.standby /\ m \in {PLAT_COORD, OS_INIT}
<1>1. plat \in [modes : SUBSET {0, 1}, standby : BOOLEAN, validate : BOOLEAN, truthful : BOOLEAN]
    BY OsiAssumption, Zenon DEF TypeInv
<1>2. plat.modes \in SUBSET {0, 1}
    BY <1>1
<1>3. psci_suspend_mode \in plat.modes /\ plat \in Platforms
    BY Zenon DEF TypeInv
<1> QED BY <1>2, <1>3, Zenon DEF Steady, PLAT_COORD, OS_INIT

-----------------------------------------------------------------------------
(* What a step does to the CPUs it does not touch, the locks and the       *)
(* clusters.                                                               *)
LEMMA Frame ==
    ASSUME NEW d \in CPUs, RequestOk(d), VoteOk(d), Untouched(d), plat' = plat,
           psci_suspend_mode' = psci_suspend_mode \/ ~plat.standby
    PROVE  RequestOk(d)' /\ VoteOk(d)'
<1>1. RequestOk(d)'
    BY Zenon DEF RequestOk, Untouched
<1>2. VoteOk(d)'
    <2>1. Running(d)' <=> Running(d)
        BY Zenon DEF Running, Untouched
    <2>2. ~plat.validate /\ Running(d) => Vote(d)' = RUN
        BY Zenon DEF VoteOk, Untouched
    <2>3. ASSUME ~plat.validate, pc[d] \in {"standby", "restore"}
          PROVE  IF psci_suspend_mode' = OS_INIT THEN prev'[d] # Unset /\ prev'[d][1] = RUN ELSE Vote(d)' = RUN
        <3>1. plat.standby
            BY <2>3, Zenon DEF RequestOk
        <3> QED BY <2>3, <3>1, Zenon DEF VoteOk, Untouched
    <2>4. pc'[d] = pc[d]
        BY Zenon DEF Untouched
    <2> QED BY <2>1, <2>2, <2>3, <2>4, Zenon DEF VoteOk
<1> QED BY <1>1, <1>2, Zenon

(* A step that takes and releases no lock keeps the lock discipline.       *)
LEMMA KeepLocks ==
    ASSUME TypeInv, LockInv, locks' = locks,
           \A d \in CPUs : pc'[d] \in Holding <=> pc[d] \in Holding,
           \A d \in CPUs : pc[d] \in Holding => end_pwrlvl'[d] = end_pwrlvl[d]
    PROVE  LockInv'
<1>1. \A n \in Nodes : locks[n] # None => locks[n] \in CPUs
    BY Zenon DEF TypeInv
<1> QED BY <1>1, Zenon DEF LockInv

(* So does releasing the locks on the way out of a decision,               *)
LEMMA ReleaseLocks ==
    ASSUME OneLevel, TypeInv, LockInv, NEW c \in CPUs, Release(c), pc'[c] \notin Holding,
           \A d \in CPUs : d # c => pc'[d] = pc[d] /\ end_pwrlvl'[d] = end_pwrlvl[d]
    PROVE  LockInv' /\ locks' \in [Nodes -> CPUs \cup {None}]
<1>1. locks \in [Nodes -> CPUs \cup {None}]
    BY Zenon DEF TypeInv
<1>2. locks' \in [Nodes -> CPUs \cup {None}]
    BY <1>1, Zenon DEF Release
<1>3. c # None
    BY OsiAssumption, Zenon DEF CPUs
<1>4. \A n \in Nodes : locks'[n] = IF locks[n] = c THEN None ELSE locks[n]
    BY Zenon DEF Release
<1>5. \A n \in Nodes : locks'[n] # None =>
          pc'[locks'[n]] \in Holding /\ end_pwrlvl'[locks'[n]] = 1 /\ n = Node(locks'[n], 1)
    <2> SUFFICES ASSUME NEW n \in Nodes, locks'[n] # None
                 PROVE  pc'[locks'[n]] \in Holding /\ end_pwrlvl'[locks'[n]] = 1 /\ n = Node(locks'[n], 1)
        BY Zenon
    <2>1. locks'[n] = locks[n] /\ locks[n] # c /\ locks[n] \in CPUs
        BY <1>1, <1>4, Zenon
    <2>2. pc[locks[n]] \in Holding /\ end_pwrlvl[locks[n]] = 1 /\ n = Node(locks[n], 1)
        BY <2>1, Zenon DEF LockInv
    <2> QED BY <2>1, <2>2, Zenon
<1>6. ASSUME NEW d \in CPUs, pc'[d] \in Holding, end_pwrlvl'[d] = 1 PROVE locks'[Node(d, 1)] = d
    <2>1. d # c
        BY <1>6, Zenon
    <2>2. locks[Node(d, 1)] = d
        BY <1>6, <2>1, Zenon DEF LockInv
    <2>3. Node(d, 1) \in Nodes
        BY NodeFacts, Zenon
    <2> QED BY <1>4, <2>1, <2>2, <2>3, Zenon
<1> QED BY <1>2, <1>5, <1>6, Zenon DEF LockInv

(* and taking them on the way in.                                          *)
LEMMA AcquireLocks ==
    ASSUME OneLevel, TypeInv, LockInv, NEW c \in CPUs, NEW lvl \in {0, 1}, Acquire(c, lvl),
           pc[c] \notin Holding, pc'[c] \in Holding, end_pwrlvl'[c] = lvl,
           \A d \in CPUs : d # c => pc'[d] = pc[d] /\ end_pwrlvl'[d] = end_pwrlvl[d]
    PROVE  LockInv' /\ locks' \in [Nodes -> CPUs \cup {None}]
<1>1. locks \in [Nodes -> CPUs \cup {None}]
    BY Zenon DEF TypeInv
<1>2. locks' \in [Nodes -> CPUs \cup {None}]
    BY <1>1, Zenon DEF Acquire
<1>3. \A n \in Nodes : locks'[n] = IF lvl = 1 /\ n = Node(c, 1) THEN c ELSE locks[n]
    <2>1. CASE lvl = 1
        <3>1. 1 .. lvl = {1}
            BY <2>1
        <3> QED BY <2>1, <3>1, Zenon DEF Acquire
    <2>2. CASE lvl = 0
        <3>1. 1 .. lvl = {} /\ lvl # 1
            BY <2>2
        <3> QED BY <3>1, Zenon DEF Acquire
    <2> QED BY <2>1, <2>2, Zenon
<1>4. lvl = 1 => locks[Node(c, 1)] = None
    <2>1. 1 .. 1 = {1}
        OBVIOUS
    <2> QED BY <2>1, Zenon DEF Acquire, Free
<1>5. c # None
    BY OsiAssumption, Zenon DEF CPUs
<1>6. \A n \in Nodes : locks[n] # c
    BY <1>5, Zenon DEF LockInv
<1>7. \A n \in Nodes : locks'[n] # None =>
          pc'[locks'[n]] \in Holding /\ end_pwrlvl'[locks'[n]] = 1 /\ n = Node(locks'[n], 1)
    <2> SUFFICES ASSUME NEW n \in Nodes, locks'[n] # None
                 PROVE  pc'[locks'[n]] \in Holding /\ end_pwrlvl'[locks'[n]] = 1 /\ n = Node(locks'[n], 1)
        BY Zenon
    <2>1. CASE lvl = 1 /\ n = Node(c, 1)
        BY <1>3, <2>1, Zenon
    <2>2. CASE ~(lvl = 1 /\ n = Node(c, 1))
        <3>1. locks'[n] = locks[n] /\ locks[n] # c /\ locks[n] \in CPUs
            BY <1>1, <1>3, <1>6, <2>2, Zenon
        <3>2. pc[locks[n]] \in Holding /\ end_pwrlvl[locks[n]] = 1 /\ n = Node(locks[n], 1)
            BY <3>1, Zenon DEF LockInv
        <3> QED BY <3>1, <3>2, Zenon
    <2> QED BY <2>1, <2>2, Zenon
<1>8. ASSUME NEW d \in CPUs, pc'[d] \in Holding, end_pwrlvl'[d] = 1 PROVE locks'[Node(d, 1)] = d
    <2>1. Node(d, 1) \in Nodes
        BY NodeFacts, Zenon
    <2>2. CASE d = c
        BY <1>3, <1>8, <2>1, <2>2, Zenon
    <2>3. CASE d # c
        <3>1. locks[Node(d, 1)] = d
            BY <1>8, <2>3, Zenon DEF LockInv
        <3>2. d # None
            BY OsiAssumption, Zenon DEF CPUs
        <3>3. ~(lvl = 1 /\ Node(d, 1) = Node(c, 1))
            BY <1>4, <3>1, <3>2, Zenon
        <3> QED BY <1>3, <2>1, <3>1, <3>3, Zenon
    <2> QED BY <2>2, <2>3, Zenon
<1> QED BY <1>2, <1>7, <1>8, Zenon DEF LockInv

(* The clusters stay running if no CPU starts running and no cluster is    *)
(* newly turned off.                                                       *)
LEMMA KeepIdle ==
    ASSUME IdleInv, plat' = plat,
           \A d \in CPUs : Running(d)' => Running(d),
           \A d \in CPUs : TurnsOff(d)' => TurnsOff(d),
           \A d \in CPUs : node_local_state[Node(d, 1)] = RUN => node_local_state'[Node(d, 1)] = RUN
    PROVE  IdleInv'
BY Zenon DEF IdleInv

(* A CPU that comes up with the lock of its cluster free.                  *)
LEMMA WakeIdle ==
    ASSUME OneLevel, LockInv, IdleInv, plat' = plat, NEW c \in CPUs,
           locks[Node(c, 1)] = None, node_local_state'[Node(c, 1)] = RUN, ~TurnsOff(c)',
           \A d \in CPUs : d # c => (Running(d)' <=> Running(d)) /\ (TurnsOff(d)' => TurnsOff(d)),
           \A d \in CPUs : node_local_state[Node(d, 1)] = RUN => node_local_state'[Node(d, 1)] = RUN
    PROVE  IdleInv'
<1> SUFFICES ASSUME ~plat.standby, ~plat.validate
             PROVE  /\ \A d \in CPUs : Running(d)' => node_local_state'[Node(d, 1)] = RUN
                    /\ \A d, e \in CPUs : TurnsOff(d)' /\ d # e /\ Node(e, 1) = Node(d, 1) => ~Running(e)'
    BY Zenon DEF IdleInv
<1>1. ASSUME NEW d \in CPUs, Running(d)' PROVE node_local_state'[Node(d, 1)] = RUN
    <2>1. CASE d = c
        BY <2>1, Zenon
    <2>2. CASE d # c
        <3>1. node_local_state[Node(d, 1)] = RUN
            BY <1>1, <2>2, Zenon DEF IdleInv
        <3> QED BY <3>1, Zenon
    <2> QED BY <2>1, <2>2, Zenon
<1>2. ASSUME NEW d \in CPUs, NEW e \in CPUs, TurnsOff(d)', d # e, Node(e, 1) = Node(d, 1)
      PROVE  ~Running(e)'
    <2>1. d # c /\ TurnsOff(d)
        BY <1>2, Zenon
    <2>2. locks[Node(d, 1)] = d /\ d # None
        <3>1. pc[d] \in Holding /\ end_pwrlvl[d] = 1
            BY <2>1 DEF TurnsOff, Holding
        <3>2. d # None
            BY OsiAssumption, Zenon DEF CPUs
        <3> QED BY <3>1, <3>2, Zenon DEF LockInv
    <2>3. e # c
        BY <1>2, <2>2, Zenon
    <2>4. ~Running(e)
        BY <1>2, <2>1, Zenon DEF IdleInv
    <2> QED BY <2>3, <2>4, Zenon
<1> QED BY <1>1, <1>2, Zenon

(* If the votes of a cluster add up to something deeper than RUN, none of  *)
(* the CPUs that did not just change its vote is running.                  *)
LEMMA VotedIdle ==
    ASSUME OneLevel, IInv, ~plat.validate, NEW c \in CPUs, NEW votes \in [{1} -> [CPUs -> States]],
           \A d \in CPUs : d # c => votes[1][d] = Vote(d),
           plat_get_target_pwr_state(votes, 1, Below(Node(c, 1))) # RUN
    PROVE  \A d \in CPUs : d # c /\ Node(d, 1) = Node(c, 1) => ~Running(d)
<1> SUFFICES ASSUME NEW d \in CPUs, d # c, Node(d, 1) = Node(c, 1), Running(d) PROVE FALSE
    BY Zenon
<1> DEFINE T == {votes[1][e] : e \in Below(Node(c, 1))}
<1>1. d \in Below(Node(c, 1)) /\ Below(Node(c, 1)) \subseteq CPUs
    BY BelowNode, Zenon
<1>2. T \in SUBSET States /\ votes[1][d] \in T
    BY <1>1
<1>3. Vote(d) = RUN
    BY Zenon DEF IInv, VoteOk
<1>4. votes[1][d] = RUN
    BY <1>3, Zenon
<1>5. Min(T) # RUN
    BY Zenon DEF plat_get_target_pwr_state
<1> HIDE DEF T
<1> QED BY <1>2, <1>4, <1>5, MinState, Zenon

(* Votes that add up are states.                                           *)
LEMMA TargetState ==
    ASSUME OneLevel, NEW c \in CPUs, NEW votes \in [{1} -> [CPUs -> States]]
    PROVE  plat_get_target_pwr_state(votes, 1, Below(Node(c, 1))) \in States
<1> DEFINE T == {votes[1][e] : e \in Below(Node(c, 1))}
<1>1. c \in Below(Node(c, 1)) /\ Below(Node(c, 1)) \subseteq CPUs
    BY BelowNode, Zenon
<1>2. T \in SUBSET States /\ T # {}
    BY <1>1
<1>3. plat_get_target_pwr_state(votes, 1, Below(Node(c, 1))) = Min(T)
    BY Zenon DEF plat_get_target_pwr_state
<1> HIDE DEF T
<1> QED BY <1>2, <1>3, MinState, Zenon

-----------------------------------------------------------------------------
(* The parts of the actions.                                               *)
LEMMA GoEffect ==
    ASSUME TypeInv, NEW c \in CPUs, NEW where \in Places, Go(c, where)
    PROVE  pc' \in [CPUs -> Places] /\ pc'[c] = where /\ \A d \in CPUs : d # c => pc'[d] = pc[d]
<1>1. pc \in [CPUs -> Places]
    BY Zenon DEF TypeInv
<1> QED BY <1>1, Zenon DEF Go

(* What the return to the normal world does to the locals.                 *)
LEMMA ReturnEffect ==
    ASSUME TypeInv, NEW c \in CPUs, Return(c)
    PROVE  /\ pc' \in [CPUs -> Places] /\ pc'[c] = "run" /\ \A d \in CPUs : d # c => pc'[d] = pc[d]
           /\ state_info' \in [CPUs -> Infos \cup {Unset}] /\ prev' \in [CPUs -> [{1} -> States] \cup {Unset}]
           /\ end_pwrlvl' \in [CPUs -> {0, 1}] /\ last_at_pwrlvl' \in [CPUs -> {0, 1}]
           /\ mode' \in [CPUs -> {PLAT_COORD, OS_INIT}]
           /\ \A d \in CPUs : d # c =>
                 /\ state_info'[d] = state_info[d] /\ prev'[d] = prev[d] /\ end_pwrlvl'[d] = end_pwrlvl[d]
                 /\ last_at_pwrlvl'[d] = last_at_pwrlvl[d] /\ mode'[d] = mode[d]
<1>1. "run" \in Places
    BY DEF Places
<1>2. Go(c, "run")
    BY Zenon DEF Return
<1>3. pc' \in [CPUs -> Places] /\ pc'[c] = "run" /\ \A d \in CPUs : d # c => pc'[d] = pc[d]
    BY <1>1, <1>2, GoEffect, Zenon
<1>4. /\ state_info \in [CPUs -> Infos \cup {Unset}] /\ prev \in [CPUs -> [{1} -> States] \cup {Unset}]
      /\ end_pwrlvl \in [CPUs -> {0, 1}] /\ last_at_pwrlvl \in [CPUs -> {0, 1}]
      /\ mode \in [CPUs -> {PLAT_COORD, OS_INIT}]
    BY Zenon DEF TypeInv
<1>5. /\ state_info' = [state_info EXCEPT ![c] = Unset] /\ prev' = [prev EXCEPT ![c] = Unset]
      /\ end_pwrlvl' = [end_pwrlvl EXCEPT ![c] = 0] /\ last_at_pwrlvl' = [last_at_pwrlvl EXCEPT ![c] = 0]
      /\ mode' = [mode EXCEPT ![c] = PLAT_COORD]
    BY Zenon DEF Return
<1>6. \A d \in CPUs : d # c =>
         /\ state_info'[d] = state_info[d] /\ prev'[d] = prev[d] /\ end_pwrlvl'[d] = end_pwrlvl[d]
         /\ last_at_pwrlvl'[d] = last_at_pwrlvl[d] /\ mode'[d] = mode[d]
    BY <1>4, <1>5, Zenon
<1>7. state_info' \in [CPUs -> Infos \cup {Unset}] /\ prev' \in [CPUs -> [{1} -> States] \cup {Unset}]
    BY <1>4, <1>5, Zenon
<1>8. /\ end_pwrlvl' \in [CPUs -> {0, 1}] /\ last_at_pwrlvl' \in [CPUs -> {0, 1}]
      /\ mode' \in [CPUs -> {PLAT_COORD, OS_INIT}]
    BY <1>4, <1>5, Zenon
<1> QED BY <1>3, <1>6, <1>7, <1>8, Zenon

(* What writing the votes of one CPU does.                                 *)
LEMMA SetVotesEffect ==
    ASSUME OneLevel, TypeInv, NEW c \in CPUs, NEW v \in [{1} -> States], SetVotes(c, v)
    PROVE  /\ req_local_pwr_states' \in [{1} -> [CPUs -> States]]
           /\ Vote(c)' = v[1] /\ \A d \in CPUs : d # c => Vote(d)' = Vote(d)
<1>1. req_local_pwr_states \in [{1} -> [CPUs -> States]]
    BY Zenon DEF TypeInv
<1>2. req_local_pwr_states' = [l \in {1} |-> [req_local_pwr_states[l] EXCEPT ![c] = v[l]]]
    BY OneLevelFacts, Zenon DEF SetVotes
<1>3. req_local_pwr_states'[1] = [req_local_pwr_states[1] EXCEPT ![c] = v[1]]
    BY <1>2, Zenon
<1>4. req_local_pwr_states[1] \in [CPUs -> States] /\ v[1] \in States
    BY <1>1, Zenon
<1>5. req_local_pwr_states'[1] \in [CPUs -> States]
    BY <1>3, <1>4, Zenon
<1>6. req_local_pwr_states' \in [{1} -> [CPUs -> States]]
    BY <1>2, <1>3, <1>5
<1> QED BY <1>3, <1>4, <1>6, Zenon DEF Vote

(* What psci_set_pwr_domains_to_run does on the way up.                    *)
LEMMA ToRunEffect ==
    ASSUME OneLevel, TypeInv, NEW c \in CPUs, SetToRun(c, 1)
    PROVE  /\ locks[Node(c, 1)] = None
           /\ node_local_state' \in [Nodes -> States] /\ node_local_state'[Node(c, 1)] = RUN
           /\ \A n \in Nodes : node_local_state[n] = RUN => node_local_state'[n] = RUN
           /\ req_local_pwr_states' \in [{1} -> [CPUs -> States]]
           /\ Vote(c)' = RUN /\ \A d \in CPUs : d # c => Vote(d)' = Vote(d)
           /\ cpu_local_state' \in [CPUs -> States] /\ cpu_local_state'[c] = RUN
           /\ \A d \in CPUs : d # c => cpu_local_state'[d] = cpu_local_state[d]
           /\ aff_info_state' = [aff_info_state EXCEPT ![c] = "ON"]
<1>1. 1 .. 1 = {1} /\ 1 <= 1
    OBVIOUS
<1>2. RUN \in States
    BY DEF States
<1>3. /\ req_local_pwr_states \in [{1} -> [CPUs -> States]] /\ node_local_state \in [Nodes -> States]
      /\ cpu_local_state \in [CPUs -> States]
    BY Zenon DEF TypeInv
<1>4. locks[Node(c, 1)] = None
    BY <1>1, Zenon DEF SetToRun, Free
<1>5. node_local_state' = [n \in Nodes |-> IF n = Node(c, 1) THEN RUN ELSE node_local_state[n]]
    BY <1>1, Zenon DEF SetToRun
<1>6. /\ node_local_state' \in [Nodes -> States]
      /\ \A n \in Nodes : node_local_state[n] = RUN => node_local_state'[n] = RUN
    BY <1>2, <1>3, <1>5, Zenon
<1>7. node_local_state'[Node(c, 1)] = RUN
    BY <1>5, NodeFacts, Zenon
<1>8. req_local_pwr_states' = [l \in {1} |->
         IF l <= 1 THEN [req_local_pwr_states[l] EXCEPT ![c] = RUN] ELSE req_local_pwr_states[l]]
    BY OneLevelFacts, Zenon DEF SetToRun
<1>9. req_local_pwr_states'[1] = [req_local_pwr_states[1] EXCEPT ![c] = RUN]
    BY <1>1, <1>8, Zenon
<1>10. req_local_pwr_states[1] \in [CPUs -> States]
    BY <1>3, Zenon
<1>11. req_local_pwr_states'[1] \in [CPUs -> States]
    BY <1>2, <1>9, <1>10, Zenon
<1>12. req_local_pwr_states' \in [{1} -> [CPUs -> States]]
    BY <1>8, <1>9, <1>11
<1>13. Vote(c)' = RUN /\ \A d \in CPUs : d # c => Vote(d)' = Vote(d)
    BY <1>9, <1>10, Zenon DEF Vote
<1>14. cpu_local_state' = [cpu_local_state EXCEPT ![c] = RUN]
    BY Zenon DEF SetToRun
<1>15. /\ cpu_local_state' \in [CPUs -> States] /\ cpu_local_state'[c] = RUN
       /\ \A d \in CPUs : d # c => cpu_local_state'[d] = cpu_local_state[d]
    BY <1>2, <1>3, <1>14, Zenon
<1> QED BY <1>4, <1>6, <1>7, <1>12, <1>13, <1>15, Zenon DEF SetToRun

-----------------------------------------------------------------------------
(* A step of one CPU keeps the invariant if it keeps the parts that are    *)
(* not about the other CPUs.                                               *)
LEMMA OthersSame ==
    ASSUME NEW c \in CPUs, Others(c)
    PROVE  \A d \in CPUs : d # c =>
             /\ pc'[d] = pc[d] /\ end_pwrlvl'[d] = end_pwrlvl[d]
             /\ Running(d)' <=> Running(d)
             /\ TurnsOff(d)' <=> TurnsOff(d)
BY Zenon DEF Others, Untouched, Running, TurnsOff

(* A step of c that keeps the parts of the invariant keeps it all.         *)
LEMMA Assemble ==
    ASSUME IInv, NEW c \in CPUs, Others(c), plat' = plat,
           psci_suspend_mode' = psci_suspend_mode \/ ~plat.standby,
           TypeInv', AffInv', LockInv', IdleInv', RequestOk(c)', VoteOk(c)'
    PROVE  IInv'
<1>1. ASSUME NEW d \in CPUs PROVE RequestOk(d)' /\ VoteOk(d)'
    <2>1. CASE d = c
        BY <2>1, Zenon
    <2>2. CASE d # c
        <3>1. RequestOk(d) /\ VoteOk(d) /\ Untouched(d)
            BY <2>2, Zenon DEF IInv, Others
        <3> QED BY <3>1, Frame, Zenon
    <2> QED BY <2>1, <2>2, Zenon
<1> QED BY <1>1, Zenon DEF IInv

(* A step that turns no CPU on or off keeps the affinity states.           *)
LEMMA KeepAff ==
    ASSUME AffInv, NEW c \in CPUs, Others(c), aff_info_state' = aff_info_state,
           pc[c] # "off", pc'[c] # "off"
    PROVE  AffInv'
<1>1. \A d \in CPUs : pc'[d] = "off" <=> pc[d] = "off"
    BY OthersSame, Zenon
<1> QED BY <1>1, Zenon DEF AffInv

(* A CPU that is back in the normal world.                                 *)
LEMMA BackRunning ==
    ASSUME NEW c \in CPUs, pc'[c] = "run", cpu_local_state'[c] = RUN, ~plat'.validate => Vote(c)' = RUN
    PROVE  RequestOk(c)' /\ VoteOk(c)'
<1>1. RequestOk(c)'
    BY DEF RequestOk, Holding
<1>2. VoteOk(c)'
    BY DEF VoteOk
<1> QED BY <1>1, <1>2, Zenon

(* The votes a CPU remembers are set, and hold its present vote.           *)
LEMMA VotesFacts ==
    ASSUME OneLevel, TypeInv, NEW c \in CPUs
    PROVE  /\ Votes(c) \in [{1} -> States] /\ Votes(c)[1] = Vote(c)
           /\ \A v \in [{1} -> States] : v # Unset
<1>1. Votes(c) = [l \in {1} |-> req_local_pwr_states[l][c]]
    BY OneLevelFacts, Zenon DEF Votes
<1>2. req_local_pwr_states \in [{1} -> [CPUs -> States]]
    BY Zenon DEF TypeInv
<1>3. \A v \in [{1} -> States] : v # Unset
    BY DEF Unset
<1> QED BY <1>1, <1>2, <1>3 DEF Vote

-----------------------------------------------------------------------------
(* The standby fast path.                                                  *)
LEMMA EnterStandbyStep ==
    ASSUME OneLevel, IInv, NEW c \in CPUs, plat' = plat, NEW s \in Requests, EnterStandby(c, s)
    PROVE  IInv'
<1>1. /\ plat.standby /\ pc[c] = "run" /\ Go(c, "standby")
      /\ cpu_local_state' = [cpu_local_state EXCEPT ![c] = s[0]]
      /\ psci_suspend_mode' = psci_suspend_mode /\ node_local_state' = node_local_state
      /\ aff_info_state' = aff_info_state /\ locks' = locks /\ state_info' = state_info
      /\ end_pwrlvl' = end_pwrlvl /\ last_at_pwrlvl' = last_at_pwrlvl /\ mode' = mode
    BY Zenon DEF EnterStandby, request
<1>2. TypeInv
    BY Zenon DEF IInv
<1>3. pc' \in [CPUs -> Places] /\ pc'[c] = "standby" /\ \A d \in CPUs : d # c => pc'[d] = pc[d]
    <2>1. "standby" \in Places
        BY DEF Places
    <2> QED BY <1>1, <1>2, <2>1, GoEffect, Zenon
<1>4. /\ s \in Infos /\ s[0] \in States
    BY RequestLevel DEF Infos
<1>5. /\ cpu_local_state' \in [CPUs -> States]
      /\ \A d \in CPUs : d # c => cpu_local_state'[d] = cpu_local_state[d]
    BY <1>1, <1>2, <1>4, Zenon DEF TypeInv
<1>6. prev \in [CPUs -> [{1} -> States] \cup {Unset}]
    BY <1>2, Zenon DEF TypeInv
<1>7. ~plat.validate => Vote(c) = RUN
    BY <1>1 DEF IInv, VoteOk, Running
<1>8. /\ req_local_pwr_states' \in [{1} -> [CPUs -> States]] /\ \A d \in CPUs : d # c => Vote(d)' = Vote(d)
      /\ prev' \in [CPUs -> [{1} -> States] \cup {Unset}] /\ \A d \in CPUs : d # c => prev'[d] = prev[d]
      /\ ~plat.validate => IF psci_suspend_mode = OS_INIT THEN prev'[c] # Unset /\ prev'[c][1] = RUN ELSE Vote(c)' = RUN
    <2>1. CASE psci_suspend_mode = OS_INIT
        <3>1. prev' = [prev EXCEPT ![c] = Votes(c)] /\ SetVotes(c, psci_update_req_local_pwr_states(c, s))
            BY <2>1, Zenon DEF EnterStandby
        <3>2. psci_update_req_local_pwr_states(c, s) \in [{1} -> States]
            BY <1>4, RequestLevel, RequestVotes, Zenon
        <3>3. /\ req_local_pwr_states' \in [{1} -> [CPUs -> States]] /\ \A d \in CPUs : d # c => Vote(d)' = Vote(d)
            BY <1>2, <3>1, <3>2, SetVotesEffect, Zenon
        <3>4. Votes(c) \in [{1} -> States] /\ Votes(c)[1] = Vote(c) /\ Votes(c) # Unset
            BY <1>2, VotesFacts, Zenon
        <3>5. /\ prev' \in [CPUs -> [{1} -> States] \cup {Unset}] /\ prev'[c] = Votes(c)
              /\ \A d \in CPUs : d # c => prev'[d] = prev[d]
            BY <1>6, <3>1, <3>4, Zenon
        <3> QED BY <1>7, <2>1, <3>3, <3>4, <3>5, Zenon
    <2>2. CASE psci_suspend_mode # OS_INIT
        <3>1. prev' = [prev EXCEPT ![c] = Unset] /\ req_local_pwr_states' = req_local_pwr_states
            BY <2>2, Zenon DEF EnterStandby
        <3>2. prev' \in [CPUs -> [{1} -> States] \cup {Unset}] /\ \A d \in CPUs : d # c => prev'[d] = prev[d]
            BY <1>6, <3>1, Zenon
        <3>3. req_local_pwr_states' \in [{1} -> [CPUs -> States]] /\ \A d \in CPUs : Vote(d)' = Vote(d)
            BY <1>2, <3>1, Zenon DEF TypeInv, Vote
        <3> QED BY <1>7, <2>2, <3>2, <3>3, Zenon
    <2> QED BY <2>1, <2>2, Zenon
<1>9. TypeInv'
    BY <1>1, <1>2, <1>3, <1>5, <1>8, Zenon DEF TypeInv
<1>10. Others(c)
    BY <1>1, <1>3, <1>5, <1>8, Zenon DEF Others, Untouched
<1>11. RequestOk(c)'
    BY <1>1, <1>3 DEF RequestOk, Holding
<1>12. VoteOk(c)'
    BY <1>1, <1>3, <1>8 DEF VoteOk, Running
<1>13. LockInv'
    <2>1. \A d \in CPUs : pc'[d] \in Holding <=> pc[d] \in Holding
        BY <1>1, <1>3 DEF Holding
    <2> QED BY <1>1, <1>2, <2>1, KeepLocks, Zenon DEF IInv
<1>14. IdleInv'
    BY <1>1, Zenon DEF IdleInv
<1>15. AffInv'
    BY <1>1, <1>3, <1>10, KeepAff DEF IInv
<1> QED BY <1>1, <1>9, <1>10, <1>11, <1>12, <1>13, <1>14, <1>15, Assemble, Zenon

(* The wake-up from CPU standby,                                           *)
LEMMA ExitStandbyStep ==
    ASSUME OneLevel, IInv, NEW c \in CPUs, plat' = plat, ExitStandby(c)
    PROVE  IInv'
<1>1. /\ pc[c] = "standby" /\ Go(c, "restore")
      /\ cpu_local_state' = [cpu_local_state EXCEPT ![c] = RUN]
      /\ psci_suspend_mode' = psci_suspend_mode /\ node_local_state' = node_local_state
      /\ aff_info_state' = aff_info_state /\ locks' = locks /\ state_info' = state_info
      /\ end_pwrlvl' = end_pwrlvl /\ last_at_pwrlvl' = last_at_pwrlvl /\ mode' = mode
      /\ prev' = prev /\ req_local_pwr_states' = req_local_pwr_states
    BY Zenon DEF ExitStandby, request
<1>2. TypeInv
    BY Zenon DEF IInv
<1>3. pc' \in [CPUs -> Places] /\ pc'[c] = "restore" /\ \A d \in CPUs : d # c => pc'[d] = pc[d]
    <2>1. "restore" \in Places
        BY DEF Places
    <2> QED BY <1>1, <1>2, <2>1, GoEffect, Zenon
<1>4. plat.standby
    BY <1>1 DEF IInv, RequestOk
<1>5. /\ cpu_local_state' \in [CPUs -> States] /\ cpu_local_state'[c] = RUN
      /\ \A d \in CPUs : d # c => cpu_local_state'[d] = cpu_local_state[d]
    <2>1. RUN \in States
        BY DEF States
    <2> QED BY <1>1, <1>2, <2>1, Zenon DEF TypeInv
<1>6. TypeInv'
    BY <1>1, <1>2, <1>3, <1>5, Zenon DEF TypeInv
<1>7. Others(c)
    BY <1>1, <1>3, <1>5, Zenon DEF Others, Untouched, Vote
<1>8. RequestOk(c)'
    BY <1>3, <1>4, <1>5 DEF RequestOk, Holding
<1>9. VoteOk(c)'
    <2>1. VoteOk(c)
        BY Zenon DEF IInv
    <2>2. Vote(c)' = Vote(c)
        BY <1>1, Zenon DEF Vote
    <2> QED BY <1>1, <1>3, <2>1, <2>2 DEF VoteOk, Running
<1>10. LockInv'
    <2>1. \A d \in CPUs : pc'[d] \in Holding <=> pc[d] \in Holding
        BY <1>1, <1>3 DEF Holding
    <2> QED BY <1>1, <1>2, <2>1, KeepLocks, Zenon DEF IInv
<1>11. IdleInv'
    BY <1>4, Zenon DEF IdleInv
<1>12. AffInv'
    BY <1>1, <1>3, <1>7, KeepAff DEF IInv
<1> QED BY <1>1, <1>6, <1>7, <1>8, <1>9, <1>10, <1>11, <1>12, Assemble, Zenon

(* and the restoration of the votes after it.                              *)
LEMMA RestoreVotesStep ==
    ASSUME OneLevel, IInv, NEW c \in CPUs, plat' = plat, RestoreVotes(c)
    PROVE  IInv'
<1>1. /\ pc[c] = "restore" /\ Return(c)
      /\ psci_suspend_mode' = psci_suspend_mode /\ cpu_local_state' = cpu_local_state
      /\ node_local_state' = node_local_state /\ aff_info_state' = aff_info_state /\ locks' = locks
    BY Zenon DEF RestoreVotes
<1>2. TypeInv
    BY Zenon DEF IInv
<1>3. /\ pc' \in [CPUs -> Places] /\ pc'[c] = "run" /\ \A d \in CPUs : d # c => pc'[d] = pc[d]
      /\ state_info' \in [CPUs -> Infos \cup {Unset}] /\ prev' \in [CPUs -> [{1} -> States] \cup {Unset}]
      /\ end_pwrlvl' \in [CPUs -> {0, 1}] /\ last_at_pwrlvl' \in [CPUs -> {0, 1}]
      /\ mode' \in [CPUs -> {PLAT_COORD, OS_INIT}]
      /\ \A d \in CPUs : d # c =>
            /\ state_info'[d] = state_info[d] /\ prev'[d] = prev[d] /\ end_pwrlvl'[d] = end_pwrlvl[d]
            /\ last_at_pwrlvl'[d] = last_at_pwrlvl[d] /\ mode'[d] = mode[d]
    BY <1>1, <1>2, ReturnEffect, Zenon
<1>4. plat.standby /\ cpu_local_state[c] = RUN /\ VoteOk(c)
    BY <1>1 DEF IInv, RequestOk
<1>5. /\ req_local_pwr_states' \in [{1} -> [CPUs -> States]] /\ \A d \in CPUs : d # c => Vote(d)' = Vote(d)
      /\ ~plat.validate => Vote(c)' = RUN
    <2>1. CASE psci_suspend_mode # OS_INIT
        <3>1. req_local_pwr_states' = req_local_pwr_states
            BY <2>1, Zenon DEF RestoreVotes
        <3>2. ~plat.validate => Vote(c) = RUN
            BY <1>1, <1>4, <2>1 DEF VoteOk
        <3> QED BY <1>2, <3>1, <3>2, Zenon DEF TypeInv, Vote
    <2>2. CASE psci_suspend_mode = OS_INIT
        <3>1. PICK v \in (IF prev[c] = Unset THEN [Levels -> States] ELSE {prev[c]}) : SetVotes(c, v)
            BY <2>2, Zenon DEF RestoreVotes
        <3>2. prev[c] \in [{1} -> States] \cup {Unset}
            BY <1>2, Zenon DEF TypeInv
        <3>3. v \in [{1} -> States]
            BY <3>1, <3>2, OneLevelFacts, Zenon
        <3>4. ~plat.validate => prev[c] # Unset /\ prev[c][1] = RUN
            BY <1>1, <1>4, <2>2 DEF VoteOk
        <3>5. ~plat.validate => v[1] = RUN
            BY <3>1, <3>4, Zenon
        <3> QED BY <1>2, <3>1, <3>3, <3>5, SetVotesEffect, Zenon
    <2> QED BY <2>1, <2>2, Zenon
<1>6. TypeInv'
    BY <1>1, <1>2, <1>3, <1>5, Zenon DEF TypeInv
<1>7. Others(c)
    BY <1>1, <1>3, <1>5, Zenon DEF Others, Untouched
<1>8. RequestOk(c)' /\ VoteOk(c)'
    BY <1>1, <1>3, <1>4, <1>5, BackRunning, Zenon
<1>9. LockInv'
    <2>1. \A d \in CPUs : (pc'[d] \in Holding <=> pc[d] \in Holding) /\ (pc[d] \in Holding => d # c)
        BY <1>1, <1>3 DEF Holding
    <2> QED BY <1>1, <1>2, <1>3, <2>1, KeepLocks, Zenon DEF IInv
<1>10. IdleInv'
    BY <1>4, Zenon DEF IdleInv
<1>11. AffInv'
    BY <1>1, <1>3, <1>7, KeepAff DEF IInv
<1> QED BY <1>1, <1>6, <1>7, <1>8, <1>9, <1>10, <1>11, Assemble, Zenon

-----------------------------------------------------------------------------
(* A step that records no cluster as idle.                                 *)
LEMMA SameNodes ==
    ASSUME IInv, NEW c \in CPUs, Others(c), plat' = plat, node_local_state' = node_local_state,
           Running(c)' => Running(c),
           ~plat.validate /\ TurnsOff(c)' =>
               \A d \in CPUs : d # c /\ Node(d, 1) = Node(c, 1) => ~Running(d)
    PROVE  IdleInv'
<1> SUFFICES ASSUME ~plat.standby, ~plat.validate
             PROVE  /\ \A d \in CPUs : Running(d)' => node_local_state'[Node(d, 1)] = RUN
                    /\ \A d, e \in CPUs : TurnsOff(d)' /\ d # e /\ Node(e, 1) = Node(d, 1) => ~Running(e)'
    BY Zenon DEF IdleInv
<1>1. \A d \in CPUs : Running(d)' => Running(d)
    BY OthersSame, Zenon
<1>2. IdleInv
    BY Zenon DEF IInv
<1>3. \A d \in CPUs : Running(d)' => node_local_state'[Node(d, 1)] = RUN
    BY <1>1, <1>2, Zenon DEF IdleInv
<1>4. ASSUME NEW d \in CPUs, NEW e \in CPUs, TurnsOff(d)', d # e, Node(e, 1) = Node(d, 1)
      PROVE  ~Running(e)'
    <2>1. CASE d = c
        BY <1>1, <1>4, <2>1, Zenon
    <2>2. CASE d # c
        <3>1. TurnsOff(d)
            BY <1>4, <2>2, OthersSame, Zenon
        <3> QED BY <1>1, <1>2, <1>4, <3>1, Zenon DEF IdleInv
    <2> QED BY <2>1, <2>2, Zenon
<1> QED BY <1>3, <1>4, Zenon

(* PSCI_SET_SUSPEND_MODE.                                                  *)
LEMMA SetModeStep ==
    ASSUME OneLevel, Steady(plat), IInv, NEW c \in CPUs, plat' = plat, NEW m \in plat.modes,
           psci_set_suspend_mode(c, m)
    PROVE  IInv'
<1>1. /\ pc[c] = "run" /\ Go(c, "setmode") /\ m # psci_suspend_mode /\ mode' = [mode EXCEPT ![c] = m]
      /\ psci_suspend_mode' = psci_suspend_mode /\ cpu_local_state' = cpu_local_state
      /\ node_local_state' = node_local_state /\ req_local_pwr_states' = req_local_pwr_states
      /\ aff_info_state' = aff_info_state /\ locks' = locks /\ state_info' = state_info
      /\ end_pwrlvl' = end_pwrlvl /\ last_at_pwrlvl' = last_at_pwrlvl /\ prev' = prev
    BY Zenon DEF psci_set_suspend_mode, data, request
<1>2. TypeInv
    BY Zenon DEF IInv
<1>3. pc' \in [CPUs -> Places] /\ pc'[c] = "setmode" /\ \A d \in CPUs : d # c => pc'[d] = pc[d]
    <2>1. "setmode" \in Places
        BY DEF Places
    <2> QED BY <1>1, <1>2, <2>1, GoEffect, Zenon
<1>4. ~plat.standby /\ m \in {PLAT_COORD, OS_INIT}
    BY <1>1, <1>2, ModeSwitch, Zenon
<1>5. /\ mode' \in [CPUs -> {PLAT_COORD, OS_INIT}] /\ mode'[c] = m
      /\ \A d \in CPUs : d # c => mode'[d] = mode[d]
    BY <1>1, <1>2, <1>4, Zenon DEF TypeInv
<1>6. TypeInv'
    BY <1>1, <1>2, <1>3, <1>5, Zenon DEF TypeInv
<1>7. Others(c)
    BY <1>1, <1>3, <1>5, Zenon DEF Others, Untouched, Vote
<1>8. cpu_local_state[c] = RUN /\ Running(c) /\ (~plat.validate => Vote(c) = RUN)
    BY <1>1 DEF IInv, RequestOk, VoteOk, Running
<1>9. RequestOk(c)'
    BY <1>1, <1>3, <1>4, <1>5, <1>8 DEF RequestOk, Holding
<1>10. VoteOk(c)'
    <2>1. Vote(c)' = Vote(c)
        BY <1>1, Zenon DEF Vote
    <2> QED BY <1>3, <1>8, <2>1 DEF VoteOk
<1>11. LockInv'
    <2>1. \A d \in CPUs : pc'[d] \in Holding <=> pc[d] \in Holding
        BY <1>1, <1>3 DEF Holding
    <2> QED BY <1>1, <1>2, <2>1, KeepLocks, Zenon DEF IInv
<1>12. IdleInv'
    <2>1. ~TurnsOff(c)'
        BY <1>3 DEF TurnsOff
    <2> QED BY <1>1, <1>7, <1>8, <2>1, SameNodes, Zenon
<1>13. AffInv'
    BY <1>1, <1>3, <1>7, KeepAff DEF IInv
<1> QED BY <1>1, <1>6, <1>7, <1>9, <1>10, <1>11, <1>12, <1>13, Assemble, Zenon

(* The write of the suspend mode, after the locks are released.            *)
LEMMA WriteModeStep ==
    ASSUME OneLevel, IInv, NEW c \in CPUs, plat' = plat, WriteMode(c)
    PROVE  IInv'
<1>1. /\ pc[c] = "setmode" /\ Return(c) /\ psci_suspend_mode' = mode[c]
      /\ cpu_local_state' = cpu_local_state
      /\ node_local_state' = node_local_state /\ req_local_pwr_states' = req_local_pwr_states
      /\ aff_info_state' = aff_info_state /\ locks' = locks
    BY Zenon DEF WriteMode, data
<1>2. TypeInv
    BY Zenon DEF IInv
<1>3. /\ pc' \in [CPUs -> Places] /\ pc'[c] = "run" /\ \A d \in CPUs : d # c => pc'[d] = pc[d]
      /\ state_info' \in [CPUs -> Infos \cup {Unset}] /\ prev' \in [CPUs -> [{1} -> States] \cup {Unset}]
      /\ end_pwrlvl' \in [CPUs -> {0, 1}] /\ last_at_pwrlvl' \in [CPUs -> {0, 1}]
      /\ mode' \in [CPUs -> {PLAT_COORD, OS_INIT}]
      /\ \A d \in CPUs : d # c =>
            /\ state_info'[d] = state_info[d] /\ prev'[d] = prev[d] /\ end_pwrlvl'[d] = end_pwrlvl[d]
            /\ last_at_pwrlvl'[d] = last_at_pwrlvl[d] /\ mode'[d] = mode[d]
    BY <1>1, <1>2, ReturnEffect, Zenon
<1>4. /\ cpu_local_state[c] = RUN /\ Running(c) /\ (~plat.validate => Vote(c) = RUN)
      /\ mode[c] \in plat.modes /\ ~plat.standby
    BY <1>1 DEF IInv, RequestOk, VoteOk, Running
<1>5. \A d \in CPUs : Vote(d)' = Vote(d)
    BY <1>1, Zenon DEF Vote
<1>6. TypeInv'
    BY <1>1, <1>2, <1>3, <1>4, Zenon DEF TypeInv
<1>7. Others(c)
    BY <1>1, <1>3, <1>5, Zenon DEF Others, Untouched
<1>8. RequestOk(c)' /\ VoteOk(c)'
    BY <1>1, <1>3, <1>4, <1>5, BackRunning, Zenon
<1>9. LockInv'
    <2>1. \A d \in CPUs : (pc'[d] \in Holding <=> pc[d] \in Holding) /\ (pc[d] \in Holding => d # c)
        BY <1>1, <1>3 DEF Holding
    <2> QED BY <1>1, <1>2, <1>3, <2>1, KeepLocks, Zenon DEF IInv
<1>10. IdleInv'
    <2>1. ~TurnsOff(c)'
        BY <1>3 DEF TurnsOff
    <2> QED BY <1>1, <1>4, <1>7, <2>1, SameNodes, Zenon
<1>11. AffInv'
    BY <1>1, <1>3, <1>7, KeepAff DEF IInv
<1> QED BY <1>4, <1>6, <1>7, <1>8, <1>9, <1>10, <1>11, Assemble, Zenon

-----------------------------------------------------------------------------
(* psci_cpu_suspend_start up to the decision.                              *)
LEMMA StartStep ==
    ASSUME OneLevel, IInv, NEW c \in CPUs, plat' = plat, NEW s \in Requests, psci_cpu_suspend_start(c, s)
    PROVE  IInv'
<1> DEFINE lvl == psci_find_target_suspend_lvl(s)
<1>1. /\ pc[c] = "run" /\ ~IsStandby(s) /\ Go(c, "locked") /\ Acquire(c, lvl)
      /\ state_info' = [state_info EXCEPT ![c] = s] /\ end_pwrlvl' = [end_pwrlvl EXCEPT ![c] = lvl]
      /\ plat.truthful => last_at_pwrlvl'[c] = end_pwrlvl'[c]
      /\ prev' = [prev EXCEPT ![c] = Votes(c)] /\ mode' = mode
      /\ psci_suspend_mode' = psci_suspend_mode /\ cpu_local_state' = cpu_local_state
      /\ node_local_state' = node_local_state /\ req_local_pwr_states' = req_local_pwr_states
      /\ aff_info_state' = aff_info_state
    BY Zenon DEF psci_cpu_suspend_start, data
<1>2. PICK k \in {0, 1} : last_at_pwrlvl' = [last_at_pwrlvl EXCEPT ![c] = k]
    BY OneLevelFacts, Zenon DEF psci_cpu_suspend_start
<1>3. TypeInv
    BY Zenon DEF IInv
<1>4. pc' \in [CPUs -> Places] /\ pc'[c] = "locked" /\ \A d \in CPUs : d # c => pc'[d] = pc[d]
    <2>1. "locked" \in Places
        BY DEF Places
    <2> QED BY <1>1, <1>3, <2>1, GoEffect, Zenon
<1>5. s \in Infos /\ s[0] # RUN /\ lvl \in {0, 1} /\ (lvl = 1 => s[1] # RUN) /\ (lvl = 0 => s[0] = OFF)
    BY <1>1, RequestLevel, NoStandby, Zenon
<1> HIDE DEF lvl
<1>6. Votes(c) \in [{1} -> States]
    BY <1>3, VotesFacts, Zenon
<1>7. /\ state_info \in [CPUs -> Infos \cup {Unset}] /\ prev \in [CPUs -> [{1} -> States] \cup {Unset}]
      /\ end_pwrlvl \in [CPUs -> {0, 1}] /\ last_at_pwrlvl \in [CPUs -> {0, 1}]
    BY <1>3, Zenon DEF TypeInv
<1>8. /\ state_info' \in [CPUs -> Infos \cup {Unset}] /\ prev' \in [CPUs -> [{1} -> States] \cup {Unset}]
      /\ state_info'[c] = s
    BY <1>1, <1>5, <1>6, <1>7, Zenon
<1>9. end_pwrlvl' \in [CPUs -> {0, 1}] /\ last_at_pwrlvl' \in [CPUs -> {0, 1}] /\ end_pwrlvl'[c] = lvl
    BY <1>1, <1>2, <1>5, <1>7, Zenon
<1>10. \A d \in CPUs : d # c => /\ state_info'[d] = state_info[d] /\ prev'[d] = prev[d]
                                 /\ end_pwrlvl'[d] = end_pwrlvl[d] /\ last_at_pwrlvl'[d] = last_at_pwrlvl[d]
    BY <1>1, <1>2, <1>7, Zenon
<1>11. LockInv' /\ locks' \in [Nodes -> CPUs \cup {None}]
    <2>1. pc[c] \notin Holding /\ pc'[c] \in Holding
        BY <1>1, <1>4 DEF Holding
    <2>2. LockInv
        BY Zenon DEF IInv
    <2>3. \A d \in CPUs : d # c => pc'[d] = pc[d] /\ end_pwrlvl'[d] = end_pwrlvl[d]
        BY <1>4, <1>10, Zenon
    <2>4. Acquire(c, lvl) /\ end_pwrlvl'[c] = lvl
        BY <1>1, <1>9, Zenon
    <2> QED BY <1>3, <1>5, <2>1, <2>2, <2>3, <2>4, AcquireLocks, Zenon
<1>12. TypeInv'
    BY <1>1, <1>3, <1>4, <1>8, <1>9, <1>11, Zenon DEF TypeInv
<1>13. Others(c)
    BY <1>1, <1>4, <1>10, Zenon DEF Others, Untouched, Vote
<1>14. cpu_local_state[c] = RUN /\ Running(c) /\ (~plat.validate => Vote(c) = RUN)
    BY <1>1 DEF IInv, RequestOk, VoteOk, Running
<1>15. RequestOk(c)'
    BY <1>1, <1>4, <1>5, <1>8, <1>9, <1>14 DEF RequestOk, Holding
<1>16. VoteOk(c)'
    <2>1. Vote(c)' = Vote(c)
        BY <1>1, Zenon DEF Vote
    <2> QED BY <1>4, <1>14, <2>1 DEF VoteOk
<1>17. IdleInv'
    <2>1. ~TurnsOff(c)'
        BY <1>4 DEF TurnsOff
    <2> QED BY <1>1, <1>13, <1>14, <2>1, SameNodes, Zenon
<1>18. AffInv'
    BY <1>1, <1>4, <1>13, KeepAff DEF IInv
<1> QED BY <1>1, <1>11, <1>12, <1>13, <1>15, <1>16, <1>17, <1>18, Assemble, Zenon

(* A request that ends without being granted.                              *)
LEMMA GiveUpStep ==
    ASSUME OneLevel, IInv, NEW c \in CPUs, plat' = plat, PendingInterrupt(c) \/ Denied(c)
    PROVE  IInv'
<1>1. /\ pc[c] \in {"locked", "denied"} /\ Return(c) /\ Release(c)
      /\ psci_suspend_mode' = psci_suspend_mode /\ cpu_local_state' = cpu_local_state
      /\ node_local_state' = node_local_state /\ req_local_pwr_states' = req_local_pwr_states
      /\ aff_info_state' = aff_info_state
    BY Zenon DEF PendingInterrupt, Denied, data
<1>2. TypeInv
    BY Zenon DEF IInv
<1>3. /\ pc' \in [CPUs -> Places] /\ pc'[c] = "run" /\ \A d \in CPUs : d # c => pc'[d] = pc[d]
      /\ state_info' \in [CPUs -> Infos \cup {Unset}] /\ prev' \in [CPUs -> [{1} -> States] \cup {Unset}]
      /\ end_pwrlvl' \in [CPUs -> {0, 1}] /\ last_at_pwrlvl' \in [CPUs -> {0, 1}]
      /\ mode' \in [CPUs -> {PLAT_COORD, OS_INIT}]
      /\ \A d \in CPUs : d # c =>
            /\ state_info'[d] = state_info[d] /\ prev'[d] = prev[d] /\ end_pwrlvl'[d] = end_pwrlvl[d]
            /\ last_at_pwrlvl'[d] = last_at_pwrlvl[d] /\ mode'[d] = mode[d]
    BY <1>1, <1>2, ReturnEffect, Zenon
<1>4. cpu_local_state[c] = RUN /\ Running(c) /\ (~plat.validate => Vote(c) = RUN)
    BY <1>1 DEF IInv, RequestOk, VoteOk, Running, Holding
<1>5. \A d \in CPUs : Vote(d)' = Vote(d)
    BY <1>1, Zenon DEF Vote
<1>6. LockInv' /\ locks' \in [Nodes -> CPUs \cup {None}]
    <2>1. pc'[c] \notin Holding
        BY <1>3 DEF Holding
    <2>2. LockInv
        BY Zenon DEF IInv
    <2>3. \A d \in CPUs : d # c => pc'[d] = pc[d] /\ end_pwrlvl'[d] = end_pwrlvl[d]
        BY <1>3, Zenon
    <2>4. Release(c)
        BY <1>1, Zenon
    <2> QED BY <1>2, <2>1, <2>2, <2>3, <2>4, ReleaseLocks, Zenon
<1>7. TypeInv'
    BY <1>1, <1>2, <1>3, <1>6, Zenon DEF TypeInv
<1>8. Others(c)
    BY <1>1, <1>3, <1>5, Zenon DEF Others, Untouched
<1>9. RequestOk(c)' /\ VoteOk(c)'
    BY <1>1, <1>3, <1>4, <1>5, BackRunning, Zenon
<1>10. IdleInv'
    <2>1. ~TurnsOff(c)'
        BY <1>3 DEF TurnsOff
    <2> QED BY <1>1, <1>4, <1>8, <2>1, SameNodes, Zenon
<1>11. AffInv'
    BY <1>1, <1>3, <1>8, KeepAff DEF IInv
<1> QED BY <1>1, <1>6, <1>7, <1>8, <1>9, <1>10, <1>11, Assemble, Zenon

-----------------------------------------------------------------------------
(* The decision.                                                           *)
LEMMA NegotiatedFacts ==
    ASSUME OneLevel, NEW c \in CPUs, NEW s \in Infos, NEW end \in {0, 1},
           NEW votes \in [{1} -> [CPUs -> States]]
    PROVE  /\ Negotiated(c, s, end, votes) \in Infos /\ Negotiated(c, s, end, votes)[0] = s[0]
           /\ end = 1 => Negotiated(c, s, end, votes)[1] =
                            plat_get_target_pwr_state(votes, 1, Below(Node(c, 1)))
<1> DEFINE target(l) == plat_get_target_pwr_state(votes, l, Below(Node(c, l)))
           g(l) == CASE l = 0 -> s[0]
                     [] l \in 1 .. end -> IF \E k \in 1 .. l : target(k) = RUN THEN RUN ELSE target(l)
                     [] OTHER -> RUN
<1>1. Negotiated(c, s, end, votes) = [l \in {0, 1} |-> g(l)]
    BY OneLevelFacts, Zenon DEF Negotiated
<1>2. target(1) \in States
    BY TargetState, Zenon
<1> HIDE DEF target
<1>3. g(0) = s[0]
    <2>1. 0 \notin 1 .. end
        OBVIOUS
    <2> QED BY <2>1
<1>4. g(1) = IF end = 1 THEN target(1) ELSE RUN
    <2>1. (1 \in 1 .. end <=> end = 1) /\ 1 # 0 /\ 1 .. 1 = {1}
        OBVIOUS
    <2>2. CASE end = 1
        <3>1. g(1) = IF \E k \in {1} : target(k) = RUN THEN RUN ELSE target(1)
            BY <2>1, <2>2
        <3> QED BY <2>2, <3>1, Zenon
    <2>3. CASE end # 1
        <3>1. g(1) = RUN
            BY <2>1, <2>3
        <3> QED BY <2>3, <3>1, Zenon
    <2> QED BY <2>2, <2>3, Zenon
<1> HIDE DEF g
<1>5. s[0] \in States /\ RUN \in States
    BY DEF Infos, States
<1>6. \A l \in {0, 1} : g(l) \in States
    BY <1>2, <1>3, <1>4, <1>5, Zenon
<1>7. Negotiated(c, s, end, votes) \in Infos
    BY <1>1, <1>6, Zenon DEF Infos
<1>8. Negotiated(c, s, end, votes)[0] = g(0) /\ Negotiated(c, s, end, votes)[1] = g(1)
    BY <1>1, Zenon
<1> QED BY <1>3, <1>4, <1>7, <1>8, Zenon DEF target

(* The votes for the clusters with that of c replaced by x, or as they are. *)
LEMMA NewVotes ==
    ASSUME TypeInv, NEW c \in CPUs, NEW x \in States, NEW w,
           w = req_local_pwr_states[1] \/ w = [req_local_pwr_states[1] EXCEPT ![c] = x]
    PROVE  w \in [CPUs -> States] /\ \A d \in CPUs : d # c => w[d] = Vote(d)
<1>1. req_local_pwr_states[1] \in [CPUs -> States]
    BY Zenon DEF TypeInv
<1> QED BY <1>1, Zenon DEF Vote

(* The check of a request in OS-initiated mode keeps the invariant, and    *)
(* grants a cluster to the last running CPU only.                          *)
LEMMA ValidateStep ==
    ASSUME OneLevel, IInv, NEW c \in CPUs, plat' = plat, psci_validate_state_coordination(c)
    PROVE  /\ IInv'
           /\ TruthfulCallers /\ pc'[c] = "granted" =>
                 \A d \in CPUs : end_pwrlvl[c] = 1 /\ d # c /\ Node(d, 1) = Node(c, 1) => ~Running(d)
<1> DEFINE v == psci_update_req_local_pwr_states(c, state_info[c])
           votes == [l \in Levels |-> [req_local_pwr_states[l] EXCEPT ![c] = v[l]]]
           ok == /\ \A l \in 1 .. end_pwrlvl[c] :
                       state_info[c][l] = plat_get_target_pwr_state(votes, l, Below(Node(c, 1)))
                 /\ psci_is_last_cpu_to_idle_at_pwrlvl(c, last_at_pwrlvl[c])
<1>1. /\ pc[c] = "locked" /\ req_local_pwr_states' = (IF ok THEN votes ELSE req_local_pwr_states)
      /\ Go(c, IF ok THEN "granted" ELSE "denied")
      /\ psci_suspend_mode' = psci_suspend_mode /\ cpu_local_state' = cpu_local_state
      /\ node_local_state' = node_local_state /\ aff_info_state' = aff_info_state /\ locks' = locks
      /\ state_info' = state_info /\ end_pwrlvl' = end_pwrlvl /\ last_at_pwrlvl' = last_at_pwrlvl
      /\ prev' = prev /\ mode' = mode
    BY Zenon DEF psci_validate_state_coordination, request
<1>2. TypeInv
    BY Zenon DEF IInv
<1>3. RequestOk(c) /\ VoteOk(c)
    BY Zenon DEF IInv
<1>4. /\ state_info[c] \in Infos /\ state_info[c][0] # RUN /\ (end_pwrlvl[c] = 0 => state_info[c][0] = OFF)
      /\ end_pwrlvl[c] = 1 => state_info[c][1] # RUN
      /\ plat.truthful => last_at_pwrlvl[c] = end_pwrlvl[c]
      /\ cpu_local_state[c] = RUN
    BY <1>1, <1>3 DEF RequestOk, Holding
<1>5. end_pwrlvl[c] \in {0, 1}
    BY <1>2, Zenon DEF TypeInv
<1>6. votes \in [{1} -> [CPUs -> States]] /\ \A d \in CPUs : d # c => votes[1][d] = Vote(d)
    <2>1. req_local_pwr_states[1] \in [CPUs -> States]
        BY <1>2, Zenon DEF TypeInv
    <2>2. v \in [{1} -> States]
        BY <1>4, TargetLevel, RequestVotes, Zenon
    <2>3. v[1] \in States
        BY <2>2, Zenon
    <2> DEFINE w == [req_local_pwr_states[1] EXCEPT ![c] = v[1]]
    <2>4. w \in [CPUs -> States] /\ \A d \in CPUs : d # c => w[d] = req_local_pwr_states[1][d]
        BY <2>1, <2>3, Zenon
    <2>5. votes = [l \in {1} |-> w]
        BY OneLevelFacts
    <2> HIDE DEF w, votes
    <2>6. votes \in [{1} -> [CPUs -> States]] /\ votes[1] = w
        BY <2>4, <2>5, Zenon
    <2> QED BY <2>4, <2>6, Zenon DEF Vote
<1>7. ok /\ end_pwrlvl[c] = 1 =>
         /\ plat_get_target_pwr_state(votes, 1, Below(Node(c, 1))) # RUN
         /\ psci_is_last_cpu_to_idle_at_pwrlvl(c, last_at_pwrlvl[c])
    <2>1. 1 .. 1 = {1}
        OBVIOUS
    <2> HIDE DEF votes
    <2> QED BY <1>4, <2>1, Zenon
<1> HIDE DEF votes, ok, v
<1>8. pc' \in [CPUs -> Places] /\ pc'[c] = (IF ok THEN "granted" ELSE "denied")
      /\ \A d \in CPUs : d # c => pc'[d] = pc[d]
    <2>1. (IF ok THEN "granted" ELSE "denied") \in Places
        BY DEF Places
    <2> QED BY <1>1, <1>2, <2>1, GoEffect, Zenon
<1>9. /\ req_local_pwr_states' \in [{1} -> [CPUs -> States]] /\ \A d \in CPUs : d # c => Vote(d)' = Vote(d)
      /\ ~ok => Vote(c)' = Vote(c)
    <2>1. CASE ok
        BY <1>1, <1>6, <2>1, Zenon DEF Vote
    <2>2. CASE ~ok
        BY <1>1, <1>2, <2>2, Zenon DEF Vote, TypeInv
    <2> QED BY <2>1, <2>2, Zenon
<1>10. TypeInv'
    BY <1>1, <1>2, <1>8, <1>9, Zenon DEF TypeInv
<1>11. Others(c)
    BY <1>1, <1>8, <1>9, Zenon DEF Others, Untouched
<1>12. RequestOk(c)'
    BY <1>1, <1>4, <1>8 DEF RequestOk, Holding
<1>13. Running(c) /\ (~plat.validate => Vote(c) = RUN)
    BY <1>1, <1>3 DEF VoteOk, Running
<1>14. VoteOk(c)'
    <2>1. CASE ok
        BY <1>8, <2>1 DEF VoteOk, Running
    <2>2. CASE ~ok
        BY <1>8, <1>9, <1>13, <2>2 DEF VoteOk, Running
    <2> QED BY <2>1, <2>2, Zenon
<1>15. ~plat.validate /\ ok /\ end_pwrlvl[c] = 1 =>
          \A d \in CPUs : d # c /\ Node(d, 1) = Node(c, 1) => ~Running(d)
    BY <1>6, <1>7, VotedIdle, Zenon
<1>16. IdleInv'
    <2>1. TurnsOff(c)' => ok /\ end_pwrlvl[c] = 1
        BY <1>1, <1>8 DEF TurnsOff
    <2> QED BY <1>1, <1>11, <1>13, <1>15, <2>1, SameNodes, Zenon
<1>17. LockInv'
    <2>1. \A d \in CPUs : pc'[d] \in Holding <=> pc[d] \in Holding
        BY <1>1, <1>8 DEF Holding
    <2> QED BY <1>1, <1>2, <2>1, KeepLocks, Zenon DEF IInv
<1>18. AffInv'
    <2>1. pc[c] # "off" /\ pc'[c] # "off"
        BY <1>1, <1>8
    <2> QED BY <1>1, <1>11, <2>1, KeepAff, Zenon DEF IInv
<1>19. IInv'
    BY <1>1, <1>10, <1>11, <1>12, <1>14, <1>16, <1>17, <1>18, Assemble, Zenon
<1>20. ASSUME TruthfulCallers, pc'[c] = "granted", end_pwrlvl[c] = 1,
              NEW d \in CPUs, d # c, Node(d, 1) = Node(c, 1)
       PROVE  ~Running(d)
    <2>1. ok
        BY <1>8, <1>20
    <2>2. CASE ~plat.validate
        BY <1>15, <1>20, <2>1, <2>2, Zenon
    <2>3. CASE plat.validate
        <3>1. plat.truthful
            BY <1>2, <1>20, <2>3, Zenon DEF TruthfulCallers, TypeInv
        <3>2. last_at_pwrlvl[c] = 1
            BY <1>4, <1>20, <3>1, Zenon
        <3>3. psci_is_last_cpu_to_idle_at_pwrlvl(c, 1)
            BY <1>7, <1>20, <2>1, <3>2, Zenon
        <3>4. d \in Below(Node(c, 1)) \ {c}
            BY <1>20, BelowNode, Zenon
        <3>5. cpu_local_state[d] # RUN
            BY <3>3, <3>4 DEF psci_is_last_cpu_to_idle_at_pwrlvl
        <3>6. RequestOk(d)
            BY Zenon DEF IInv
        <3> QED BY <3>5, <3>6 DEF RequestOk, Running, Holding
    <2> QED BY <2>2, <2>3, Zenon
<1> QED BY <1>19, <1>20, Zenon

(* The coordination of the votes in platform-coordinated mode.             *)
LEMMA CoordinateStep ==
    ASSUME OneLevel, IInv, NEW c \in CPUs, plat' = plat, psci_do_state_coordination(c)
    PROVE  IInv'
<1> DEFINE s == state_info[c]
           end == end_pwrlvl[c]
           votes == [l \in Levels |-> IF l <= end THEN [req_local_pwr_states[l] EXCEPT ![c] = s[l]]
                                      ELSE req_local_pwr_states[l]]
           new == Negotiated(c, s, end, votes)
<1>1. /\ pc[c] = "locked" /\ req_local_pwr_states' = votes /\ Go(c, "granted")
      /\ state_info' = [state_info EXCEPT ![c] = new]
      /\ psci_suspend_mode' = psci_suspend_mode /\ cpu_local_state' = cpu_local_state
      /\ node_local_state' = node_local_state /\ aff_info_state' = aff_info_state /\ locks' = locks
      /\ end_pwrlvl' = end_pwrlvl /\ last_at_pwrlvl' = last_at_pwrlvl /\ prev' = prev /\ mode' = mode
    BY Zenon DEF psci_do_state_coordination
<1>2. TypeInv
    BY Zenon DEF IInv
<1>3. RequestOk(c)
    BY Zenon DEF IInv
<1>4. s \in Infos /\ (end = 0 => s[0] = OFF) /\ cpu_local_state[c] = RUN
    BY <1>1, <1>3 DEF RequestOk, Holding
<1>5. end \in {0, 1} /\ state_info \in [CPUs -> Infos \cup {Unset}]
    BY <1>2, Zenon DEF TypeInv
<1>6. votes \in [{1} -> [CPUs -> States]] /\ \A d \in CPUs : d # c => votes[1][d] = Vote(d)
    <2> DEFINE x == s[1]
               w == IF 1 <= end THEN [req_local_pwr_states[1] EXCEPT ![c] = x] ELSE req_local_pwr_states[1]
    <2>1. x \in States
        BY <1>4 DEF Infos
    <2>2. votes = [l \in {1} |-> w]
        BY OneLevelFacts
    <2>3. w = req_local_pwr_states[1] \/ w = [req_local_pwr_states[1] EXCEPT ![c] = x]
        BY Zenon
    <2> HIDE DEF x, w, votes
    <2>4. w \in [CPUs -> States] /\ \A d \in CPUs : d # c => w[d] = Vote(d)
        BY <1>2, <2>1, <2>3, NewVotes, Zenon
    <2>5. votes \in [{1} -> [CPUs -> States]] /\ votes[1] = w
        BY <2>2, <2>4, Zenon
    <2> QED BY <2>4, <2>5, Zenon
<1> HIDE DEF votes, s, end
<1>7. /\ new \in Infos /\ new[0] = s[0]
      /\ end = 1 => new[1] = plat_get_target_pwr_state(votes, 1, Below(Node(c, 1)))
    BY <1>4, <1>5, <1>6, NegotiatedFacts, Zenon
<1> HIDE DEF new
<1>8. pc' \in [CPUs -> Places] /\ pc'[c] = "granted" /\ \A d \in CPUs : d # c => pc'[d] = pc[d]
    <2>1. "granted" \in Places
        BY DEF Places
    <2> QED BY <1>1, <1>2, <2>1, GoEffect, Zenon
<1>9. /\ state_info' \in [CPUs -> Infos \cup {Unset}] /\ state_info'[c] = new
      /\ \A d \in CPUs : d # c => state_info'[d] = state_info[d]
    BY <1>1, <1>5, <1>7, Zenon
<1>10. \A d \in CPUs : d # c => Vote(d)' = Vote(d)
    BY <1>1, <1>6, Zenon DEF Vote
<1>11. TypeInv'
    BY <1>1, <1>2, <1>6, <1>8, <1>9, Zenon DEF TypeInv
<1>12. Others(c)
    BY <1>1, <1>8, <1>9, <1>10, Zenon DEF Others, Untouched
<1>13. RequestOk(c)'
    BY <1>1, <1>4, <1>7, <1>8, <1>9 DEF RequestOk, Holding, end
<1>14. VoteOk(c)'
    BY <1>8 DEF VoteOk, Running
<1>15. IdleInv'
    <2>1. TurnsOff(c)' => end = 1 /\ new[1] # RUN
        BY <1>1, <1>9, Zenon DEF TurnsOff, end
    <2>2. ~plat.validate /\ TurnsOff(c)' =>
             \A d \in CPUs : d # c /\ Node(d, 1) = Node(c, 1) => ~Running(d)
        BY <1>6, <1>7, <2>1, VotedIdle, Zenon
    <2>3. ~Running(c)'
        BY <1>8 DEF Running
    <2> QED BY <1>1, <1>12, <2>2, <2>3, SameNodes, Zenon
<1>16. LockInv'
    <2>1. \A d \in CPUs : pc'[d] \in Holding <=> pc[d] \in Holding
        BY <1>1, <1>8 DEF Holding
    <2> QED BY <1>1, <1>2, <2>1, KeepLocks, Zenon DEF IInv
<1>17. AffInv'
    BY <1>1, <1>8, <1>12, KeepAff DEF IInv
<1> QED BY <1>1, <1>11, <1>12, <1>13, <1>14, <1>15, <1>16, <1>17, Assemble, Zenon

(* The refusal of a granted request by the platform.                       *)
LEMMA ValidateFailsStep ==
    ASSUME OneLevel, IInv, NEW c \in CPUs, plat' = plat, ValidateFails(c)
    PROVE  IInv'
<1>1. /\ plat.validate /\ pc[c] = "granted" /\ Go(c, "denied")
      /\ psci_suspend_mode' = psci_suspend_mode /\ cpu_local_state' = cpu_local_state
      /\ node_local_state' = node_local_state /\ req_local_pwr_states' = req_local_pwr_states
      /\ aff_info_state' = aff_info_state /\ locks' = locks /\ state_info' = state_info
      /\ end_pwrlvl' = end_pwrlvl /\ last_at_pwrlvl' = last_at_pwrlvl /\ prev' = prev /\ mode' = mode
    BY Zenon DEF ValidateFails, data, request
<1>2. TypeInv /\ RequestOk(c)
    BY Zenon DEF IInv
<1>3. pc' \in [CPUs -> Places] /\ pc'[c] = "denied" /\ \A d \in CPUs : d # c => pc'[d] = pc[d]
    <2>1. "denied" \in Places
        BY DEF Places
    <2> QED BY <1>1, <1>2, <2>1, GoEffect, Zenon
<1>4. TypeInv'
    BY <1>1, <1>2, <1>3, Zenon DEF TypeInv
<1>5. Others(c)
    BY <1>1, <1>3, Zenon DEF Others, Untouched, Vote
<1>6. RequestOk(c)'
    BY <1>1, <1>2, <1>3 DEF RequestOk, Holding
<1>7. VoteOk(c)' /\ IdleInv'
    BY <1>1, Zenon DEF VoteOk, IdleInv
<1>8. LockInv'
    <2>1. \A d \in CPUs : pc'[d] \in Holding <=> pc[d] \in Holding
        BY <1>1, <1>3 DEF Holding
    <2> QED BY <1>1, <1>2, <2>1, KeepLocks, Zenon DEF IInv
<1>9. AffInv'
    BY <1>1, <1>3, <1>5, KeepAff DEF IInv
<1> QED BY <1>1, <1>4, <1>5, <1>6, <1>7, <1>8, <1>9, Assemble, Zenon

(* A suspend that is granted: the domains of which the CPU holds the locks *)
(* take the states of its request.                                         *)
LEMMA SuspendGrantedStep ==
    ASSUME OneLevel, IInv, NEW c \in CPUs, plat' = plat, SuspendGranted(c)
    PROVE  IInv'
<1> DEFINE where == IF state_info[c][0] = OFF THEN "down" ELSE "retention"
<1>1. /\ pc[c] = "granted" /\ cpu_local_state' = [cpu_local_state EXCEPT ![c] = state_info[c][0]]
      /\ node_local_state' = [n \in Nodes |->
             IF locks[n] = c THEN state_info[c][n[1]] ELSE node_local_state[n]]
      /\ Release(c) /\ Go(c, where)
      /\ psci_suspend_mode' = psci_suspend_mode /\ req_local_pwr_states' = req_local_pwr_states
      /\ aff_info_state' = aff_info_state /\ state_info' = state_info
      /\ end_pwrlvl' = end_pwrlvl /\ last_at_pwrlvl' = last_at_pwrlvl /\ prev' = prev /\ mode' = mode
    BY Zenon DEF SuspendGranted, request
<1>2. TypeInv /\ LockInv /\ AffInv /\ IdleInv
    BY Zenon DEF IInv
<1>3. RequestOk(c)
    BY Zenon DEF IInv
<1>4. state_info[c] \in Infos /\ (end_pwrlvl[c] = 0 => state_info[c][0] = OFF)
    BY <1>1, <1>3 DEF RequestOk, Holding
<1>5. end_pwrlvl[c] \in {0, 1}
    BY <1>2, Zenon DEF TypeInv
<1>6. where \in {"down", "retention"} /\ (where = "retention" => end_pwrlvl[c] = 1)
    BY <1>4, <1>5
<1> HIDE DEF where
<1>7. pc' \in [CPUs -> Places] /\ pc'[c] = where /\ \A d \in CPUs : d # c => pc'[d] = pc[d]
    <2>1. where \in Places
        BY <1>6 DEF Places
    <2> QED BY <1>1, <1>2, <2>1, GoEffect, Zenon
<1>8. state_info[c][0] \in States /\ state_info[c][1] \in States
    BY <1>4 DEF Infos
<1>9. /\ cpu_local_state' \in [CPUs -> States]
      /\ \A d \in CPUs : d # c => cpu_local_state'[d] = cpu_local_state[d]
    BY <1>1, <1>2, <1>8, Zenon DEF TypeInv
<1>10. \A n \in Nodes : n[1] = 1
    BY NodeFacts, Zenon
<1>11. /\ node_local_state' \in [Nodes -> States]
       /\ \A n \in Nodes : node_local_state'[n] = IF locks[n] = c THEN state_info[c][1] ELSE node_local_state[n]
    <2>1. \A n \in Nodes : node_local_state'[n] = IF locks[n] = c THEN state_info[c][1] ELSE node_local_state[n]
        BY <1>1, <1>10, Zenon
    <2>2. \A n \in Nodes : node_local_state[n] \in States
        BY <1>2, Zenon DEF TypeInv
    <2>3. \A n \in Nodes : node_local_state'[n] \in States
        BY <1>8, <2>1, <2>2
    <2>4. node_local_state' = [n \in Nodes |-> node_local_state'[n]]
        BY <1>1, Zenon
    <2> QED BY <2>1, <2>3, <2>4, Zenon
<1>12. LockInv' /\ locks' \in [Nodes -> CPUs \cup {None}]
    <2>1. pc'[c] \notin Holding
        BY <1>6, <1>7 DEF Holding
    <2> QED BY <1>1, <1>2, <1>7, <2>1, ReleaseLocks, Zenon
<1>13. TypeInv'
    BY <1>1, <1>2, <1>7, <1>9, <1>11, <1>12, Zenon DEF TypeInv
<1>14. Others(c)
    BY <1>1, <1>7, <1>9, Zenon DEF Others, Untouched, Vote
<1>15. RequestOk(c)'
    BY <1>1, <1>4, <1>6, <1>7 DEF RequestOk, Holding
<1>16. ~Running(c)' /\ ~TurnsOff(c)'
    BY <1>6, <1>7 DEF Running, TurnsOff
<1>17. VoteOk(c)'
    BY <1>6, <1>7 DEF VoteOk, Running
<1>18. AffInv'
    BY <1>1, <1>2, <1>6, <1>7, <1>14, KeepAff
<1>19. ASSUME ~plat.standby, ~plat.validate, NEW d \in CPUs, Running(d)'
       PROVE  node_local_state'[Node(d, 1)] = RUN
    <2>1. d # c /\ Running(d)
        BY <1>14, <1>16, <1>19, OthersSame, Zenon
    <2>2. node_local_state[Node(d, 1)] = RUN /\ Node(d, 1) \in Nodes
        BY <1>2, <1>19, <2>1, NodeFacts, Zenon DEF IdleInv
    <2>3. CASE locks[Node(d, 1)] = c
        <3>1. c # None
            BY <1>2, OsiAssumption DEF CPUs
        <3>2. end_pwrlvl[c] = 1 /\ Node(d, 1) = Node(c, 1)
            BY <1>2, <2>2, <2>3, <3>1, Zenon DEF LockInv
        <3>3. ~TurnsOff(c)
            BY <1>2, <1>19, <2>1, <3>2, Zenon DEF IdleInv
        <3>4. state_info[c][1] = RUN
            BY <1>1, <3>2, <3>3, Zenon DEF TurnsOff
        <3> QED BY <1>11, <2>2, <2>3, <3>4, Zenon
    <2>4. CASE locks[Node(d, 1)] # c
        BY <1>11, <2>2, <2>4, Zenon
    <2> QED BY <2>3, <2>4, Zenon
<1>20. ASSUME ~plat.standby, ~plat.validate, NEW a \in CPUs, NEW d \in CPUs,
              TurnsOff(a)', a # d, Node(d, 1) = Node(a, 1)
       PROVE  ~Running(d)'
    <2>1. a # c /\ TurnsOff(a)
        BY <1>14, <1>16, <1>20, OthersSame, Zenon
    <2>2. ~Running(d)
        BY <1>2, <1>20, <2>1, Zenon DEF IdleInv
    <2> QED BY <1>14, <1>16, <2>2, OthersSame, Zenon
<1>21. IdleInv'
    BY <1>19, <1>20, Zenon DEF IdleInv
<1> QED BY <1>1, <1>12, <1>13, <1>14, <1>15, <1>17, <1>18, <1>21, Assemble, Zenon

(* Every way back to the normal world from a power-down: the cluster and   *)
(* the vote of the CPU return to RUN.                                      *)
LEMMA WakeStep ==
    ASSUME OneLevel, IInv, NEW c \in CPUs, plat' = plat, pc[c] \notin Holding,
           SetToRun(c, 1), Return(c), psci_suspend_mode' = psci_suspend_mode, locks' = locks
    PROVE  IInv'
<1>1. TypeInv /\ LockInv /\ AffInv /\ IdleInv
    BY Zenon DEF IInv
<1>2. /\ pc' \in [CPUs -> Places] /\ pc'[c] = "run" /\ \A d \in CPUs : d # c => pc'[d] = pc[d]
      /\ state_info' \in [CPUs -> Infos \cup {Unset}] /\ prev' \in [CPUs -> [{1} -> States] \cup {Unset}]
      /\ end_pwrlvl' \in [CPUs -> {0, 1}] /\ last_at_pwrlvl' \in [CPUs -> {0, 1}]
      /\ mode' \in [CPUs -> {PLAT_COORD, OS_INIT}]
      /\ \A d \in CPUs : d # c =>
            /\ state_info'[d] = state_info[d] /\ prev'[d] = prev[d] /\ end_pwrlvl'[d] = end_pwrlvl[d]
            /\ last_at_pwrlvl'[d] = last_at_pwrlvl[d] /\ mode'[d] = mode[d]
    BY <1>1, ReturnEffect, Zenon
<1>3. /\ locks[Node(c, 1)] = None
      /\ node_local_state' \in [Nodes -> States] /\ node_local_state'[Node(c, 1)] = RUN
      /\ \A n \in Nodes : node_local_state[n] = RUN => node_local_state'[n] = RUN
      /\ req_local_pwr_states' \in [{1} -> [CPUs -> States]]
      /\ Vote(c)' = RUN /\ \A d \in CPUs : d # c => Vote(d)' = Vote(d)
      /\ cpu_local_state' \in [CPUs -> States] /\ cpu_local_state'[c] = RUN
      /\ \A d \in CPUs : d # c => cpu_local_state'[d] = cpu_local_state[d]
      /\ aff_info_state' = [aff_info_state EXCEPT ![c] = "ON"]
    BY <1>1, ToRunEffect, Zenon
<1>4. /\ aff_info_state' \in [CPUs -> {"ON", "OFF", "ON_PENDING"}] /\ aff_info_state'[c] = "ON"
      /\ \A d \in CPUs : d # c => aff_info_state'[d] = aff_info_state[d]
    BY <1>1, <1>3, Zenon DEF TypeInv
<1>5. TypeInv'
    BY <1>1, <1>2, <1>3, <1>4, Zenon DEF TypeInv
<1>6. Others(c)
    BY <1>2, <1>3, Zenon DEF Others, Untouched
<1>7. RequestOk(c)' /\ VoteOk(c)'
    BY <1>2, <1>3, BackRunning, Zenon
<1>8. AffInv'
    BY <1>1, <1>2, <1>4 DEF AffInv
<1>9. LockInv'
    <2>1. \A d \in CPUs : pc'[d] \in Holding <=> pc[d] \in Holding
        BY <1>2 DEF Holding
    <2>2. \A d \in CPUs : pc[d] \in Holding => end_pwrlvl'[d] = end_pwrlvl[d]
        BY <1>2, Zenon
    <2> QED BY <1>1, <2>1, <2>2, KeepLocks, Zenon
<1>10. IdleInv'
    <2>1. ~TurnsOff(c)'
        BY <1>2 DEF TurnsOff
    <2>2. \A d \in CPUs : d # c => (Running(d)' <=> Running(d)) /\ (TurnsOff(d)' => TurnsOff(d))
        BY <1>6, OthersSame, Zenon
    <2>3. \A d \in CPUs : node_local_state[Node(d, 1)] = RUN => node_local_state'[Node(d, 1)] = RUN
        <3>1. \A d \in CPUs : Node(d, 1) \in Nodes
            BY NodeFacts, Zenon
        <3> QED BY <1>3, <3>1, Zenon
    <2> QED BY <1>1, <1>3, <2>1, <2>2, <2>3, WakeIdle, Zenon
<1> QED BY <1>5, <1>6, <1>7, <1>8, <1>9, <1>10, Assemble, Zenon

(* The three of them.                                                      *)
LEMMA FinishSteps ==
    ASSUME OneLevel, IInv, NEW c \in CPUs, plat' = plat,
           psci_cpu_suspend_finish(c) \/ psci_suspend_to_standby_finisher(c) \/ psci_cpu_on_finish(c)
    PROVE  IInv'
<1>1. pc[c] \in {"down", "retention", "off"}
    <2>1. aff_info_state[c] = "ON_PENDING" => pc[c] = "off"
        BY DEF IInv, AffInv
    <2> QED BY <2>1 DEF psci_cpu_suspend_finish, psci_suspend_to_standby_finisher, psci_cpu_on_finish
<1>2. pc[c] \notin Holding
    BY <1>1 DEF Holding
<1>3. pc[c] = "retention" => end_pwrlvl[c] = 1
    BY Zenon DEF IInv, RequestOk
<1>4. SetToRun(c, 1) /\ Return(c) /\ psci_suspend_mode' = psci_suspend_mode /\ locks' = locks
    BY <1>3, Zenon DEF OneLevel, psci_cpu_suspend_finish, psci_suspend_to_standby_finisher, psci_cpu_on_finish
<1> QED BY <1>2, <1>4, WakeStep, Zenon

(* CPU_OFF votes OFF, and the cluster takes the target of the votes.       *)
LEMMA CpuOffStep ==
    ASSUME OneLevel, IInv, NEW c \in CPUs, plat' = plat, psci_do_cpu_off(c)
    PROVE  IInv'
<1> DEFINE off == [l \in 0 .. PLAT_MAX_PWR_LVL |-> OFF]
           votes == [l \in Levels |-> [req_local_pwr_states[l] EXCEPT ![c] = OFF]]
           s == Negotiated(c, off, PLAT_MAX_PWR_LVL, votes)
<1>1. /\ pc[c] = "run" /\ req_local_pwr_states' = votes
      /\ cpu_local_state' = [cpu_local_state EXCEPT ![c] = OFF]
      /\ node_local_state' = [n \in Nodes |-> IF c \in Below(n) THEN s[n[1]] ELSE node_local_state[n]]
      /\ aff_info_state' = [aff_info_state EXCEPT ![c] = "OFF"] /\ Go(c, "off")
      /\ psci_suspend_mode' = psci_suspend_mode /\ locks' = locks /\ state_info' = state_info
      /\ end_pwrlvl' = end_pwrlvl /\ last_at_pwrlvl' = last_at_pwrlvl /\ prev' = prev /\ mode' = mode
    BY Zenon DEF psci_do_cpu_off, request
<1>2. TypeInv /\ LockInv /\ AffInv /\ IdleInv
    BY Zenon DEF IInv
<1>3. OFF \in States /\ PLAT_MAX_PWR_LVL \in {0, 1} /\ PLAT_MAX_PWR_LVL = 1
    BY DEF States, OneLevel
<1>4. off \in Infos
    BY OneLevelFacts, <1>3 DEF Infos
<1>5. votes \in [{1} -> [CPUs -> States]] /\ \A d \in CPUs : d # c => votes[1][d] = Vote(d)
    <2> DEFINE w == [req_local_pwr_states[1] EXCEPT ![c] = OFF]
    <2>1. votes = [l \in {1} |-> w]
        BY OneLevelFacts
    <2>2. w \in [CPUs -> States] /\ \A d \in CPUs : d # c => w[d] = Vote(d)
        BY <1>2, <1>3, NewVotes, Zenon
    <2> HIDE DEF w, votes
    <2>3. votes \in [{1} -> [CPUs -> States]] /\ votes[1] = w
        BY <2>1, <2>2, Zenon
    <2> QED BY <2>2, <2>3, Zenon
<1> HIDE DEF off, votes
<1>6. s \in Infos /\ s[1] = plat_get_target_pwr_state(votes, 1, Below(Node(c, 1)))
    BY <1>3, <1>4, <1>5, NegotiatedFacts, Zenon
<1> HIDE DEF s
<1>7. s[1] \in States
    BY <1>6 DEF Infos
<1>8. pc' \in [CPUs -> Places] /\ pc'[c] = "off" /\ \A d \in CPUs : d # c => pc'[d] = pc[d]
    <2>1. "off" \in Places
        BY DEF Places
    <2> QED BY <1>1, <1>2, <2>1, GoEffect, Zenon
<1>9. /\ cpu_local_state' \in [CPUs -> States]
      /\ \A d \in CPUs : d # c => cpu_local_state'[d] = cpu_local_state[d]
    BY <1>1, <1>2, <1>3, Zenon DEF TypeInv
<1>10. /\ aff_info_state' \in [CPUs -> {"ON", "OFF", "ON_PENDING"}] /\ aff_info_state'[c] = "OFF"
       /\ \A d \in CPUs : d # c => aff_info_state'[d] = aff_info_state[d]
    BY <1>1, <1>2, Zenon DEF TypeInv
<1>11. /\ node_local_state' \in [Nodes -> States]
       /\ \A n \in Nodes : node_local_state'[n] = IF c \in Below(n) THEN s[1] ELSE node_local_state[n]
    <2>1. \A n \in Nodes : n[1] = 1
        BY NodeFacts, Zenon
    <2>2. \A n \in Nodes : node_local_state'[n] = IF c \in Below(n) THEN s[1] ELSE node_local_state[n]
        BY <1>1, <2>1, Zenon
    <2>3. \A n \in Nodes : node_local_state[n] \in States
        BY <1>2, Zenon DEF TypeInv
    <2>4. \A n \in Nodes : node_local_state'[n] \in States
        BY <1>7, <2>2, <2>3
    <2>5. node_local_state' = [n \in Nodes |-> node_local_state'[n]]
        BY <1>1, Zenon
    <2> QED BY <2>2, <2>4, <2>5, Zenon
<1>12. TypeInv'
    BY <1>1, <1>2, <1>5, <1>8, <1>9, <1>10, <1>11, Zenon DEF TypeInv
<1>13. Others(c)
    BY <1>1, <1>5, <1>8, <1>9, Zenon DEF Others, Untouched, Vote
<1>14. RequestOk(c)' /\ VoteOk(c)'
    BY <1>8 DEF RequestOk, VoteOk, Running, Holding
<1>15. AffInv'
    BY <1>2, <1>8, <1>10 DEF AffInv
<1>16. LockInv'
    <2>1. \A d \in CPUs : pc'[d] \in Holding <=> pc[d] \in Holding
        BY <1>1, <1>8 DEF Holding
    <2> QED BY <1>1, <1>2, <2>1, KeepLocks, Zenon
<1>17. ~Running(c)' /\ ~TurnsOff(c)'
    BY <1>8 DEF Running, TurnsOff
<1>18. ASSUME ~plat.standby, ~plat.validate, NEW d \in CPUs, Running(d)'
       PROVE  node_local_state'[Node(d, 1)] = RUN
    <2>1. d # c /\ Running(d)
        BY <1>13, <1>17, <1>18, OthersSame, Zenon
    <2>2. node_local_state[Node(d, 1)] = RUN /\ Node(d, 1) \in Nodes
        BY <1>2, <1>18, <2>1, NodeFacts, Zenon DEF IdleInv
    <2>3. CASE c \in Below(Node(d, 1))
        <3>1. Node(c, 1) = Node(d, 1)
            BY <2>3, BelowNode, Zenon
        <3>2. s[1] = RUN
            BY <1>5, <1>6, <1>18, <2>1, <3>1, VotedIdle, Zenon
        <3> QED BY <1>11, <2>2, <2>3, <3>2, Zenon
    <2>4. CASE c \notin Below(Node(d, 1))
        BY <1>11, <2>2, <2>4, Zenon
    <2> QED BY <2>3, <2>4, Zenon
<1>19. ASSUME ~plat.standby, ~plat.validate, NEW a \in CPUs, NEW d \in CPUs,
              TurnsOff(a)', a # d, Node(d, 1) = Node(a, 1)
       PROVE  ~Running(d)'
    <2>1. a # c /\ TurnsOff(a)
        BY <1>13, <1>17, <1>19, OthersSame, Zenon
    <2>2. ~Running(d)
        BY <1>2, <1>19, <2>1, Zenon DEF IdleInv
    <2> QED BY <1>13, <1>17, <2>2, OthersSame, Zenon
<1>20. IdleInv'
    BY <1>18, <1>19, Zenon DEF IdleInv
<1> QED BY <1>1, <1>12, <1>13, <1>14, <1>15, <1>16, <1>20, Assemble, Zenon

(* CPU_ON only marks the CPU that is to come up.                           *)
LEMMA CpuOnStep ==
    ASSUME OneLevel, IInv, NEW c \in CPUs, plat' = plat, NEW d \in CPUs, psci_cpu_on(c, d)
    PROVE  IInv'
<1>1. /\ aff_info_state[d] = "OFF" /\ aff_info_state' = [aff_info_state EXCEPT ![d] = "ON_PENDING"]
      /\ psci_suspend_mode' = psci_suspend_mode /\ cpu_local_state' = cpu_local_state
      /\ node_local_state' = node_local_state /\ req_local_pwr_states' = req_local_pwr_states
      /\ locks' = locks /\ pc' = pc /\ state_info' = state_info /\ prev' = prev
      /\ end_pwrlvl' = end_pwrlvl /\ last_at_pwrlvl' = last_at_pwrlvl /\ mode' = mode
    BY Zenon DEF psci_cpu_on, request
<1>2. TypeInv /\ LockInv /\ AffInv /\ IdleInv /\ \A e \in CPUs : RequestOk(e) /\ VoteOk(e)
    BY Zenon DEF IInv
<1>3. /\ aff_info_state' \in [CPUs -> {"ON", "OFF", "ON_PENDING"}] /\ aff_info_state'[d] = "ON_PENDING"
      /\ \A e \in CPUs : e # d => aff_info_state'[e] = aff_info_state[e]
    BY <1>1, <1>2, Zenon DEF TypeInv
<1>4. TypeInv'
    BY <1>1, <1>2, <1>3, Zenon DEF TypeInv
<1>5. AffInv'
    BY <1>1, <1>2, <1>3 DEF AffInv
<1>6. LockInv'
    BY <1>1, <1>2, Zenon DEF LockInv
<1>7. \A e \in CPUs : Untouched(e)
    BY <1>1, Zenon DEF Untouched, Vote
<1>8. \A e \in CPUs : RequestOk(e)' /\ VoteOk(e)'
    BY <1>1, <1>2, <1>7, Frame, Zenon
<1>9. IdleInv'
    BY <1>1, <1>2, Zenon DEF IdleInv, TurnsOff, Running
<1> QED BY <1>4, <1>5, <1>6, <1>8, <1>9, Zenon DEF IInv

(* The invariant holds when the operating system has chosen its mode.      *)
LEMMA InitIInv ==
    ASSUME OneLevel, Init
    PROVE  IInv
<1>1. /\ plat \in Platforms /\ psci_suspend_mode \in plat.modes
      /\ cpu_local_state = [c \in CPUs |-> RUN] /\ node_local_state = [n \in Nodes |-> RUN]
      /\ req_local_pwr_states = [l \in {1} |-> [c \in CPUs |-> RUN]]
      /\ aff_info_state = [c \in CPUs |-> "ON"] /\ locks = [n \in Nodes |-> None]
      /\ pc = [c \in CPUs |-> "run"]
      /\ state_info = [c \in CPUs |-> Unset] /\ prev = [c \in CPUs |-> Unset]
      /\ end_pwrlvl = [c \in CPUs |-> 0] /\ last_at_pwrlvl = [c \in CPUs |-> 0]
      /\ mode = [c \in CPUs |-> PLAT_COORD]
    BY OneLevelFacts, Zenon DEF Init
<1>2. RUN \in States /\ "run" \in Places /\ "run" \notin Holding
    BY DEF States, Places, Holding
<1>3. TypeInv
    BY <1>1, <1>2, Zenon DEF TypeInv
<1>4. AffInv
    BY <1>1 DEF AffInv
<1>5. LockInv
    BY <1>1, <1>2, Zenon DEF LockInv
<1>6. \A c \in CPUs : pc[c] = "run" /\ cpu_local_state[c] = RUN /\ Vote(c) = RUN
    BY <1>1, Zenon DEF Vote
<1>7. \A c \in CPUs : RequestOk(c) /\ VoteOk(c)
    BY <1>6 DEF RequestOk, VoteOk, Holding
<1>8. IdleInv
    <2>1. \A c \in CPUs : node_local_state[Node(c, 1)] = RUN
        BY <1>1, NodeFacts, Zenon
    <2>2. \A c \in CPUs : ~TurnsOff(c)
        BY <1>6 DEF TurnsOff
    <2> QED BY <2>1, <2>2, Zenon DEF IdleInv
<1> QED BY <1>3, <1>4, <1>5, <1>7, <1>8, Zenon DEF IInv

(* Every step keeps the invariant.                                         *)
LEMMA NextIInv ==
    ASSUME OneLevel, Steady(plat), IInv, [Next]_vars
    PROVE  IInv'
<1>1. CASE Next
    <2>1. plat' = plat
        BY <1>1, Zenon DEF Next
    <2>2. PICK c \in CPUs :
        \/ \E s \in Requests : EnterStandby(c, s) \/ psci_cpu_suspend_start(c, s)
        \/ ExitStandby(c) \/ RestoreVotes(c)
        \/ PendingInterrupt(c) \/ psci_validate_state_coordination(c) \/ psci_do_state_coordination(c)
        \/ ValidateFails(c) \/ Denied(c) \/ SuspendGranted(c)
        \/ psci_cpu_suspend_finish(c) \/ psci_suspend_to_standby_finisher(c)
        \/ psci_do_cpu_off(c) \/ (\E d \in CPUs : psci_cpu_on(c, d)) \/ psci_cpu_on_finish(c)
        \/ (\E m \in plat.modes : psci_set_suspend_mode(c, m)) \/ WriteMode(c)
        BY <1>1, Zenon DEF Next
    <2>3. CASE \E s \in Requests : EnterStandby(c, s) \/ psci_cpu_suspend_start(c, s)
        BY <2>1, <2>3, EnterStandbyStep, StartStep, Zenon
    <2>4. CASE ExitStandby(c)
        BY <2>1, <2>4, ExitStandbyStep, Zenon
    <2>5. CASE RestoreVotes(c)
        BY <2>1, <2>5, RestoreVotesStep, Zenon
    <2>6. CASE PendingInterrupt(c) \/ Denied(c)
        BY <2>1, <2>6, GiveUpStep, Zenon
    <2>7. CASE psci_validate_state_coordination(c)
        BY <2>1, <2>7, ValidateStep, Zenon
    <2>8. CASE psci_do_state_coordination(c)
        BY <2>1, <2>8, CoordinateStep, Zenon
    <2>9. CASE ValidateFails(c)
        BY <2>1, <2>9, ValidateFailsStep, Zenon
    <2>10. CASE SuspendGranted(c)
        BY <2>1, <2>10, SuspendGrantedStep, Zenon
    <2>11. CASE psci_cpu_suspend_finish(c) \/ psci_suspend_to_standby_finisher(c) \/ psci_cpu_on_finish(c)
        BY <2>1, <2>11, FinishSteps, Zenon
    <2>12. CASE psci_do_cpu_off(c)
        BY <2>1, <2>12, CpuOffStep, Zenon
    <2>13. CASE \E d \in CPUs : psci_cpu_on(c, d)
        BY <2>1, <2>13, CpuOnStep, Zenon
    <2>14. CASE \E m \in plat.modes : psci_set_suspend_mode(c, m)
        BY <2>1, <2>14, SetModeStep, Zenon
    <2>15. CASE WriteMode(c)
        BY <2>1, <2>15, WriteModeStep, Zenon
    <2> QED BY <2>2, <2>3, <2>4, <2>5, <2>6, <2>7, <2>8, <2>9, <2>10, <2>11, <2>12, <2>13, <2>14, <2>15, Zenon
<1>2. CASE UNCHANGED vars
    <2>1. /\ plat' = plat /\ psci_suspend_mode' = psci_suspend_mode /\ cpu_local_state' = cpu_local_state
          /\ node_local_state' = node_local_state /\ req_local_pwr_states' = req_local_pwr_states
          /\ aff_info_state' = aff_info_state /\ locks' = locks /\ pc' = pc /\ state_info' = state_info
          /\ prev' = prev /\ end_pwrlvl' = end_pwrlvl /\ last_at_pwrlvl' = last_at_pwrlvl /\ mode' = mode
        BY <1>2, Zenon DEF vars, data, request
    <2>2. TypeInv' /\ AffInv' /\ LockInv' /\ IdleInv'
        BY <2>1, Zenon DEF IInv, TypeInv, AffInv, LockInv, IdleInv, TurnsOff, Running
    <2>3. \A c \in CPUs : RequestOk(c)' /\ VoteOk(c)'
        <3>1. \A c \in CPUs : Untouched(c)
            BY <2>1, Zenon DEF Untouched, Vote
        <3>2. \A c \in CPUs : RequestOk(c) /\ VoteOk(c)
            BY Zenon DEF IInv
        <3> QED BY <2>1, <3>1, <3>2, Frame, Zenon
    <2> QED BY <2>2, <2>3, Zenon DEF IInv
<1> QED BY <1>1, <1>2, Zenon

(* In OS-initiated mode only the check of the request grants it.           *)
LEMMA OnlyCheckGrants ==
    ASSUME TypeInv, Next, NEW c \in CPUs, pc[c] = "locked", pc'[c] = "granted", psci_suspend_mode = OS_INIT
    PROVE  psci_validate_state_coordination(c) /\ plat' = plat
<1>1. \A d \in CPUs : \A where : Go(d, where) => d = c /\ where = "granted"
    <2>1. pc \in [CPUs -> Places]
        BY Zenon DEF TypeInv
    <2>2. "locked" # "granted"
        OBVIOUS
    <2> QED BY <2>1, <2>2, Zenon DEF Go
<1>2. pc' # pc
    OBVIOUS
<1>3. "run" # "granted" /\ "standby" # "granted" /\ "restore" # "granted" /\ "locked" # "granted"
      /\ "denied" # "granted" /\ "down" # "granted" /\ "retention" # "granted" /\ "off" # "granted"
      /\ "setmode" # "granted"
    OBVIOUS
<1>4. PICK d \in CPUs :
        \/ \E s \in Requests : EnterStandby(d, s) \/ psci_cpu_suspend_start(d, s)
        \/ ExitStandby(d) \/ RestoreVotes(d)
        \/ PendingInterrupt(d) \/ psci_validate_state_coordination(d) \/ psci_do_state_coordination(d)
        \/ ValidateFails(d) \/ Denied(d) \/ SuspendGranted(d)
        \/ psci_cpu_suspend_finish(d) \/ psci_suspend_to_standby_finisher(d)
        \/ psci_do_cpu_off(d) \/ (\E e \in CPUs : psci_cpu_on(d, e)) \/ psci_cpu_on_finish(d)
        \/ (\E m \in plat.modes : psci_set_suspend_mode(d, m)) \/ WriteMode(d)
    BY Zenon DEF Next
<1>5. \A s : ~EnterStandby(d, s) /\ ~psci_cpu_suspend_start(d, s)
    BY <1>1, <1>3, Zenon DEF EnterStandby, psci_cpu_suspend_start
<1>6. ~Return(d)
    BY <1>1, <1>3, Zenon DEF Return
<1>7. ~ExitStandby(d) /\ ~RestoreVotes(d) /\ ~PendingInterrupt(d) /\ ~ValidateFails(d) /\ ~Denied(d)
    BY <1>1, <1>3, <1>6, Zenon DEF ExitStandby, RestoreVotes, PendingInterrupt, ValidateFails, Denied
<1>8. ~psci_do_state_coordination(d)
    BY Zenon DEF psci_do_state_coordination
<1>9. ~SuspendGranted(d)
    BY <1>1, <1>3, Zenon DEF SuspendGranted
<1>10. ~psci_cpu_suspend_finish(d) /\ ~psci_suspend_to_standby_finisher(d) /\ ~psci_cpu_on_finish(d) /\ ~WriteMode(d)
    BY <1>6, Zenon DEF psci_cpu_suspend_finish, psci_suspend_to_standby_finisher, psci_cpu_on_finish, WriteMode
<1>11. ~psci_do_cpu_off(d) /\ \A e : ~psci_cpu_on(d, e) /\ ~psci_set_suspend_mode(d, e)
    BY <1>1, <1>2, <1>3, Zenon DEF psci_do_cpu_off, psci_cpu_on, psci_set_suspend_mode
<1>12. psci_validate_state_coordination(d)
    BY <1>4, <1>5, <1>7, <1>8, <1>9, <1>10, <1>11, Zenon
<1>13. d = c
    BY <1>1, <1>12, Zenon DEF psci_validate_state_coordination
<1> QED BY <1>12, <1>13, Zenon DEF Next

-----------------------------------------------------------------------------
(* The votes, locks and recorded states stay consistent through suspend,   *)
(* standby, CPU_OFF, CPU_ON and changes of the suspend mode.               *)
THEOREM VotesMatchCalls ==
    ASSUME OneLevel
    PROVE  Spec => [](plat \in Platforms /\ (Steady(plat) => IInv))
<1> DEFINE Inv == plat \in Platforms /\ (Steady(plat) => IInv)
<1>1. Init => Inv
    BY InitIInv, Zenon DEF Init
<1>2. Inv /\ [Next]_vars => Inv'
    <2> SUFFICES ASSUME Inv, [Next]_vars PROVE Inv'
        BY Zenon
    <2>1. plat' = plat
        BY Zenon DEF Next, vars
    <2>2. Steady(plat)' => Steady(plat)
        BY <2>1, Zenon DEF Steady
    <2> QED BY <2>1, <2>2, NextIInv, Zenon
<1> QED BY <1>1, <1>2, PTL DEF Spec

(* So on platforms that do not change modes around a standby.              *)
LEMMA SteadyInv ==
    ASSUME OneLevel, SteadyMode
    PROVE  Spec => []IInv
<1>1. plat \in Platforms /\ (Steady(plat) => IInv) => IInv
    BY Zenon DEF SteadyMode
<1> QED BY <1>1, VotesMatchCalls, PTL

(* A CPU that executes in the normal world votes for RUN: neither the      *)
(* standby fast path nor a denied or finished suspend leaves another vote. *)
THEOREM RunningCpuVotesRunHolds ==
    ASSUME OneLevel, SteadyMode
    PROVE  Spec => []RunningCpuVotesRun
<1>1. IInv => RunningCpuVotesRun
    <2> SUFFICES ASSUME IInv, ~plat.validate, NEW c \in CPUs, pc[c] = "run"
                 PROVE  \A l \in Levels : req_local_pwr_states[l][c] = RUN
        BY Zenon DEF RunningCpuVotesRun
    <2>1. Running(c)
        BY DEF Running
    <2>2. Vote(c) = RUN
        BY <2>1, Zenon DEF IInv, VoteOk
    <2> QED BY <2>2, OneLevelFacts, Zenon DEF Vote
<1> QED BY <1>1, SteadyInv, PTL

(* psci_set_target_local_pwr_states never records a cluster as idle while  *)
(* one of its CPUs executes, nor does a CPU come up in one that stays so.  *)
THEOREM IdleDomainIsIdleHolds ==
    ASSUME OneLevel
    PROVE  Spec => []IdleDomainIsIdle
<1>1. (Steady(plat) => IInv) => IdleDomainIsIdle
    <2> SUFFICES ASSUME Steady(plat) => IInv, ~plat.standby, ~plat.validate, NEW n \in Nodes, node_local_state[n] # RUN,
                        NEW c \in Below(n)
                 PROVE  ~Running(c)
        BY Zenon DEF IdleDomainIsIdle
    <2>1. n[1] = 1
        BY NodeFacts, Zenon
    <2>2. c \in CPUs /\ n = Node(c, 1)
        BY <2>1, Zenon DEF Below
    <2>3. IInv
        BY Zenon DEF Steady
    <2> QED BY <2>2, <2>3, Zenon DEF IInv, IdleInv
<1> QED BY <1>1, VotesMatchCalls, PTL

(* psci_validate_state_coordination grants a cluster only to the last of   *)
(* its CPUs that executes.                                                 *)
THEOREM GrantOnlyWhenLastHolds ==
    ASSUME OneLevel, SteadyMode, TruthfulCallers
    PROVE  Spec => GrantOnlyWhenLast
<1> DEFINE Granted == \A c \in CPUs : pc[c] = "locked" /\ pc'[c] = "granted" /\ psci_suspend_mode = OS_INIT =>
                         \A l \in 1 .. end_pwrlvl[c] : \A d \in Below(Node(c, l)) \ {c} : ~Running(d)
<1>1. IInv /\ [Next]_vars => [Granted]_vars
    <2> SUFFICES ASSUME IInv, Next, NEW c \in CPUs, pc[c] = "locked", pc'[c] = "granted",
                        psci_suspend_mode = OS_INIT, NEW l \in 1 .. end_pwrlvl[c],
                        NEW d \in Below(Node(c, l)) \ {c}
                 PROVE  ~Running(d)
        BY Zenon
    <2>1. TypeInv
        BY Zenon DEF IInv
    <2>2. end_pwrlvl[c] \in {0, 1}
        BY <2>1, Zenon DEF TypeInv
    <2>3. l = 1 /\ end_pwrlvl[c] = 1
        BY <2>2
    <2>4. d \in CPUs /\ d # c /\ Node(d, 1) = Node(c, 1)
        BY <2>3, BelowNode, Zenon
    <2>5. psci_validate_state_coordination(c) /\ plat' = plat
        BY <2>1, OnlyCheckGrants, Zenon
    <2> QED BY <2>3, <2>4, <2>5, ValidateStep, Zenon
<1> QED BY <1>1, SteadyInv, PTL DEF Spec, GrantOnlyWhenLast

=============================================================================
