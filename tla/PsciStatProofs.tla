--------------------------- MODULE PsciStatProofs ---------------------------
(***************************************************************************)
(* Proofs about PsciStat, for every assignment of CPUs to clusters, one or *)
(* two levels of power domains, and any number of requests.  A count is    *)
(* taken on the way up, from the state the way down left behind, so the    *)
(* invariant relates the states of the domains to the votes that produced  *)
(* them, and says for which sleeping domains nobody has gone down yet.     *)
(***************************************************************************)
EXTENDS PsciStat, TLAPS

AllLevels == 0 .. PLAT_MAX_PWR_LVL
AllNodes == CpuNodes \cup Domains

TypeInv ==
    /\ local_state \in [AllNodes -> States]
    /\ votes \in [Levels -> [CPUs -> States]]
    /\ aff \in [CPUs -> {"ON", "OFF", "ON_PENDING"}]
    /\ level \in [CPUs -> AllLevels]
    /\ last_cpu_in_non_cpu_pd \in [Domains -> CPUs \cup {None}]
    /\ count \in [AllNodes -> [{RET, OFF} -> Nat]]
    /\ entered \in [AllNodes -> [{RET, OFF} -> Nat]]
    /\ early \in BOOLEAN

\* A CPU that runs votes RUN everywhere, and one that sleeps votes RUN above
\* the level it sleeps to; nobody votes for more than for the levels below.
VotesInv ==
    /\ \A c \in CPUs : Runs(c) => aff[c] = "ON"
    /\ \A c \in CPUs, l \in Levels : Runs(c) \/ level[c] < l => votes[l][c] = RUN
    /\ \A c \in CPUs : aff[c] = "ON_PENDING" => level[c] = PLAT_MAX_PWR_LVL
    /\ \A c \in CPUs, l \in Levels, k \in Levels :
           k <= l /\ votes[k][c] = RUN => votes[l][c] = RUN

\* A domain runs exactly if one of its CPUs votes for that.
StateInv ==
    \A c \in CPUs, l \in Levels :
        local_state[Node(c, l)] = RUN <=>
        \E d \in CPUs : Node(d, l) = Node(c, l) /\ votes[l][d] = RUN

\* The system sleeps because some CPU has gone down, and while it sleeps no
\* CPU_ON can have been issued since.
SystemInv ==
    \A c \in CPUs : 2 \in Levels /\ local_state[Node(c, 2)] # RUN =>
        /\ last_cpu_in_non_cpu_pd[Node(c, 2)] # None
        /\ ~early => \A d \in CPUs : aff[d] # "ON_PENDING"

\* A cluster that sleeps without a last CPU has never run.
BootInv ==
    \A c \in CPUs :
        local_state[Node(c, 1)] # RUN /\ last_cpu_in_non_cpu_pd[Node(c, 1)] = None =>
            aff[c] # "ON" /\ \A s \in {RET, OFF} : entered[Node(c, 1)][s] = 0

\* Every other node that sleeps has entered the state it is in.
SleepInv ==
    \A n \in AllNodes :
        local_state[n] # RUN /\ (n \in Domains => last_cpu_in_non_cpu_pd[n] # None) =>
            entered[n][local_state[n]] > 0

IInv ==
    /\ TypeInv /\ VotesInv /\ StateInv /\ SystemInv /\ BootInv /\ SleepInv
    /\ stop = FALSE /\ CountsEntries

-----------------------------------------------------------------------------
(* The levels are the CPU's, the cluster's and possibly the system's.      *)
LEMMA LevelFacts ==
    /\ PLAT_MAX_PWR_LVL \in Nat /\ PLAT_MAX_PWR_LVL \in AllLevels /\ 1 \in Levels
    /\ \A l \in Levels : l \in AllLevels /\ l # 0 /\ l \in Nat /\ l <= PLAT_MAX_PWR_LVL
    /\ \A l \in Levels : l = 1 \/ l = 2
    /\ \A l \in AllLevels : l \in Nat /\ l <= PLAT_MAX_PWR_LVL /\ (l = 0 \/ l \in Levels)
    /\ 0 \in AllLevels
BY StatAssumption DEF Levels, AllLevels

(* The nodes of the tree: a node determines its level, and a node of level *)
(* 0 its CPU.                                                              *)
LEMMA NodeFacts ==
    /\ \A c \in CPUs, l \in AllLevels : Node(c, l)[1] = l /\ Node(c, l) \in AllNodes
    /\ \A c \in CPUs, l \in Levels : Node(c, l) \in Domains
    /\ \A c \in CPUs : Node(c, 0) \in CpuNodes /\ Node(c, 0) \notin Domains /\ <<0, c>> = Node(c, 0)
    /\ \A n \in AllNodes : \E c \in CPUs, l \in AllLevels : n = Node(c, l)
    /\ \A n \in Domains : n \in AllNodes /\ \E c \in CPUs, l \in Levels : n = Node(c, l)
    /\ \A c, d \in CPUs, l, k \in AllLevels : Node(c, l) = Node(d, k) => l = k
    /\ \A c, d \in CPUs : Node(c, 0) = Node(d, 0) => c = d
    /\ \A c, d \in CPUs : Node(c, 2) = Node(d, 2)
<1>1. \A c : Node(c, 0) = <<0, c>> /\ Node(c, 1) = <<1, Cluster[c]>> /\ Node(c, 2) = <<2, 0>>
    BY DEF Node
<1>2. \A l \in AllLevels : l = 0 \/ l = 1 \/ l = 2
    BY LevelFacts, Zenon
<1>4. \A c \in CPUs, l \in AllLevels : Node(c, l)[1] = l
    BY <1>1, <1>2
<1>5. \A c, d \in CPUs, l, k \in AllLevels : Node(c, l) = Node(d, k) => l = k
    BY <1>4, Zenon
<1>6. \A c, d \in CPUs : Node(c, 0) = Node(d, 0) => c = d
    BY <1>1
<1>7. \A c \in CPUs : Node(c, 0) \in CpuNodes
    BY Zenon DEF CpuNodes
<1>8. \A c \in CPUs, l \in Levels : Node(c, l) \in Domains
    BY DEF Domains
<1>9. \A n \in Domains : \E c \in CPUs, l \in Levels : n = Node(c, l)
    BY DEF Domains
<1>10. \A n \in CpuNodes : \E c \in CPUs : n = Node(c, 0)
    BY Zenon DEF CpuNodes
<1>11. \A c \in CPUs : Node(c, 0) \notin Domains
    <2> SUFFICES ASSUME NEW c \in CPUs, Node(c, 0) \in Domains PROVE FALSE
        BY Zenon
    <2>1. PICK d \in CPUs, l \in Levels : Node(c, 0) = Node(d, l)
        BY <1>9, Zenon
    <2>2. l \in AllLevels /\ l # 0 /\ 0 \in AllLevels
        BY LevelFacts, Zenon
    <2>3. 0 = l
        BY <1>5, <2>1, <2>2, Zenon
    <2> QED BY <2>2, <2>3, Zenon
<1>12. \A c \in CPUs, l \in AllLevels : Node(c, l) \in AllNodes
    BY <1>7, <1>8, LevelFacts, Zenon DEF AllNodes
<1>13. \A n \in AllNodes : \E c \in CPUs, l \in AllLevels : n = Node(c, l)
    BY <1>9, <1>10, LevelFacts, Zenon DEF AllNodes
<1>15. \A n \in Domains : n \in AllNodes
    BY Zenon DEF AllNodes
<1>16. \A c, d \in CPUs : Node(c, 2) = Node(d, 2)
    BY <1>1, Zenon
<1>17. \A c \in CPUs : <<0, c>> = Node(c, 0)
    BY <1>1, Zenon
<1>18. \A c \in CPUs : Node(c, 0) \in CpuNodes /\ Node(c, 0) \notin Domains /\ <<0, c>> = Node(c, 0)
    BY <1>7, <1>11, <1>17, Zenon
<1>19. \A n \in Domains : n \in AllNodes /\ \E c \in CPUs, l \in Levels : n = Node(c, l)
    BY <1>9, <1>15, Zenon
<1>20. \A c \in CPUs, l \in AllLevels : Node(c, l)[1] = l /\ Node(c, l) \in AllNodes
    BY <1>4, <1>12, Zenon
<1> QED
    BY <1>5, <1>6, <1>8, <1>13, <1>16, <1>18, <1>19, <1>20, Zenon

(* Nodes of different levels are different.                                *)
LEMMA NodeLevel ==
    ASSUME NEW c \in CPUs, NEW d \in CPUs, NEW l \in AllLevels, NEW k \in AllLevels,
           Node(c, l) = Node(d, k)
    PROVE  l = k
<1>1. Node(c, l)[1] = l /\ Node(d, k)[1] = k
    BY NodeFacts, Zenon
<1> QED BY <1>1, Zenon

(* The CPUs below a node are those it is the node of.                      *)
LEMMA BelowNode ==
    ASSUME NEW c \in CPUs, NEW l \in AllLevels
    PROVE  \A d : d \in Below(Node(c, l)) <=> d \in CPUs /\ Node(d, l) = Node(c, l)
<1>1. Node(c, l)[1] = l
    BY NodeFacts, Zenon
<1> QED BY <1>1, Zenon DEF Below

(* The shallowest of a set of states.                                      *)
LEMMA MinState ==
    ASSUME NEW T \in SUBSET States, T # {}
    PROVE  Min(T) \in T /\ Min(T) \in States /\ (Min(T) = RUN <=> RUN \in T)
<1>1. \E x \in T : \A y \in T : x <= y
    <2>1. T \subseteq {0, 1, 2}
        BY Zenon DEF States, RUN, RET, OFF
    <2>2. CASE 0 \in T
        <3>1. \A y \in T : 0 <= y
            BY <2>1
        <3> QED BY <2>2, <3>1, Zenon
    <2>3. CASE 0 \notin T /\ 1 \in T
        <3>1. \A y \in T : 1 <= y
            BY <2>1, <2>3
        <3> QED BY <2>3, <3>1, Zenon
    <2>4. CASE 0 \notin T /\ 1 \notin T
        <3>1. 2 \in T /\ \A y \in T : y = 2
            BY <2>1, <2>4, Zenon
        <3>2. \A y \in T : 2 <= y
            BY <3>1
        <3> QED BY <3>1, <3>2, Zenon
    <2> QED BY <2>2, <2>3, <2>4, Zenon
<1>2. Min(T) \in T /\ \A y \in T : Min(T) <= y
    BY <1>1, Zenon DEF Min
<1>3. Min(T) \in {0, 1, 2}
    BY <1>2, Zenon DEF States, RUN, RET, OFF
<1>4. 0 \in T => Min(T) = 0
    <2>1. 0 \in T => Min(T) <= 0
        BY <1>2, Zenon
    <2> QED BY <1>3, <2>1
<1> QED BY <1>2, <1>4, Zenon DEF RUN

(* The deepest level of a request.                                         *)
LEMMA MaxLevel ==
    ASSUME NEW T \in SUBSET AllLevels, T # {}
    PROVE  Max(T) \in T /\ Max(T) \in AllLevels /\ \A y \in T : y <= Max(T)
<1>1. T \subseteq {0, 1, 2}
    BY LevelFacts, Zenon
<1>2. \E x \in T : \A y \in T : x >= y
    <2>1. CASE 2 \in T
        <3>1. \A y \in T : 2 >= y
            BY <1>1
        <3> QED BY <2>1, <3>1, Zenon
    <2>2. CASE 2 \notin T /\ 1 \in T
        <3>1. \A y \in T : 1 >= y
            BY <1>1, <2>2
        <3> QED BY <2>2, <3>1, Zenon
    <2>3. CASE 2 \notin T /\ 1 \notin T
        <3>1. 0 \in T /\ \A y \in T : y = 0
            BY <1>1, <2>3, Zenon
        <3>2. \A y \in T : 0 >= y
            BY <3>1
        <3> QED BY <3>1, <3>2, Zenon
    <2> QED BY <2>1, <2>2, <2>3, Zenon
<1>3. Max(T) \in T /\ \A y \in T : Max(T) >= y
    BY <1>2, Zenon DEF Max
<1>4. Max(T) \in AllLevels
    BY <1>3, Zenon
<1>5. ASSUME NEW y \in T PROVE y <= Max(T)
    <2>1. y \in Nat /\ Max(T) \in Nat
        BY <1>4, LevelFacts, Zenon
    <2> QED BY <1>3, <2>1
<1> QED BY <1>3, <1>4, <1>5, Zenon

(* The levels up to the one a CPU goes down to, or comes up from.          *)
LEMMA UpTo ==
    ASSUME NEW end \in AllLevels
    PROVE  /\ \A l : l \in 1 .. end <=> l \in Levels /\ l <= end
           /\ \A l : l \in 0 .. end <=> l = 0 \/ (l \in Levels /\ l <= end)
           /\ end # 0 => 1 <= end
           /\ \A l \in Levels : \A k \in 1 .. l : k \in Levels /\ k <= l
           /\ \A l \in Levels : l <= end \/ end < l
           /\ \A l, k \in Levels : k <= l => k \in 1 .. l
           /\ \A l, k \in Levels : k <= l /\ l <= end => k <= end
           /\ \A l \in Levels : l <= l
BY StatAssumption DEF Levels, AllLevels

(* psci_do_state_coordination leaves a domain RUN exactly if a CPU of it,  *)
(* or of a domain below it on the way to the caller, votes RUN.            *)
LEMMA CoordinatedStates ==
    ASSUME NEW c \in CPUs, NEW end \in AllLevels, NEW v \in [Levels -> [CPUs -> States]],
           NEW t, t = Coordinated(v, c, end)
    PROVE  /\ DOMAIN t = 1 .. end
           /\ \A l \in 1 .. end :
                /\ t[l] \in States
                /\ t[l] = RUN <=> \E k \in 1 .. l : \E d \in CPUs : Node(d, k) = Node(c, k) /\ v[k][d] = RUN
<1> DEFINE T(l) == {v[l][d] : d \in Below(Node(c, l))}
           m(l) == Min(T(l))
<1>1. t = [l \in 1 .. end |-> IF \E k \in 1 .. l : m(k) = RUN THEN RUN ELSE m(l)]
    BY Zenon DEF Coordinated
<1>2. ASSUME NEW l \in Levels
      PROVE  m(l) \in States /\ (m(l) = RUN <=> \E d \in CPUs : Node(d, l) = Node(c, l) /\ v[l][d] = RUN)
    <2>1. l \in AllLevels
        BY LevelFacts, Zenon
    <2>2. \A d : d \in Below(Node(c, l)) <=> d \in CPUs /\ Node(d, l) = Node(c, l)
        BY <2>1, BelowNode, Zenon
    <2>3. v[l] \in [CPUs -> States]
        BY Zenon
    <2>4. T(l) \in SUBSET States /\ T(l) # {}
        BY <2>2, <2>3, Zenon
    <2>5. RUN \in T(l) <=> \E d \in CPUs : Node(d, l) = Node(c, l) /\ v[l][d] = RUN
        BY <2>2, Zenon
    <2> HIDE DEF T
    <2> QED BY <2>4, <2>5, MinState, Zenon
<1> HIDE DEF m
<1>3. DOMAIN t = 1 .. end
    BY <1>1, Zenon
<1>4. ASSUME NEW l \in 1 .. end
      PROVE  /\ t[l] \in States
             /\ t[l] = RUN <=> \E k \in 1 .. l : \E d \in CPUs : Node(d, k) = Node(c, k) /\ v[k][d] = RUN
    <2>1. l \in Levels /\ l \in 1 .. l /\ \A k \in 1 .. l : k \in Levels
        BY UpTo, Zenon
    <2>2. t[l] = IF \E k \in 1 .. l : m(k) = RUN THEN RUN ELSE m(l)
        BY <1>1, Zenon
    <2>3. t[l] = RUN <=> \E k \in 1 .. l : m(k) = RUN
        BY <2>1, <2>2, Zenon
    <2>4. t[l] \in States
        BY <1>2, <2>1, <2>2, Zenon DEF States
    <2> QED BY <1>2, <2>1, <2>3, <2>4, Zenon
<1> QED BY <1>3, <1>4, Zenon

-----------------------------------------------------------------------------
\* A request that has passed validation asks for sleep at every level it names.
IsRequest(s, end) == s \in [AllLevels -> States] /\ \A l \in 0 .. end : s[l] # RUN

\* What a request of c does to a node: it falls asleep with c as its last CPU
\* and has entered the new state, or nothing happens to it.
FallsAsleep(n, c) ==
    /\ local_state[n] = RUN /\ local_state'[n] \in {RET, OFF}
    /\ n \in Domains => last_cpu_in_non_cpu_pd'[n] = c
    /\ \A q \in {RET, OFF} :
          entered'[n][q] = IF q = local_state'[n] THEN entered[n][q] + 1 ELSE entered[n][q]

StaysAsIs(n) ==
    /\ local_state'[n] = local_state[n]
    /\ n \in Domains => last_cpu_in_non_cpu_pd'[n] = last_cpu_in_non_cpu_pd[n]
    /\ \A q \in {RET, OFF} : entered'[n][q] = entered[n][q]

\* The states and votes after a request of c, level by level.
DownVotes(c, s, end) ==
    \A l \in Levels, d \in CPUs :
        votes'[l][d] = IF d = c /\ l <= end THEN s[l] ELSE votes[l][d]

DownStates(c, end) ==
    /\ local_state'[Node(c, 0)] # RUN
    /\ \A d \in CPUs : d # c => local_state'[Node(d, 0)] = local_state[Node(d, 0)]
    /\ \A l \in Levels, d \in CPUs :
          IF l <= end /\ Node(d, l) = Node(c, l)
          THEN local_state'[Node(d, l)] = RUN <=>
                 \E k \in 1 .. l : \E e \in CPUs : Node(e, k) = Node(c, k) /\ votes'[k][e] = RUN
          ELSE local_state'[Node(d, l)] = local_state[Node(d, l)]

(* A CPU that runs has only running nodes above it.                        *)
LEMMA RunsAbove ==
    ASSUME IInv, NEW c \in CPUs, Runs(c)
    PROVE  /\ \A l \in Levels : local_state[Node(c, l)] = RUN /\ votes[l][c] = RUN
           /\ local_state[Node(c, 0)] = RUN /\ aff[c] = "ON"
<1>1. \A l \in Levels : votes[l][c] = RUN
    BY Zenon DEF IInv, VotesInv
<1>2. \A l \in Levels : local_state[Node(c, l)] = RUN
    BY <1>1, Zenon DEF IInv, StateInv
<1>3. local_state[Node(c, 0)] = RUN
    BY NodeFacts, Zenon DEF Runs
<1> QED BY <1>1, <1>2, <1>3, Zenon DEF IInv, VotesInv

(* Going down, as the invariant sees it.                                   *)
LEMMA GoDownEffect ==
    ASSUME IInv, NEW c \in CPUs, NEW end \in AllLevels, NEW s, IsRequest(s, end), GoDown(c, s, end)
    PROVE  /\ local_state' \in [AllNodes -> States] /\ votes' \in [Levels -> [CPUs -> States]]
           /\ level' = [level EXCEPT ![c] = end]
           /\ last_cpu_in_non_cpu_pd' \in [Domains -> CPUs \cup {None}]
           /\ entered' \in [AllNodes -> [{RET, OFF} -> Nat]] /\ count' = count
           /\ stop' = FALSE /\ early' = (early \/ \E d \in CPUs : aff[d] = "ON_PENDING")
           /\ DownVotes(c, s, end) /\ DownStates(c, end)
           /\ \A n \in AllNodes : FallsAsleep(n, c) \/ StaysAsIs(n)
<1> DEFINE v == [l \in Levels |-> IF l <= end THEN [votes[l] EXCEPT ![c] = s[l]] ELSE votes[l]]
           t == Coordinated(v, c, end)
           new(n) == CASE n = <<0, c>> -> s[0]
                       [] \E l \in 1 .. end : n = Node(c, l) -> t[n[1]]
                       [] OTHER -> local_state[n]
<1>1. /\ Runs(c) /\ votes' = v /\ local_state' = [n \in AllNodes |-> new(n)]
      /\ level' = [level EXCEPT ![c] = end]
      /\ last_cpu_in_non_cpu_pd' = psci_stats_update_pwr_down(c, t)
      /\ entered' = [n \in AllNodes |-> [q \in {RET, OFF} |->
                        IF local_state[n] = RUN /\ new(n) = q THEN entered[n][q] + 1 ELSE entered[n][q]]]
      /\ early' = (early \/ \E d \in CPUs : aff[d] = "ON_PENDING")
      /\ count' = count /\ stop' = stop
    BY Zenon DEF GoDown, AllNodes
<1>2. \A l \in Levels, d \in CPUs : v[l][d] = IF d = c /\ l <= end THEN s[l] ELSE votes[l][d]
    <2> SUFFICES ASSUME NEW l \in Levels, NEW d \in CPUs
                 PROVE  v[l][d] = IF d = c /\ l <= end THEN s[l] ELSE votes[l][d]
        BY Zenon
    <2>1. votes[l] \in [CPUs -> States]
        BY Zenon DEF IInv, TypeInv
    <2>2. v[l] = IF l <= end THEN [votes[l] EXCEPT ![c] = s[l]] ELSE votes[l]
        BY Zenon
    <2> QED BY <2>1, <2>2, Zenon
<1>3. v \in [Levels -> [CPUs -> States]]
    <2> SUFFICES ASSUME NEW l \in Levels
                 PROVE  (IF l <= end THEN [votes[l] EXCEPT ![c] = s[l]] ELSE votes[l]) \in [CPUs -> States]
        BY Zenon
    <2>1. votes[l] \in [CPUs -> States] /\ s[l] \in States
        BY LevelFacts, Zenon DEF IInv, TypeInv, IsRequest
    <2> QED BY <2>1, Zenon
<1> HIDE DEF v
<1>4. /\ DOMAIN t = 1 .. end
      /\ \A l \in 1 .. end :
            /\ t[l] \in States
            /\ t[l] = RUN <=> \E k \in 1 .. l : \E d \in CPUs : Node(d, k) = Node(c, k) /\ v[k][d] = RUN
    BY <1>3, CoordinatedStates
<1> HIDE DEF t
<1>5. new(Node(c, 0)) = s[0] /\ s[0] \in {RET, OFF}
    <2>1. <<0, c>> = Node(c, 0) /\ ~\E l \in 1 .. end : Node(c, 0) = Node(c, l)
        BY NodeFacts, UpTo, LevelFacts, Zenon
    <2>2. new(Node(c, 0)) = s[0]
        BY <2>1, Zenon
    <2>3. s[0] \in States /\ s[0] # RUN
        BY LevelFacts, UpTo, Zenon DEF IsRequest
    <2> QED BY <2>2, <2>3, Zenon DEF States
<1>6. ASSUME NEW l \in 1 .. end PROVE new(Node(c, l)) = t[l]
    <2>1. <<0, c>> # Node(c, l) /\ Node(c, l)[1] = l
        BY NodeFacts, UpTo, LevelFacts, Zenon
    <2>2. \E k \in 1 .. end : Node(c, l) = Node(c, k)
        BY Zenon
    <2> QED BY <2>1, <2>2, Zenon
<1>7. ASSUME NEW n \in AllNodes, n # Node(c, 0), ~\E l \in 1 .. end : n = Node(c, l)
      PROVE  new(n) = local_state[n]
    <2>1. <<0, c>> = Node(c, 0)
        BY NodeFacts, Zenon
    <2> QED BY <1>7, <2>1, Zenon
<1>8. \A n \in AllNodes : local_state[n] \in States /\ new(n) \in States
    BY <1>4, <1>5, <1>6, <1>7, Zenon DEF IInv, TypeInv, States
<1> HIDE DEF new
<1>9. local_state' \in [AllNodes -> States] /\ \A n \in AllNodes : local_state'[n] = new(n)
    BY <1>1, <1>8, Zenon
<1>10. DownVotes(c, s, end)
    BY <1>1, <1>2, Zenon DEF DownVotes
<1>11. /\ last_cpu_in_non_cpu_pd' \in [Domains -> CPUs \cup {None}]
       /\ \A n \in Domains : last_cpu_in_non_cpu_pd'[n] =
            IF \E l \in 1 .. end : n = Node(c, l) /\ t[l] # RUN THEN c ELSE last_cpu_in_non_cpu_pd[n]
    BY <1>1, <1>4, Zenon DEF psci_stats_update_pwr_down, IInv, TypeInv
<1>12. ASSUME NEW n \in AllNodes
       PROVE  /\ entered'[n] \in [{RET, OFF} -> Nat]
              /\ \A q \in {RET, OFF} :
                    entered'[n][q] = IF local_state[n] = RUN /\ new(n) = q THEN entered[n][q] + 1 ELSE entered[n][q]
    <2>1. \A q \in {RET, OFF} : entered[n][q] \in Nat
        BY Zenon DEF IInv, TypeInv
    <2>2. \A q \in {RET, OFF} : entered[n][q] + 1 \in Nat
        BY <2>1
    <2> QED BY <1>1, <2>1, <2>2, Zenon
<1>13. entered' \in [AllNodes -> [{RET, OFF} -> Nat]]
    BY <1>1, <1>12, Zenon
<1>14. RUN \notin {RET, OFF}
    BY DEF RUN, RET, OFF
<1>15. FallsAsleep(Node(c, 0), c)
    <2>1. Node(c, 0) \in AllNodes /\ Node(c, 0) \notin Domains
        BY NodeFacts, LevelFacts, Zenon
    <2>2. local_state[Node(c, 0)] = RUN
        BY <1>1, RunsAbove, Zenon
    <2> QED BY <1>5, <1>9, <1>12, <2>1, <2>2, Zenon DEF FallsAsleep
<1>16. ASSUME NEW l \in 1 .. end PROVE FallsAsleep(Node(c, l), c) \/ StaysAsIs(Node(c, l))
    <2> DEFINE n == Node(c, l)
    <2>1. l \in Levels /\ l \in AllLevels
        BY UpTo, LevelFacts, Zenon
    <2>2. n \in AllNodes /\ n \in Domains
        BY <2>1, NodeFacts, Zenon
    <2>3. local_state[n] = RUN
        BY <1>1, <2>1, RunsAbove, Zenon
    <2>4. local_state'[n] = t[l] /\ new(n) = t[l] /\ t[l] \in States
        BY <1>4, <1>6, <1>9, <2>2, Zenon
    <2>5. \A k \in 1 .. end : n = Node(c, k) => k = l
        <3>1. \A k \in 1 .. end : k \in AllLevels
            BY UpTo, LevelFacts, Zenon
        <3> QED BY <2>1, <3>1, NodeLevel, Zenon
    <2>6. last_cpu_in_non_cpu_pd'[n] = IF t[l] # RUN THEN c ELSE last_cpu_in_non_cpu_pd[n]
        BY <1>11, <2>2, <2>5, Zenon
    <2>7. \A q \in {RET, OFF} : entered'[n][q] = IF t[l] = q THEN entered[n][q] + 1 ELSE entered[n][q]
        BY <1>12, <2>2, <2>3, <2>4, Zenon
    <2>8. t[l] = RUN \/ t[l] \in {RET, OFF}
        BY <2>4, Zenon DEF States
    <2> HIDE DEF n
    <2>9. CASE t[l] = RUN
        BY <1>14, <2>3, <2>4, <2>6, <2>7, <2>9, Zenon DEF StaysAsIs, n
    <2>10. CASE t[l] # RUN
        BY <2>3, <2>4, <2>6, <2>7, <2>8, <2>10, Zenon DEF FallsAsleep, n
    <2> QED BY <2>9, <2>10, Zenon
<1>17. ASSUME NEW n \in AllNodes, n # Node(c, 0), ~\E l \in 1 .. end : n = Node(c, l)
       PROVE  StaysAsIs(n)
    <2>1. local_state'[n] = local_state[n] /\ new(n) = local_state[n]
        BY <1>7, <1>9, <1>17, Zenon
    <2>2. n \in Domains => last_cpu_in_non_cpu_pd'[n] = last_cpu_in_non_cpu_pd[n]
        BY <1>11, <1>17, Zenon
    <2>3. \A q \in {RET, OFF} : entered'[n][q] = entered[n][q]
        BY <1>12, <1>14, <2>1, Zenon
    <2> QED BY <2>1, <2>2, <2>3, Zenon DEF StaysAsIs
<1>18. \A n \in AllNodes : FallsAsleep(n, c) \/ StaysAsIs(n)
    BY <1>15, <1>16, <1>17, Zenon
<1>19. DownStates(c, end)
    <2>1. local_state'[Node(c, 0)] # RUN
        BY <1>14, <1>15, Zenon DEF FallsAsleep
    <2>2. ASSUME NEW d \in CPUs, d # c PROVE local_state'[Node(d, 0)] = local_state[Node(d, 0)]
        <3>1. /\ Node(d, 0) \in AllNodes /\ Node(d, 0) # Node(c, 0)
              /\ ~\E l \in 1 .. end : Node(d, 0) = Node(c, l)
            BY <2>2, NodeFacts, UpTo, LevelFacts, Zenon
        <3> QED BY <1>17, <3>1, Zenon DEF StaysAsIs
    <2>3. ASSUME NEW l \in Levels, NEW d \in CPUs, l <= end, Node(d, l) = Node(c, l)
          PROVE  local_state'[Node(d, l)] = RUN <=>
                 \E k \in 1 .. l : \E e \in CPUs : Node(e, k) = Node(c, k) /\ votes'[k][e] = RUN
        <3>1. l \in 1 .. end /\ Node(c, l) \in AllNodes
            BY <2>3, UpTo, NodeFacts, LevelFacts, Zenon
        <3>2. local_state'[Node(d, l)] = t[l]
            BY <1>6, <1>9, <2>3, <3>1, Zenon
        <3> QED BY <1>1, <1>4, <3>1, <3>2, Zenon
    <2>4. ASSUME NEW l \in Levels, NEW d \in CPUs, ~(l <= end /\ Node(d, l) = Node(c, l))
          PROVE  local_state'[Node(d, l)] = local_state[Node(d, l)]
        <3>1. l \in AllLevels /\ 0 \in AllLevels /\ l # 0
            BY LevelFacts, Zenon
        <3>2. Node(d, l) \in AllNodes /\ Node(d, l) # Node(c, 0)
            BY <3>1, NodeFacts, Zenon
        <3>3. ASSUME NEW k \in 1 .. end, Node(d, l) = Node(c, k) PROVE FALSE
            <4>1. k \in AllLevels /\ k <= end
                BY UpTo, LevelFacts, Zenon
            <4>2. l = k
                BY <3>1, <3>3, <4>1, NodeLevel, Zenon
            <4> QED BY <2>4, <3>3, <4>1, <4>2, Zenon
        <3> QED BY <1>17, <3>2, <3>3, Zenon DEF StaysAsIs
    <2> QED BY <2>1, <2>2, <2>3, <2>4, Zenon DEF DownStates
<1>20. stop' = FALSE
    BY <1>1, Zenon DEF IInv
<1> QED BY <1>1, <1>3, <1>9, <1>10, <1>11, <1>13, <1>18, <1>19, <1>20, Zenon

(* Nodes of two CPUs that meet at a level are the same above it.           *)
LEMMA SameAbove ==
    ASSUME NEW c \in CPUs, NEW d \in CPUs, NEW l \in Levels, NEW k \in Levels, k <= l,
           Node(c, k) = Node(d, k)
    PROVE  Node(c, l) = Node(d, l)
<1>1. k = l \/ l = 2
    BY LevelFacts
<1>2. Node(c, 2) = Node(d, 2)
    BY NodeFacts, Zenon
<1> QED BY <1>1, <1>2, Zenon

(* Going down keeps the relation between requests, votes and states.       *)
LEMMA GoDownVotes ==
    ASSUME IInv, NEW c \in CPUs, NEW end \in AllLevels, NEW s, IsRequest(s, end), Runs(c),
           DownVotes(c, s, end), DownStates(c, end), level' = [level EXCEPT ![c] = end],
           \A d \in CPUs : d # c => aff'[d] = aff[d], aff'[c] # "ON_PENDING"
    PROVE  VotesInv' /\ StateInv'
<1>1. \A l \in Levels : votes[l][c] = RUN
    BY RunsAbove, Zenon
<1>2. /\ \A d \in CPUs : (Runs(d) <=> local_state[Node(d, 0)] = RUN)
      /\ \A d \in CPUs : (Runs(d)' <=> local_state'[Node(d, 0)] = RUN)
    <2>1. \A d \in CPUs : <<0, d>> = Node(d, 0)
        BY NodeFacts, Zenon
    <2> QED BY <2>1, Zenon DEF Runs
<1>3. ~Runs(c)' /\ \A d \in CPUs : d # c => (Runs(d)' <=> Runs(d))
    BY <1>2, Zenon DEF DownStates
<1>4. level'[c] = end /\ \A d \in CPUs : d # c => level'[d] = level[d]
    BY Zenon DEF IInv, TypeInv
<1>5. \A l \in Levels : ~(l <= end) => votes'[l][c] = RUN
    BY <1>1, Zenon DEF DownVotes
<1>6. \A l \in Levels : l <= end => votes'[l][c] # RUN
    <2>1. \A l \in Levels : l <= end => l \in 0 .. end
        BY UpTo, Zenon
    <2> QED BY <2>1, Zenon DEF DownVotes, IsRequest
<1>7. \A d \in CPUs, l \in Levels : d # c => votes'[l][d] = votes[l][d]
    BY Zenon DEF DownVotes
<1>8. \A d \in CPUs : Runs(d)' => aff'[d] = "ON"
    BY <1>3, Zenon DEF IInv, VotesInv
<1>9. \A d \in CPUs, l \in Levels : Runs(d)' \/ level'[d] < l => votes'[l][d] = RUN
    <2>1. \A l \in Levels : end < l => ~(l <= end)
        <3>1. end \in Nat /\ \A l \in Levels : l \in Nat
            BY LevelFacts, Zenon
        <3> QED BY <3>1
    <2>2. \A l \in Levels : level'[c] < l => votes'[l][c] = RUN
        BY <1>4, <1>5, <2>1, Zenon
    <2>3. \A d \in CPUs, l \in Levels : d # c /\ (Runs(d) \/ level[d] < l) => votes'[l][d] = RUN
        BY <1>7, Zenon DEF IInv, VotesInv
    <2> QED BY <1>3, <1>4, <2>2, <2>3, Zenon
<1>10. \A d \in CPUs : aff'[d] = "ON_PENDING" => level'[d] = PLAT_MAX_PWR_LVL
    BY <1>4, Zenon DEF IInv, VotesInv
<1>11. ASSUME NEW d \in CPUs, NEW l \in Levels, NEW k \in Levels, k <= l, votes'[k][d] = RUN
       PROVE  votes'[l][d] = RUN
    <2>1. CASE d = c
        <3>1. ~(k <= end)
            BY <1>6, <1>11, <2>1, Zenon
        <3>2. ~(l <= end)
            BY <1>11, <3>1, UpTo, Zenon
        <3> QED BY <1>5, <2>1, <3>2, Zenon
    <2>2. CASE d # c
        BY <1>7, <1>11, <2>2, Zenon DEF IInv, VotesInv
    <2> QED BY <2>1, <2>2, Zenon
<1>12. ASSUME NEW d \in CPUs, NEW l \in Levels
       PROVE  local_state'[Node(d, l)] = RUN <=>
              \E e \in CPUs : Node(e, l) = Node(d, l) /\ votes'[l][e] = RUN
    <2>1. CASE l <= end /\ Node(d, l) = Node(c, l)
        <3>1. local_state'[Node(d, l)] = RUN <=>
                \E k \in 1 .. l : \E e \in CPUs : Node(e, k) = Node(c, k) /\ votes'[k][e] = RUN
            BY <2>1, Zenon DEF DownStates
        <3>2. l \in 1 .. l /\ \A k \in 1 .. l : k \in Levels /\ k <= l
            BY UpTo, Zenon
        <3>3. ASSUME NEW k \in 1 .. l, NEW e \in CPUs, Node(e, k) = Node(c, k), votes'[k][e] = RUN
              PROVE  Node(e, l) = Node(d, l) /\ votes'[l][e] = RUN
            <4>1. k \in Levels /\ k <= l
                BY <3>2, Zenon
            <4>2. Node(e, l) = Node(c, l)
                BY <3>3, <4>1, SameAbove
            <4>3. votes'[l][e] = RUN
                BY <1>11, <3>3, <4>1
            <4>4. Node(d, l) = Node(c, l)
                BY <2>1, Zenon
            <4> QED BY <4>2, <4>3, <4>4
        <3> QED BY <2>1, <3>1, <3>2, <3>3, Zenon
    <2>2. CASE ~(l <= end /\ Node(d, l) = Node(c, l))
        <3>1. local_state'[Node(d, l)] = local_state[Node(d, l)]
            BY <2>2, Zenon DEF DownStates
        <3>2. \A e \in CPUs : Node(e, l) = Node(d, l) => votes'[l][e] = votes[l][e]
            BY <1>1, <1>5, <1>7, <2>2, Zenon
        <3>3. local_state[Node(d, l)] = RUN <=>
                \E e \in CPUs : Node(e, l) = Node(d, l) /\ votes[l][e] = RUN
            BY Zenon DEF IInv, StateInv
        <3> QED BY <3>1, <3>2, <3>3, Zenon
    <2> QED BY <2>1, <2>2, Zenon
<1> QED BY <1>8, <1>9, <1>10, <1>11, <1>12, Zenon DEF VotesInv, StateInv

\* What CountsEntries says of a node and a state.
Counted(n, s) ==
    ~(early /\ n[1] = 2) =>
    count[n][s] = entered[n][s] - (IF local_state[n] = s /\ entered[n][s] > 0 THEN 1 ELSE 0)

(* Going down keeps what the invariant says of single nodes.               *)
LEMMA GoDownNodes ==
    ASSUME IInv, NEW c \in CPUs,
           \A n \in AllNodes : FallsAsleep(n, c) \/ StaysAsIs(n),
           count' = count, early' = (early \/ \E d \in CPUs : aff[d] = "ON_PENDING"),
           \A d \in CPUs : aff'[d] = "ON" => aff[d] = "ON",
           \A d \in CPUs : aff'[d] = "ON_PENDING" => aff[d] = "ON_PENDING"
    PROVE  SystemInv' /\ BootInv' /\ SleepInv' /\ CountsEntries'
<1>1. c # None
    BY StatAssumption, Zenon
<1>2. ASSUME NEW d \in CPUs, 2 \in Levels, local_state'[Node(d, 2)] # RUN
      PROVE  /\ last_cpu_in_non_cpu_pd'[Node(d, 2)] # None
             /\ ~early' => \A e \in CPUs : aff'[e] # "ON_PENDING"
    <2> DEFINE n == Node(d, 2)
    <2>1. n \in Domains /\ n \in AllNodes
        BY <1>2, NodeFacts, Zenon
    <2>2. ~early' => \A e \in CPUs : aff'[e] # "ON_PENDING"
        BY Zenon
    <2>3. CASE FallsAsleep(n, c)
        BY <1>1, <2>1, <2>2, <2>3, Zenon DEF FallsAsleep
    <2>4. CASE StaysAsIs(n)
        <3>1. local_state[n] # RUN /\ last_cpu_in_non_cpu_pd'[n] = last_cpu_in_non_cpu_pd[n]
            BY <1>2, <2>1, <2>4, Zenon DEF StaysAsIs
        <3>2. last_cpu_in_non_cpu_pd[n] # None
            BY <1>2, <3>1, Zenon DEF IInv, SystemInv
        <3> QED BY <2>2, <3>1, <3>2, Zenon
    <2> QED BY <2>1, <2>3, <2>4, Zenon
<1>3. ASSUME NEW d \in CPUs, local_state'[Node(d, 1)] # RUN, last_cpu_in_non_cpu_pd'[Node(d, 1)] = None
      PROVE  aff'[d] # "ON" /\ \A q \in {RET, OFF} : entered'[Node(d, 1)][q] = 0
    <2> DEFINE n == Node(d, 1)
    <2>1. n \in Domains /\ n \in AllNodes
        BY NodeFacts, LevelFacts, Zenon
    <2>2. ~FallsAsleep(n, c)
        BY <1>1, <1>3, <2>1, Zenon DEF FallsAsleep
    <2>3. /\ local_state[n] # RUN /\ last_cpu_in_non_cpu_pd[n] = None
          /\ \A q \in {RET, OFF} : entered'[n][q] = entered[n][q]
        BY <1>3, <2>1, <2>2, Zenon DEF StaysAsIs
    <2> QED BY <2>3, Zenon DEF IInv, BootInv
<1>4. ASSUME NEW n \in AllNodes
      PROVE  /\ local_state[n] \in States
             /\ \A q \in {RET, OFF} : entered[n][q] \in Nat /\ count[n][q] \in Nat /\ Counted(n, q)
    <2>1. \A q \in {RET, OFF} : Counted(n, q)
        BY Zenon DEF IInv, CountsEntries, Counted, AllNodes
    <2> QED BY <2>1, Zenon DEF IInv, TypeInv
<1>5. ASSUME NEW n \in AllNodes, local_state'[n] # RUN,
             n \in Domains => last_cpu_in_non_cpu_pd'[n] # None
      PROVE  entered'[n][local_state'[n]] > 0
    <2>1. CASE FallsAsleep(n, c)
        <3>1. local_state'[n] \in {RET, OFF} /\ entered'[n][local_state'[n]] = entered[n][local_state'[n]] + 1
            BY <2>1, Zenon DEF FallsAsleep
        <3>2. entered[n][local_state'[n]] \in Nat
            BY <1>4, <3>1, Zenon
        <3> QED BY <3>1, <3>2
    <2>2. CASE StaysAsIs(n)
        <3>1. /\ local_state[n] # RUN /\ local_state'[n] = local_state[n]
              /\ n \in Domains => last_cpu_in_non_cpu_pd[n] # None
            BY <1>5, <2>2, Zenon DEF StaysAsIs
        <3>2. entered[n][local_state[n]] > 0
            BY <3>1, Zenon DEF IInv, SleepInv
        <3>3. local_state[n] \in {RET, OFF}
            BY <1>4, <3>1, Zenon DEF States
        <3>4. entered'[n][local_state[n]] = entered[n][local_state[n]]
            BY <2>2, <3>3, Zenon DEF StaysAsIs
        <3> QED BY <3>1, <3>2, <3>4, Zenon
    <2> QED BY <2>1, <2>2, Zenon
<1>6. ASSUME NEW n \in AllNodes, NEW q \in {RET, OFF} PROVE Counted(n, q)'
    <2> SUFFICES ASSUME ~(early' /\ n[1] = 2)
                 PROVE  count[n][q] = entered'[n][q] - (IF local_state'[n] = q /\ entered'[n][q] > 0 THEN 1 ELSE 0)
        BY Zenon DEF Counted
    <2>1. /\ count[n][q] = entered[n][q] - (IF local_state[n] = q /\ entered[n][q] > 0 THEN 1 ELSE 0)
          /\ entered[n][q] \in Nat /\ count[n][q] \in Nat
        BY <1>4, Zenon DEF Counted
    <2>2. CASE FallsAsleep(n, c)
        <3>1. local_state[n] # q
            BY <2>2 DEF FallsAsleep, RUN, RET, OFF
        <3>2. entered'[n][q] = IF q = local_state'[n] THEN entered[n][q] + 1 ELSE entered[n][q]
            BY <2>2, Zenon DEF FallsAsleep
        <3> QED BY <2>1, <3>1, <3>2
    <2>3. CASE StaysAsIs(n)
        BY <2>1, <2>3, Zenon DEF StaysAsIs
    <2> QED BY <2>2, <2>3, Zenon
<1>7. SystemInv'
    BY <1>2, Zenon DEF SystemInv
<1>8. BootInv'
    BY <1>3, Zenon DEF BootInv
<1>9. SleepInv'
    BY <1>5, Zenon DEF SleepInv
<1>10. CountsEntries'
    BY <1>6, Zenon DEF CountsEntries, Counted, AllNodes
<1> QED BY <1>7, <1>8, <1>9, <1>10, Zenon

(* CPU_SUSPEND and CPU_OFF keep the invariant.                             *)
LEMMA GoDownStep ==
    ASSUME IInv, NEW c \in CPUs, NEW end \in AllLevels, NEW s, IsRequest(s, end), GoDown(c, s, end),
           aff' = aff \/ aff' = [aff EXCEPT ![c] = "OFF"]
    PROVE  IInv'
<1>1. /\ local_state' \in [AllNodes -> States] /\ votes' \in [Levels -> [CPUs -> States]]
      /\ level' = [level EXCEPT ![c] = end]
      /\ last_cpu_in_non_cpu_pd' \in [Domains -> CPUs \cup {None}]
      /\ entered' \in [AllNodes -> [{RET, OFF} -> Nat]] /\ count' = count
      /\ stop' = FALSE /\ early' = (early \/ \E d \in CPUs : aff[d] = "ON_PENDING")
      /\ DownVotes(c, s, end) /\ DownStates(c, end)
      /\ \A n \in AllNodes : FallsAsleep(n, c) \/ StaysAsIs(n)
    BY GoDownEffect, Zenon
<1>2. Runs(c)
    BY Zenon DEF GoDown
<1>3. aff[c] = "ON"
    BY <1>2, RunsAbove, Zenon
<1>4. aff \in [CPUs -> {"ON", "OFF", "ON_PENDING"}]
    BY Zenon DEF IInv, TypeInv
<1>5. aff'[c] \in {"ON", "OFF"} /\ \A d \in CPUs : d # c => aff'[d] = aff[d]
    BY <1>3, <1>4, Zenon
<1>6. /\ \A d \in CPUs : aff'[d] = "ON" => aff[d] = "ON"
      /\ \A d \in CPUs : aff'[d] = "ON_PENDING" => aff[d] = "ON_PENDING"
      /\ aff'[c] # "ON_PENDING"
    BY <1>3, <1>5
<1>7. VotesInv' /\ StateInv'
    BY <1>1, <1>2, <1>5, <1>6, GoDownVotes, Zenon
<1>8. SystemInv' /\ BootInv' /\ SleepInv' /\ CountsEntries'
    BY <1>1, <1>6, GoDownNodes
<1>9. TypeInv'
    <2>1. aff' \in [CPUs -> {"ON", "OFF", "ON_PENDING"}]
        BY <1>4
    <2>2. level' \in [CPUs -> AllLevels]
        BY <1>1, Zenon DEF IInv, TypeInv
    <2>3. count' \in [AllNodes -> [{RET, OFF} -> Nat]] /\ early' \in BOOLEAN
        BY <1>1, Zenon DEF IInv, TypeInv
    <2> QED BY <1>1, <2>1, <2>2, <2>3, Zenon DEF TypeInv
<1> QED BY <1>1, <1>7, <1>8, <1>9, Zenon DEF IInv

-----------------------------------------------------------------------------
(* While the system sleeps, so do all clusters.                            *)
LEMMA SystemAsleep ==
    ASSUME IInv, NEW c \in CPUs, 2 \in Levels, local_state[Node(c, 2)] # RUN
    PROVE  local_state[Node(c, 1)] # RUN
<1> SUFFICES ASSUME local_state[Node(c, 1)] = RUN PROVE FALSE
    BY Zenon
<1>1. 1 \in Levels /\ 1 <= 2
    BY LevelFacts
<1>2. PICK d \in CPUs : votes[1][d] = RUN
    BY <1>1, Zenon DEF IInv, StateInv
<1>3. votes[2][d] = RUN
    BY <1>1, <1>2, Zenon DEF IInv, VotesInv
<1>4. Node(d, 2) = Node(c, 2)
    BY NodeFacts, Zenon
<1> QED BY <1>3, <1>4, Zenon DEF IInv, StateInv

(* The levels a wake-up counts are the sleeping ones it wakes, unless the  *)
(* cluster comes up for the first time.                                    *)
LEMMA CountedLevels ==
    ASSUME IInv, NEW c \in CPUs, NEW end \in AllLevels
    PROVE  /\ UpdatedLevels(c, end) \subseteq Levels
           /\ \A l \in Levels : l \in UpdatedLevels(c, end) <=>
                 /\ l <= end /\ local_state[Node(c, l)] # RUN
                 /\ last_cpu_in_non_cpu_pd[Node(c, 1)] # None
<1>1. UpdatedLevels(c, end) \subseteq Levels
    BY LevelFacts DEF UpdatedLevels, Levels, AllLevels
<1>2. ASSUME NEW l \in Levels
      PROVE  l \in UpdatedLevels(c, end) <=>
                 /\ l <= end /\ local_state[Node(c, l)] # RUN
                 /\ last_cpu_in_non_cpu_pd[Node(c, 1)] # None
    <2>1. l \in 1 .. end <=> l <= end
        BY LevelFacts DEF Levels, AllLevels
    <2>2. (\A k \in 1 .. l : local_state[Node(c, k)] # RUN) <=> local_state[Node(c, l)] # RUN
        <3>1. CASE l = 1
            <4>1. 1 .. l = {1}
                BY <3>1
            <4> QED BY <3>1, <4>1, Zenon
        <3>2. CASE l = 2
            <4>1. 1 .. l = {1, 2}
                BY <3>2
            <4>2. local_state[Node(c, 2)] # RUN => local_state[Node(c, 1)] # RUN
                BY <3>2, SystemAsleep, Zenon
            <4> QED BY <3>2, <4>1, <4>2, Zenon
        <3> QED BY <3>1, <3>2, LevelFacts, Zenon
    <2>3. CASE last_cpu_in_non_cpu_pd[Node(c, 1)] = None
        BY <2>3, Zenon DEF UpdatedLevels
    <2>4. CASE last_cpu_in_non_cpu_pd[Node(c, 1)] # None
        BY <2>1, <2>2, <2>4, Zenon DEF UpdatedLevels
    <2> QED BY <2>3, <2>4, Zenon
<1> QED BY <1>1, <1>2, Zenon

\* A node that a wake-up wakes and counts, one that it takes to RUN without
\* counting, and one that it does not touch.
WokenCounted(n) ==
    /\ local_state[n] # RUN /\ local_state'[n] = RUN
    /\ n \in Domains => last_cpu_in_non_cpu_pd[n] # None
    /\ count'[n] = [count[n] EXCEPT ![local_state[n]] = @ + 1]
WokenUncounted(n) ==
    /\ local_state'[n] = RUN /\ count'[n] = count[n]
    /\ \/ local_state[n] = RUN
       \/ \A q \in {RET, OFF} : entered[n][q] = 0
       \/ early /\ n[1] = 2
NotWoken(n) ==
    /\ local_state'[n] = local_state[n] /\ count'[n] = count[n]
    /\ n \in Domains => last_cpu_in_non_cpu_pd'[n] = last_cpu_in_non_cpu_pd[n]

(* Coming up, as the invariant sees it.                                    *)
LEMMA WakeUpEffect ==
    ASSUME IInv, NEW c \in CPUs, WakeUp(c)
    PROVE  /\ stop' = FALSE
           /\ last_cpu_in_non_cpu_pd' \in [Domains -> CPUs \cup {None}]
           /\ \A n \in AllNodes : (\E l \in 0 .. level[c] : n = Node(c, l))
                                   => WokenCounted(n) \/ WokenUncounted(n)
           /\ \A n \in AllNodes : ~(\E l \in 0 .. level[c] : n = Node(c, l)) => NotWoken(n)
<1> DEFINE end == level[c]
           ul == UpdatedLevels(c, end)
           up == {Node(c, l) : l \in ul}
<1>1. end \in AllLevels
    BY Zenon DEF IInv, TypeInv
<1>2. /\ ul \subseteq Levels
      /\ \A l \in Levels : l \in ul <=>
                 /\ l <= end /\ local_state[Node(c, l)] # RUN
                 /\ last_cpu_in_non_cpu_pd[Node(c, 1)] # None
    BY <1>1, CountedLevels, Zenon
<1> HIDE DEF ul
<1>3. /\ stop' = (None \in {last_cpu_in_non_cpu_pd[n] : n \in up})
      /\ last_cpu_in_non_cpu_pd' =
            [n \in Domains |-> IF n \in up THEN None ELSE last_cpu_in_non_cpu_pd[n]]
      /\ count' = [n \in AllNodes |->
                      IF n \in up \cup {<<0, c>>} THEN [count[n] EXCEPT ![local_state[n]] = @ + 1] ELSE count[n]]
      /\ local_state' = [n \in AllNodes |->
                         IF \E l \in 0 .. end : n = Node(c, l) THEN RUN ELSE local_state[n]]
    BY Zenon DEF WakeUp, psci_stats_update_pwr_up, psci_set_pwr_domains_to_run, ul, AllNodes
<1>4. ASSUME NEW l \in ul
      PROVE  /\ l \in Levels /\ l <= end /\ local_state[Node(c, l)] # RUN /\ Node(c, l) \in Domains
             /\ last_cpu_in_non_cpu_pd[Node(c, l)] # None
    <2>1. /\ l \in Levels /\ l <= end /\ local_state[Node(c, l)] # RUN
          /\ last_cpu_in_non_cpu_pd[Node(c, 1)] # None
        BY <1>2, Zenon
    <2>2. Node(c, l) \in Domains
        BY <2>1, NodeFacts, Zenon
    <2>3. CASE l = 1
        BY <2>1, <2>2, <2>3, Zenon
    <2>4. CASE l = 2
        BY <2>1, <2>2, <2>4, Zenon DEF IInv, SystemInv
    <2> QED BY <2>1, <2>3, <2>4, LevelFacts, Zenon
<1>5. \A n \in up : n \in Domains /\ last_cpu_in_non_cpu_pd[n] # None /\ local_state[n] # RUN
    BY <1>4, Zenon
<1>6. stop' = FALSE
    <2>1. None \notin {last_cpu_in_non_cpu_pd[n] : n \in up}
        BY <1>5, Zenon
    <2> HIDE DEF up
    <2>2. (None \in {last_cpu_in_non_cpu_pd[n] : n \in up}) = FALSE
        BY <2>1
    <2> QED BY <1>3, <2>2, Zenon
<1>7. last_cpu_in_non_cpu_pd' \in [Domains -> CPUs \cup {None}]
    <2>1. last_cpu_in_non_cpu_pd \in [Domains -> CPUs \cup {None}]
        BY Zenon DEF IInv, TypeInv
    <2> HIDE DEF up
    <2> QED BY <1>3, <2>1, Zenon
<1>8. \A l \in AllLevels : l \in 0 .. end <=> l <= end
    BY <1>1 DEF AllLevels
<1>9. ASSUME NEW n \in AllNodes, NEW l \in 0 .. end, n = Node(c, l)
      PROVE  WokenCounted(n) \/ WokenUncounted(n)
    <2>1. l \in AllLevels /\ l <= end
        BY <1>1, LevelFacts DEF AllLevels
    <2>2. local_state'[n] = RUN
        BY <1>3, <1>9, Zenon
    <2>3. CASE n \in up
        <3>1. count'[n] = [count[n] EXCEPT ![local_state[n]] = @ + 1]
            BY <1>3, <2>3, Zenon
        <3> QED BY <1>5, <2>2, <2>3, <3>1, Zenon DEF WokenCounted
    <2>4. CASE l = 0
        <3>1. n = <<0, c>> /\ n \notin Domains
            BY <1>9, <2>4, NodeFacts, Zenon
        <3>2. local_state[n] # RUN
            BY <3>1, Zenon DEF WakeUp, Runs
        <3>3. count'[n] = [count[n] EXCEPT ![local_state[n]] = @ + 1]
            BY <1>3, <3>1, Zenon
        <3> QED BY <2>2, <3>1, <3>2, <3>3, Zenon DEF WokenCounted
    <2>5. CASE n \notin up /\ l # 0
        <3>1. l \in Levels /\ l \notin ul
            BY <1>9, <2>1, <2>5, LevelFacts, Zenon
        <3>2. n \in Domains /\ n # <<0, c>>
            <4>1. n \in Domains
                BY <1>9, <3>1, NodeFacts, Zenon
            <4>2. Node(c, 0) \notin Domains /\ <<0, c>> = Node(c, 0)
                BY NodeFacts, Zenon
            <4> QED BY <4>1, <4>2, Zenon
        <3>3. count'[n] = count[n]
            BY <1>3, <2>5, <3>2, Zenon
        <3>4. local_state[n] = RUN \/ last_cpu_in_non_cpu_pd[Node(c, 1)] = None
            BY <1>2, <1>9, <2>1, <3>1, Zenon
        <3>5. CASE local_state[n] = RUN
            BY <2>2, <3>3, <3>5, Zenon DEF WokenUncounted
        <3>6. CASE local_state[n] # RUN /\ l = 1
            BY <1>9, <2>2, <3>3, <3>4, <3>6, Zenon DEF WokenUncounted, IInv, BootInv
        <3>7. CASE local_state[n] # RUN /\ l = 2
            <4>1. local_state[Node(c, 1)] # RUN
                BY <1>9, <3>1, <3>7, SystemAsleep, Zenon
            <4>2. aff[c] # "ON"
                BY <3>4, <3>7, <4>1, Zenon DEF IInv, BootInv
            <4>3. aff[c] = "ON_PENDING"
                BY <4>2, Zenon DEF IInv, TypeInv, WakeUp
            <4>4. early
                BY <1>9, <3>1, <3>7, <4>3, Zenon DEF IInv, SystemInv
            <4>5. n[1] = 2
                BY <1>9, <2>1, <3>7, NodeFacts, Zenon
            <4> QED BY <2>2, <3>3, <4>4, <4>5, Zenon DEF WokenUncounted
        <3> QED BY <3>1, <3>5, <3>6, <3>7, LevelFacts, Zenon
    <2> QED BY <2>3, <2>4, <2>5, Zenon
<1>10. ASSUME NEW n \in AllNodes, ~\E l \in 0 .. end : n = Node(c, l) PROVE NotWoken(n)
    <2>1. n \notin up
        BY <1>4, <1>8, <1>10, LevelFacts, Zenon
    <2>2. n # <<0, c>>
        <3>1. 0 \in 0 .. end
            BY <1>1 DEF AllLevels
        <3> QED BY <1>10, <3>1, NodeFacts, Zenon
    <2> HIDE DEF up
    <2>3. local_state'[n] = local_state[n] /\ count'[n] = count[n]
        BY <1>3, <1>10, <2>1, <2>2, Zenon
    <2>4. n \in Domains => last_cpu_in_non_cpu_pd'[n] = last_cpu_in_non_cpu_pd[n]
        BY <1>3, <2>1, Zenon
    <2> QED BY <2>3, <2>4, Zenon DEF NotWoken
<1> QED BY <1>6, <1>7, <1>9, <1>10, Zenon

(* Coming up keeps what the invariant says of votes and states.            *)
LEMMA WakeUpVotes ==
    ASSUME IInv, NEW c \in CPUs, WakeUp(c)
    PROVE  /\ TypeInv' /\ VotesInv' /\ StateInv'
           /\ \A d \in CPUs, l \in AllLevels : local_state[Node(d, l)] = RUN => local_state'[Node(d, l)] = RUN
           /\ \A l \in Levels : local_state'[Node(c, l)] = RUN
<1> DEFINE end == level[c]
<1>1. end \in AllLevels
    BY Zenon DEF IInv, TypeInv
<1>2. /\ local_state' = [n \in AllNodes |->
                         IF \E l \in 0 .. end : n = Node(c, l) THEN RUN ELSE local_state[n]]
      /\ votes' = [l \in Levels |-> IF l <= end THEN [votes[l] EXCEPT ![c] = RUN] ELSE votes[l]]
      /\ aff' = [aff EXCEPT ![c] = "ON"] /\ level' = [level EXCEPT ![c] = PLAT_MAX_PWR_LVL]
      /\ entered' = entered /\ early' = early /\ ~Runs(c)
    BY Zenon DEF WakeUp, psci_set_pwr_domains_to_run, AllNodes
<1>3. /\ local_state \in [AllNodes -> States] /\ votes \in [Levels -> [CPUs -> States]]
      /\ aff \in [CPUs -> {"ON", "OFF", "ON_PENDING"}] /\ level \in [CPUs -> AllLevels]
    BY Zenon DEF IInv, TypeInv
<1>4. \A l \in Levels, d \in CPUs : votes'[l][d] = IF d = c /\ l <= end THEN RUN ELSE votes[l][d]
    BY <1>2, <1>3
<1>5. \A l \in Levels : votes'[l][c] = RUN
    <2>1. \A l \in Levels : l <= end \/ votes[l][c] = RUN
        BY <1>1, UpTo, Zenon DEF IInv, VotesInv
    <2> QED BY <1>4, <2>1
<1>6. \A l \in Levels, d \in CPUs : d # c => votes'[l][d] = votes[l][d]
    BY <1>4, Zenon
<1>7. ASSUME NEW d \in CPUs, NEW l \in AllLevels
      PROVE  local_state'[Node(d, l)] =
                IF l \in 0 .. end /\ Node(d, l) = Node(c, l) THEN RUN ELSE local_state[Node(d, l)]
    <2>1. Node(d, l) \in AllNodes
        BY NodeFacts, Zenon
    <2>2. \A k \in 0 .. end : k \in AllLevels
        BY <1>1, UpTo, LevelFacts, Zenon
    <2>3. (\E k \in 0 .. end : Node(d, l) = Node(c, k)) <=> l \in 0 .. end /\ Node(d, l) = Node(c, l)
        BY <2>2, NodeLevel, Zenon
    <2> QED BY <1>2, <2>1, <2>3, Zenon
<1>8. \A d \in CPUs, l \in AllLevels : local_state[Node(d, l)] = RUN => local_state'[Node(d, l)] = RUN
    BY <1>7, Zenon
<1>9. StateInv'
    <2>1. ASSUME NEW d \in CPUs, NEW l \in Levels
          PROVE  local_state'[Node(d, l)] = RUN <=>
                    \E e \in CPUs : Node(e, l) = Node(d, l) /\ votes'[l][e] = RUN
        <3>0. l \in AllLevels /\ (l \in 0 .. end <=> l <= end)
            BY <1>1, LevelFacts, UpTo, Zenon
        <3>1. local_state[Node(d, l)] = RUN <=> \E e \in CPUs : Node(e, l) = Node(d, l) /\ votes[l][e] = RUN
            BY Zenon DEF IInv, StateInv
        <3>2. CASE Node(d, l) = Node(c, l)
            <4>1. \E e \in CPUs : Node(e, l) = Node(d, l) /\ votes'[l][e] = RUN
                BY <1>5, <3>2, Zenon
            <4>2. l <= end \/ votes[l][c] = RUN
                BY <1>4, <1>5, Zenon
            <4>3. local_state'[Node(d, l)] = RUN
                BY <1>7, <3>0, <3>1, <3>2, <4>2, Zenon
            <4> QED BY <4>1, <4>3, Zenon
        <3>3. CASE Node(d, l) # Node(c, l)
            <4>1. local_state'[Node(d, l)] = local_state[Node(d, l)]
                BY <1>7, <3>0, <3>3, Zenon
            <4>2. \A e \in CPUs : Node(e, l) = Node(d, l) => votes'[l][e] = votes[l][e]
                BY <1>6, <3>3, Zenon
            <4> QED BY <3>1, <4>1, <4>2, Zenon
        <3> QED BY <3>2, <3>3, Zenon
    <2> QED BY <2>1, Zenon DEF StateInv
<1>10. \A l \in Levels : local_state'[Node(c, l)] = RUN
    BY <1>5, <1>9, Zenon DEF StateInv
<1>11. VotesInv'
    <2>1. ASSUME NEW d \in CPUs, d # c
          PROVE  /\ aff'[d] = aff[d] /\ level'[d] = level[d]
                 /\ Runs(d)' <=> Runs(d)
        <3>1. aff'[d] = aff[d] /\ level'[d] = level[d]
            BY <1>2, <1>3, <2>1, Zenon
        <3>2. Node(d, 0) # Node(c, 0) /\ <<0, d>> = Node(d, 0)
            BY <2>1, NodeFacts, Zenon
        <3>3. local_state'[Node(d, 0)] = local_state[Node(d, 0)]
            BY <1>7, <3>2, LevelFacts, Zenon
        <3>4. local_state'[<<0, d>>] = local_state[<<0, d>>]
            BY <3>2, <3>3, Zenon
        <3> QED BY <3>1, <3>4, Zenon DEF Runs
    <2>2. aff'[c] = "ON"
        BY <1>2, <1>3, Zenon
    <2>3. \A d \in CPUs : Runs(d)' => aff'[d] = "ON"
        BY <2>1, <2>2, Zenon DEF IInv, VotesInv
    <2>4. \A d \in CPUs, l \in Levels : Runs(d)' \/ level'[d] < l => votes'[l][d] = RUN
        <3> SUFFICES ASSUME NEW d \in CPUs, NEW l \in Levels, Runs(d)' \/ level'[d] < l
                     PROVE  votes'[l][d] = RUN
            BY Zenon
        <3>1. CASE d = c
            BY <1>5, <3>1, Zenon
        <3>2. CASE d # c
            <4>1. Runs(d) \/ level[d] < l
                BY <2>1, <3>2, Zenon
            <4>2. votes[l][d] = RUN
                BY <4>1, Zenon DEF IInv, VotesInv
            <4> QED BY <1>6, <3>2, <4>2, Zenon
        <3> QED BY <3>1, <3>2, Zenon
    <2>5. \A d \in CPUs : aff'[d] = "ON_PENDING" => level'[d] = PLAT_MAX_PWR_LVL
        <3> SUFFICES ASSUME NEW d \in CPUs, aff'[d] = "ON_PENDING"
                     PROVE  level'[d] = PLAT_MAX_PWR_LVL
            BY Zenon
        <3>1. d # c
            BY <2>2
        <3> QED BY <2>1, <3>1, Zenon DEF IInv, VotesInv
    <2>6. \A d \in CPUs, l \in Levels, k \in Levels :
              k <= l /\ votes'[k][d] = RUN => votes'[l][d] = RUN
        <3> SUFFICES ASSUME NEW d \in CPUs, NEW l \in Levels, NEW k \in Levels,
                            k <= l, votes'[k][d] = RUN
                     PROVE  votes'[l][d] = RUN
            BY Zenon
        <3>1. CASE d = c
            BY <1>5, <3>1, Zenon
        <3>2. CASE d # c
            <4>1. votes[k][d] = RUN
                BY <1>6, <3>2, Zenon
            <4>2. votes[l][d] = RUN
                BY <4>1, Zenon DEF IInv, VotesInv
            <4> QED BY <1>6, <3>2, <4>2, Zenon
        <3> QED BY <3>1, <3>2, Zenon
    <2> QED BY <2>3, <2>4, <2>5, <2>6, Zenon DEF VotesInv
<1>12. TypeInv'
    <2>1. local_state' \in [AllNodes -> States]
        <3>1. RUN \in States
            BY DEF States
        <3> QED BY <1>2, <1>3, <3>1, Zenon
    <2>2. votes' \in [Levels -> [CPUs -> States]]
        <3>1. RUN \in States
            BY DEF States
        <3>2. \A l \in Levels : [votes[l] EXCEPT ![c] = RUN] \in [CPUs -> States]
            BY <1>3, <3>1
        <3> QED BY <1>2, <1>3, <3>2, Zenon
    <2>3. aff' \in [CPUs -> {"ON", "OFF", "ON_PENDING"}]
        BY <1>2, <1>3
    <2>4. level' \in [CPUs -> AllLevels]
        BY <1>2, <1>3, LevelFacts
    <2>5. last_cpu_in_non_cpu_pd' \in [Domains -> CPUs \cup {None}]
        BY WakeUpEffect, Zenon
    <2>6. count' \in [AllNodes -> [{RET, OFF} -> Nat]]
        <3>1. count \in [AllNodes -> [{RET, OFF} -> Nat]]
            BY Zenon DEF IInv, TypeInv
        <3>2. \A n \in AllNodes : count'[n] \in [{RET, OFF} -> Nat]
            <4> SUFFICES ASSUME NEW n \in AllNodes PROVE count'[n] \in [{RET, OFF} -> Nat]
                BY Zenon
            <4>1. count[n] \in [{RET, OFF} -> Nat]
                BY <3>1, Zenon
            <4>2. WokenCounted(n) \/ WokenUncounted(n) \/ NotWoken(n)
                BY WakeUpEffect, Zenon
            <4>3. count'[n] = count[n] \/ count'[n] = [count[n] EXCEPT ![local_state[n]] = @ + 1]
                BY <4>2, Zenon DEF WokenCounted, WokenUncounted, NotWoken
            <4> QED BY <4>1, <4>3
        <3>3. PICK S : count' = [n \in AllNodes |->
                      IF n \in S THEN [count[n] EXCEPT ![local_state[n]] = @ + 1] ELSE count[n]]
            BY Zenon DEF WakeUp, psci_stats_update_pwr_up, AllNodes
        <3>4. count' = [n \in AllNodes |-> count'[n]]
            BY <3>3, Zenon
        <3> QED BY <3>2, <3>4, Zenon
    <2>7. entered' \in [AllNodes -> [{RET, OFF} -> Nat]] /\ early' \in BOOLEAN
        BY <1>2, Zenon DEF IInv, TypeInv
    <2> QED BY <2>1, <2>2, <2>3, <2>4, <2>5, <2>6, <2>7, Zenon DEF TypeInv
<1> QED BY <1>8, <1>9, <1>10, <1>11, <1>12, Zenon

(* Coming up keeps the invariant.                                          *)
LEMMA WakeUpStep ==
    ASSUME IInv, NEW c \in CPUs, WakeUp(c)
    PROVE  IInv'
<1>1. /\ TypeInv' /\ VotesInv' /\ StateInv'
      /\ \A l \in Levels : local_state'[Node(c, l)] = RUN
    BY WakeUpVotes, Zenon
<1>2. \A n \in AllNodes : WokenCounted(n) \/ WokenUncounted(n) \/ NotWoken(n)
    BY WakeUpEffect, Zenon
<1>3. stop' = FALSE
    BY WakeUpEffect, Zenon
<1>4. entered' = entered /\ early' = early /\ aff' = [aff EXCEPT ![c] = "ON"]
    BY Zenon DEF WakeUp
<1>5. \A d \in CPUs : d # c => aff'[d] = aff[d]
    <2>1. aff \in [CPUs -> {"ON", "OFF", "ON_PENDING"}]
        BY Zenon DEF IInv, TypeInv
    <2> QED BY <1>4, <2>1, Zenon
<1>6. \A n \in AllNodes : local_state'[n] # RUN => NotWoken(n)
    BY <1>2, Zenon DEF WokenCounted, WokenUncounted
<1>7. SystemInv'
    <2>1. \A d \in CPUs : 2 \in Levels => local_state'[Node(d, 2)] = RUN
        BY <1>1, NodeFacts, Zenon
    <2> QED BY <2>1, Zenon DEF SystemInv
<1>8. BootInv'
    <2> SUFFICES ASSUME NEW d \in CPUs, local_state'[Node(d, 1)] # RUN, last_cpu_in_non_cpu_pd'[Node(d, 1)] = None
                 PROVE  aff'[d] # "ON" /\ \A q \in {RET, OFF} : entered'[Node(d, 1)][q] = 0
        BY Zenon DEF BootInv
    <2>1. 1 \in Levels /\ Node(d, 1) \in AllNodes /\ Node(d, 1) \in Domains
        BY NodeFacts, LevelFacts, Zenon
    <2>2. d # c
        BY <1>1, <2>1, Zenon
    <2>3. NotWoken(Node(d, 1))
        BY <1>6, <2>1, Zenon
    <2>4. local_state[Node(d, 1)] # RUN /\ last_cpu_in_non_cpu_pd[Node(d, 1)] = None
        BY <2>1, <2>3, Zenon DEF NotWoken
    <2>5. aff[d] # "ON" /\ \A q \in {RET, OFF} : entered[Node(d, 1)][q] = 0
        BY <2>4, Zenon DEF IInv, BootInv
    <2> QED BY <1>4, <1>5, <2>2, <2>5, Zenon
<1>9. SleepInv'
    <2> SUFFICES ASSUME NEW n \in AllNodes, local_state'[n] # RUN,
                        n \in Domains => last_cpu_in_non_cpu_pd'[n] # None
                 PROVE  entered'[n][local_state'[n]] > 0
        BY Zenon DEF SleepInv
    <2>1. /\ local_state'[n] = local_state[n]
          /\ n \in Domains => last_cpu_in_non_cpu_pd[n] # None
        BY <1>6, Zenon DEF NotWoken
    <2>2. entered[n][local_state[n]] > 0
        BY <2>1, Zenon DEF IInv, SleepInv
    <2> QED BY <1>4, <2>1, <2>2, Zenon
<1>10. ASSUME NEW n \in AllNodes, NEW q \in {RET, OFF} PROVE Counted(n, q)'
    <2>0. /\ local_state[n] \in States /\ entered[n] \in [{RET, OFF} -> Nat]
          /\ count[n] \in [{RET, OFF} -> Nat]
        BY Zenon DEF IInv, TypeInv
    <2>1. /\ entered[n][q] \in Nat /\ count[n][q] \in Nat /\ count[n] \in [{RET, OFF} -> Nat]
        BY <2>0, Zenon
    <2>2. Counted(n, q)
        BY Zenon DEF IInv, CountsEntries, Counted, AllNodes
    <2>3. RUN # q
        BY DEF RUN, RET, OFF
    <2> SUFFICES ASSUME ~(early /\ n[1] = 2)
                 PROVE  count'[n][q] = entered[n][q] - (IF local_state'[n] = q /\ entered[n][q] > 0 THEN 1 ELSE 0)
        BY <1>4, Zenon DEF Counted
    <2>4. count[n][q] = entered[n][q] - (IF local_state[n] = q /\ entered[n][q] > 0 THEN 1 ELSE 0)
        BY <2>2, Zenon DEF Counted
    <2>5. CASE WokenCounted(n)
        <3>1. /\ local_state'[n] = RUN /\ count'[n] = [count[n] EXCEPT ![local_state[n]] = @ + 1]
              /\ local_state[n] # RUN
            BY <2>5, Zenon DEF WokenCounted
        <3>2. CASE local_state[n] = q
            <4>1. entered[n][q] > 0
                BY <2>5, <3>2, Zenon DEF WokenCounted, IInv, SleepInv
            <4>2. count'[n][q] = count[n][q] + 1
                BY <2>1, <3>1, <3>2
            <4> QED BY <2>1, <2>3, <2>4, <3>1, <3>2, <4>1, <4>2
        <3>3. CASE local_state[n] # q
            <4>1. count'[n][q] = count[n][q]
                BY <2>1, <3>1, <3>3
            <4> QED BY <2>1, <2>3, <2>4, <3>1, <3>3, <4>1
        <3> QED BY <3>2, <3>3, Zenon
    <2>6. CASE WokenUncounted(n)
        <3>1. local_state'[n] = RUN /\ count'[n] = count[n]
            BY <2>6, Zenon DEF WokenUncounted
        <3>2. local_state[n] = RUN \/ entered[n][q] = 0
            BY <2>6, Zenon DEF WokenUncounted
        <3> QED BY <2>1, <2>3, <2>4, <3>1, <3>2
    <2>7. CASE NotWoken(n)
        BY <2>4, <2>7, Zenon DEF NotWoken
    <2> QED BY <1>2, <2>5, <2>6, <2>7, Zenon
<1>11. CountsEntries'
    BY <1>10, Zenon DEF CountsEntries, Counted, AllNodes
<1> QED BY <1>1, <1>3, <1>7, <1>8, <1>9, <1>11, Zenon DEF IInv

-----------------------------------------------------------------------------
(* CPU_SUSPEND goes down to the highest level it names a state for.        *)
LEMMA SuspendStep ==
    ASSUME IInv, NEW c \in CPUs, NEW s \in [0 .. PLAT_MAX_PWR_LVL -> States], psci_cpu_suspend(c, s)
    PROVE  IInv'
<1> DEFINE T == {l \in 0 .. PLAT_MAX_PWR_LVL : s[l] # RUN}
           end == Max(T)
<1>1. /\ s[0] # RUN /\ \A l \in Levels : s[l] <= s[l - 1]
      /\ GoDown(c, s, end) /\ aff' = aff
    BY Zenon DEF psci_cpu_suspend
<1>2. T \in SUBSET AllLevels /\ 0 \in T
    BY <1>1, LevelFacts, Zenon DEF AllLevels
<1>3. end \in T /\ end \in AllLevels
    BY <1>2, MaxLevel, Zenon
<1>4. s \in [AllLevels -> States] /\ s[end] # RUN
    BY <1>3, Zenon DEF AllLevels
<1> HIDE DEF end
<1>5. \A l \in 0 .. end : s[l] # RUN
    <2>1. end \in {0, 1, 2}
        BY <1>3, LevelFacts, Zenon
    <2>2. CASE end = 2
        <3>1. 2 \in AllLevels
            BY <1>3, <2>2, Zenon
        <3>2. 2 \in Levels /\ 1 \in AllLevels /\ 2 - 1 = 1
            BY <3>1, LevelFacts
        <3>3. s[2] <= s[1] /\ s[2] \in {0, 1, 2} /\ s[1] \in {0, 1, 2} /\ s[2] # 0
            <4>1. s[2] <= s[2 - 1]
                BY <1>1, <3>2, Zenon
            <4>2. s[2] \in States /\ s[1] \in States /\ s[2] # RUN
                BY <1>4, <2>2, <3>1, <3>2, Zenon
            <4> QED BY <3>2, <4>1, <4>2 DEF States, RUN, RET, OFF
        <3>4. 0 .. end = {0, 1, 2}
            BY <2>2
        <3>5. s[1] # RUN
            BY <3>3 DEF RUN
        <3> QED BY <1>1, <1>4, <2>2, <3>4, <3>5, Zenon
    <2>3. CASE end = 1
        <3>1. 0 .. end = {0, 1}
            BY <2>3
        <3> QED BY <1>1, <1>4, <2>3, <3>1, Zenon
    <2>4. CASE end = 0
        <3>1. 0 .. end = {0}
            BY <2>4
        <3> QED BY <1>1, <3>1, Zenon
    <2> QED BY <2>1, <2>2, <2>3, <2>4, Zenon
<1>6. IsRequest(s, end)
    BY <1>4, <1>5, Zenon DEF IsRequest
<1> QED BY <1>1, <1>3, <1>6, GoDownStep, Zenon

(* CPU_OFF goes all the way down.                                          *)
LEMMA CpuOffStep ==
    ASSUME IInv, NEW c \in CPUs, psci_do_cpu_off(c)
    PROVE  IInv'
<1> DEFINE s == [l \in 0 .. PLAT_MAX_PWR_LVL |-> OFF]
<1>1. GoDown(c, s, PLAT_MAX_PWR_LVL) /\ aff' = [aff EXCEPT ![c] = "OFF"]
    BY Zenon DEF psci_do_cpu_off
<1>2. IsRequest(s, PLAT_MAX_PWR_LVL)
    <2>1. OFF \in States /\ OFF # RUN
        BY DEF States, OFF, RUN
    <2> QED BY <2>1, Zenon DEF IsRequest, AllLevels
<1>3. PLAT_MAX_PWR_LVL \in AllLevels
    BY LevelFacts, Zenon
<1> HIDE DEF s
<1> QED BY <1>1, <1>2, <1>3, GoDownStep, Zenon

(* CPU_ON only marks its target; the CPU that calls keeps the system up.   *)
LEMMA CpuOnStep ==
    ASSUME IInv, NEW c \in CPUs, NEW t \in CPUs, CpuOn(c, t)
    PROVE  IInv'
<1>1. /\ Runs(c) /\ aff[t] = "OFF" /\ aff' = [aff EXCEPT ![t] = "ON_PENDING"]
      /\ level' = [level EXCEPT ![t] = PLAT_MAX_PWR_LVL]
      /\ local_state' = local_state /\ votes' = votes /\ stop' = stop /\ count' = count
      /\ last_cpu_in_non_cpu_pd' = last_cpu_in_non_cpu_pd /\ entered' = entered /\ early' = early
    BY Zenon DEF CpuOn
<1>2. /\ aff \in [CPUs -> {"ON", "OFF", "ON_PENDING"}] /\ level \in [CPUs -> AllLevels]
    BY Zenon DEF IInv, TypeInv
<1>3. /\ aff'[t] = "ON_PENDING" /\ level'[t] = PLAT_MAX_PWR_LVL
      /\ \A d \in CPUs : d # t => aff'[d] = aff[d] /\ level'[d] = level[d]
      /\ \A d \in CPUs : aff'[d] = "ON" <=> aff[d] = "ON"
    BY <1>1, <1>2
<1>4. TypeInv'
    <2>1. aff' \in [CPUs -> {"ON", "OFF", "ON_PENDING"}] /\ level' \in [CPUs -> AllLevels]
        BY <1>1, <1>2, LevelFacts
    <2> QED BY <1>1, <2>1, Zenon DEF IInv, TypeInv
<1>5. \A d \in CPUs : Runs(d)' <=> Runs(d)
    BY <1>1, Zenon DEF Runs
<1>6. VotesInv'
    <2>1. \A d \in CPUs : Runs(d)' => aff'[d] = "ON"
        BY <1>3, <1>5, Zenon DEF IInv, VotesInv
    <2>2. \A d \in CPUs, l \in Levels : Runs(d)' \/ level'[d] < l => votes'[l][d] = RUN
        <3> SUFFICES ASSUME NEW d \in CPUs, NEW l \in Levels, Runs(d)' \/ level'[d] < l
                     PROVE  votes[l][d] = RUN
            BY <1>1, Zenon
        <3>1. CASE d = t
            <4>1. ~(PLAT_MAX_PWR_LVL < l)
                BY LevelFacts
            <4>2. Runs(d)
                BY <1>3, <1>5, <3>1, <4>1, Zenon
            <4> QED BY <4>2, Zenon DEF IInv, VotesInv
        <3>2. CASE d # t
            BY <1>3, <1>5, <3>2, Zenon DEF IInv, VotesInv
        <3> QED BY <3>1, <3>2, Zenon
    <2>3. \A d \in CPUs : aff'[d] = "ON_PENDING" => level'[d] = PLAT_MAX_PWR_LVL
        BY <1>3, Zenon DEF IInv, VotesInv
    <2>4. \A d \in CPUs, l \in Levels, k \in Levels :
              k <= l /\ votes'[k][d] = RUN => votes'[l][d] = RUN
        BY <1>1, Zenon DEF IInv, VotesInv
    <2> QED BY <2>1, <2>2, <2>3, <2>4, Zenon DEF VotesInv
<1>7. StateInv'
    BY <1>1, Zenon DEF IInv, StateInv
<1>8. SystemInv'
    <2>1. \A d \in CPUs : 2 \in Levels => local_state[Node(d, 2)] = RUN
        <3>1. 2 \in Levels => local_state[Node(c, 2)] = RUN
            BY <1>1, RunsAbove, Zenon
        <3> QED BY <3>1, NodeFacts, Zenon
    <2> QED BY <1>1, <2>1, Zenon DEF SystemInv
<1>9. BootInv'
    BY <1>1, <1>3, Zenon DEF IInv, BootInv
<1>10. SleepInv' /\ CountsEntries' /\ stop' = FALSE
    BY <1>1, Zenon DEF IInv, SleepInv, CountsEntries
<1> QED BY <1>4, <1>6, <1>7, <1>8, <1>9, <1>10, Zenon DEF IInv

(* At boot only the primary's nodes run, and nobody has gone down.         *)
LEMMA InitInv == Init => IInv
<1> SUFFICES ASSUME Init PROVE IInv
    BY Zenon
<1>1. /\ local_state = [n \in AllNodes |-> BootState(n)]
      /\ votes = [l \in Levels |-> [c \in CPUs |-> IF c = Primary THEN RUN ELSE OFF]]
      /\ aff = [c \in CPUs |-> IF c = Primary THEN "ON" ELSE "OFF"]
      /\ level = [c \in CPUs |-> PLAT_MAX_PWR_LVL]
      /\ last_cpu_in_non_cpu_pd = [n \in Domains |-> None]
      /\ count = [n \in AllNodes |-> [s \in {RET, OFF} |-> 0]]
      /\ stop = FALSE /\ early = FALSE
      /\ entered = [n \in AllNodes |->
                    [s \in {RET, OFF} |-> IF n \in CpuNodes /\ s = BootState(n) THEN 1 ELSE 0]]
    BY Zenon DEF Init, AllNodes
<1>2. Primary \in CPUs
    BY StatAssumption, Zenon
<1>3. RUN \in States /\ OFF \in States /\ RUN # OFF /\ RET # RUN /\ RET # OFF
    BY DEF States, RUN, RET, OFF
<1>4. \A n \in AllNodes : local_state[n] = BootState(n) /\ BootState(n) \in {RUN, OFF}
    BY <1>1, Zenon DEF BootState
<1>5. \A c \in CPUs, l \in AllLevels : local_state[Node(c, l)] = RUN <=> Node(Primary, l) = Node(c, l)
    <2> SUFFICES ASSUME NEW c \in CPUs, NEW l \in AllLevels
                 PROVE  local_state[Node(c, l)] = RUN <=> Node(Primary, l) = Node(c, l)
        BY Zenon
    <2>1. Primary \in Below(Node(c, l)) <=> Node(Primary, l) = Node(c, l)
        BY <1>2, BelowNode, Zenon
    <2>2. Node(c, l) \in AllNodes
        BY NodeFacts, Zenon
    <2> QED BY <1>1, <1>3, <2>1, <2>2, Zenon DEF BootState
<1>6. TypeInv
    <2>1. local_state \in [AllNodes -> States]
        BY <1>1, <1>3, Zenon DEF BootState
    <2>2. votes \in [Levels -> [CPUs -> States]]
        BY <1>1, <1>3
    <2>3. /\ aff \in [CPUs -> {"ON", "OFF", "ON_PENDING"}]
          /\ level \in [CPUs -> AllLevels]
          /\ last_cpu_in_non_cpu_pd \in [Domains -> CPUs \cup {None}]
        BY <1>1, LevelFacts, Zenon
    <2>4. count \in [AllNodes -> [{RET, OFF} -> Nat]]
        BY <1>1
    <2>5. entered \in [AllNodes -> [{RET, OFF} -> Nat]]
        BY <1>1
    <2> QED BY <1>1, <2>1, <2>2, <2>3, <2>4, <2>5, Zenon DEF TypeInv
<1>7. \A c \in CPUs : Runs(c) <=> c = Primary
    <2>1. \A c \in CPUs : local_state[Node(c, 0)] = RUN <=> c = Primary
        <3>1. \A c \in CPUs : Node(Primary, 0) = Node(c, 0) <=> c = Primary
            BY <1>2, NodeFacts, Zenon
        <3>2. 0 \in AllLevels
            BY LevelFacts, Zenon
        <3> QED BY <1>5, <3>1, <3>2, Zenon
    <2>2. \A c \in CPUs : <<0, c>> = Node(c, 0)
        BY NodeFacts, Zenon
    <2> QED BY <2>1, <2>2, Zenon DEF Runs
<1>8. \A c \in CPUs, l \in Levels : votes[l][c] = RUN <=> c = Primary
    BY <1>1, <1>3, Zenon
<1>9. \A c \in CPUs : (aff[c] = "ON" <=> c = Primary) /\ aff[c] # "ON_PENDING" /\ level[c] = PLAT_MAX_PWR_LVL
    BY <1>1
<1>10. VotesInv
    <2>1. \A l \in Levels : ~(PLAT_MAX_PWR_LVL < l)
        BY LevelFacts
    <2> QED BY <1>7, <1>8, <1>9, <2>1, Zenon DEF VotesInv
<1>11. StateInv
    BY <1>2, <1>5, <1>8, LevelFacts, Zenon DEF StateInv
<1>12. SystemInv
    <2>1. \A c \in CPUs : 2 \in Levels => local_state[Node(c, 2)] = RUN
        <3>1. \A c \in CPUs : Node(Primary, 2) = Node(c, 2)
            BY <1>2, NodeFacts, Zenon
        <3>2. 2 \in Levels => 2 \in AllLevels
            BY LevelFacts, Zenon
        <3> QED BY <1>5, <3>1, <3>2, Zenon
    <2> QED BY <2>1, Zenon DEF SystemInv
<1>13. \A n \in Domains, s \in {RET, OFF} : entered[n][s] = 0
    <2> SUFFICES ASSUME NEW n \in Domains, NEW s \in {RET, OFF} PROVE entered[n][s] = 0
        BY Zenon
    <2>1. n \in AllNodes /\ n \notin CpuNodes
        <3>1. \A m \in CpuNodes : m \notin Domains
            <4>1. \A c \in CPUs : Node(c, 0) \notin Domains
                BY NodeFacts, Zenon
            <4> QED BY <4>1, Zenon DEF CpuNodes
        <3> QED BY <3>1, Zenon DEF AllNodes
    <2> QED BY <1>1, <2>1, Zenon
<1>14. BootInv
    <2>1. \A c \in CPUs : 1 \in AllLevels /\ Node(c, 1) \in Domains
        BY NodeFacts, LevelFacts, Zenon
    <2>2. \A c \in CPUs : local_state[Node(c, 1)] # RUN => aff[c] # "ON"
        BY <1>2, <1>5, <1>9, <2>1, Zenon
    <2> QED BY <1>13, <2>1, <2>2, Zenon DEF BootInv
<1>15. ASSUME NEW n \in AllNodes, local_state[n] # RUN, n \in Domains => last_cpu_in_non_cpu_pd[n] # None
       PROVE  entered[n][local_state[n]] > 0
    <2>1. n \in CpuNodes
        BY <1>1, <1>15, Zenon DEF AllNodes
    <2>2. local_state[n] = BootState(n) /\ local_state[n] \in {RET, OFF}
        BY <1>4, <1>15, Zenon
    <2>3. entered[n][local_state[n]] = 1
        BY <1>1, <2>1, <2>2
    <2> QED BY <2>3
<1>16. SleepInv
    BY <1>15, Zenon DEF SleepInv
<1>17. ASSUME NEW n \in AllNodes, NEW s \in {RET, OFF}
       PROVE  count[n][s] = entered[n][s] - (IF local_state[n] = s /\ entered[n][s] > 0 THEN 1 ELSE 0)
    <2>1. count[n][s] = 0
        BY <1>1, Zenon
    <2>2. entered[n][s] = IF n \in CpuNodes /\ s = BootState(n) THEN 1 ELSE 0
        BY <1>1, Zenon
    <2>3. local_state[n] = BootState(n)
        BY <1>4, Zenon
    <2> QED BY <2>1, <2>2, <2>3
<1>18. CountsEntries
    BY <1>17, Zenon DEF CountsEntries, AllNodes
<1> QED BY <1>1, <1>6, <1>10, <1>11, <1>12, <1>14, <1>16, <1>18, Zenon DEF IInv

(* Every step keeps the invariant.                                         *)
LEMMA NextInv == IInv /\ [Next]_vars => IInv'
<1> SUFFICES ASSUME IInv, [Next]_vars PROVE IInv'
    BY Zenon
<1>1. CASE Next
    <2>1. PICK c \in CPUs :
             \/ \E s \in [0 .. PLAT_MAX_PWR_LVL -> States] : psci_cpu_suspend(c, s)
             \/ psci_do_cpu_off(c)
             \/ \E t \in CPUs : CpuOn(c, t)
             \/ WakeUp(c)
        BY <1>1, Zenon DEF Next
    <2>2. CASE \E s \in [0 .. PLAT_MAX_PWR_LVL -> States] : psci_cpu_suspend(c, s)
        BY <2>2, SuspendStep, Zenon
    <2>3. CASE psci_do_cpu_off(c)
        BY <2>3, CpuOffStep, Zenon
    <2>4. CASE \E t \in CPUs : CpuOn(c, t)
        BY <2>4, CpuOnStep, Zenon
    <2>5. CASE WakeUp(c)
        BY <2>5, WakeUpStep, Zenon
    <2> QED BY <2>1, <2>2, <2>3, <2>4, <2>5, Zenon
<1>2. CASE UNCHANGED vars
    <2>1. /\ local_state' = local_state /\ votes' = votes /\ aff' = aff /\ level' = level
          /\ last_cpu_in_non_cpu_pd' = last_cpu_in_non_cpu_pd /\ count' = count /\ stop' = stop
          /\ entered' = entered /\ early' = early
        BY <1>2, Zenon DEF vars
    <2>2. TypeInv' /\ VotesInv' /\ StateInv'
        BY <2>1, Zenon DEF IInv, TypeInv, VotesInv, StateInv, Runs
    <2>3. SystemInv' /\ BootInv' /\ SleepInv' /\ CountsEntries' /\ stop' = FALSE
        BY <2>1, Zenon DEF IInv, SystemInv, BootInv, SleepInv, CountsEntries
    <2> QED BY <2>2, <2>3, Zenon DEF IInv
<1> QED BY <1>1, <1>2, Zenon

(* The invariant holds in every reachable state.                           *)
THEOREM StatesMatchVotes == Spec => []IInv
BY InitInv, NextInv, PTL DEF Spec

(* The assertion of psci_stats_update_pwr_up never fails: a domain found   *)
(* asleep on the way up has a last CPU, although only the cluster's entry  *)
(* is tested for a first power-up.                                         *)
THEOREM LastCpuKnownHolds == Spec => []LastCpuKnown
<1>1. IInv => LastCpuKnown
    BY Zenon DEF IInv, LastCpuKnown
<1> QED BY <1>1, StatesMatchVotes, PTL

(* The counts that psci_stats_update_pwr_up keeps are the numbers of times *)
(* the nodes entered and left the states, for any number of requests.      *)
THEOREM CountsEntriesHolds == Spec => []CountsEntries
<1>1. IInv => CountsEntries
    BY Zenon DEF IInv
<1> QED BY <1>1, StatesMatchVotes, PTL
=============================================================================
