---------------------------- MODULE PsciTopology ----------------------------
(***************************************************************************)
(* psci_setup: the power domain tree that the rest of PSCI works on, built *)
(* from the topology array of the platform, and the range of CPUs below    *)
(* each domain, over which state coordination takes its minimum.           *)
(*                                                                         *)
(* The array is breadth-first: entry 0 is the number of root domains and   *)
(* entry n + 1 the number of children of domain n.  Every array over a     *)
(* small range is a platform, clusters without CPUs included.              *)
(* One step handles one entry of the array or one CPU.                     *)
(***************************************************************************)
EXTENDS Integers, FiniteSets, Functions

CONSTANTS PLAT_MAX_PWR_LVL,
          MaxChildren,   \* bound: children of a domain
          Entries        \* bound: entries of the topology array

ASSUME TopologyAssumption ==
    PLAT_MAX_PWR_LVL \in {1, 2} /\ MaxChildren \in Nat \ {0} /\ Entries \in Nat \ {0}

VARIABLES topology,
          nodes,      \* psci_non_cpu_pd_nodes: level, parent, cpu_start_idx, ncpus
          cpus,       \* psci_cpu_pd_nodes: the parent of each CPU
          level, i, num_nodes_at_lvl, num_nodes_at_next_lvl, node_index, parent_node_index,
          cpu_idx, nodes_idx    \* locals of psci_update_pwrlvl_limits

loop == <<level, i, num_nodes_at_lvl, num_nodes_at_next_lvl, node_index, parent_node_index>>
vars == <<topology, nodes, cpus, loop, cpu_idx, nodes_idx>>

Empty == [n \in {} |-> 0]

Init ==
    /\ topology \in [0 .. Entries - 1 -> 0 .. MaxChildren] /\ topology[0] > 0
    /\ PLAT_MAX_PWR_LVL > 1 => \A n \in 1 .. topology[0] : topology[n] > 0
    /\ nodes = Empty /\ cpus = Empty
    /\ level = PLAT_MAX_PWR_LVL /\ i = 0
    /\ num_nodes_at_lvl = 1 /\ num_nodes_at_next_lvl = 0
    /\ node_index = 0 /\ parent_node_index = 0
    /\ cpu_idx = 0 /\ nodes_idx = [j \in 0 .. PLAT_MAX_PWR_LVL - 1 |-> 0]

\* Entry n + 1 describes domain n; the parent of the roots is -1.
Parent(index) == index - 1

\* The domains or CPUs of one array entry.
psci_init_pwr_domain_node(first, num) ==
    LET new == first .. first + num - 1 IN
    IF level > 0
    THEN /\ nodes' = [n \in DOMAIN nodes \cup new |->
                        IF n \in new THEN [level |-> level, parent |-> Parent(parent_node_index),
                                           cpu_start_idx |-> 0, ncpus |-> 0]
                        ELSE nodes[n]]
         /\ UNCHANGED cpus
    ELSE /\ cpus' = [n \in DOMAIN cpus \cup new |-> IF n \in new THEN Parent(parent_node_index) ELSE cpus[n]]
         /\ UNCHANGED nodes

\* The body of the inner loop of populate_power_domain_tree.
PopulateEntry ==
    /\ level >= 0 /\ i < num_nodes_at_lvl
    /\ psci_init_pwr_domain_node(node_index, topology[parent_node_index])
    /\ node_index' = node_index + topology[parent_node_index]
    /\ num_nodes_at_next_lvl' = num_nodes_at_next_lvl + topology[parent_node_index]
    /\ parent_node_index' = parent_node_index + 1
    /\ i' = i + 1
    /\ UNCHANGED <<topology, level, num_nodes_at_lvl, cpu_idx, nodes_idx>>

\* A next level that does not restart the indices at the CPUs.
FaultyNextLevel ==
    /\ level >= 0 /\ i = num_nodes_at_lvl
    /\ num_nodes_at_lvl' = num_nodes_at_next_lvl /\ num_nodes_at_next_lvl' = 0
    /\ level' = level - 1 /\ i' = 0
    /\ UNCHANGED <<topology, nodes, cpus, node_index, parent_node_index, cpu_idx, nodes_idx>>

NextLevel ==
    /\ level >= 0 /\ i = num_nodes_at_lvl
    /\ num_nodes_at_lvl' = num_nodes_at_next_lvl /\ num_nodes_at_next_lvl' = 0
    /\ level' = level - 1 /\ i' = 0
    /\ node_index' = IF level' = 0 THEN 0 ELSE node_index
    /\ UNCHANGED <<topology, nodes, cpus, parent_node_index, cpu_idx, nodes_idx>>

Populated == level < 0
psci_plat_core_count == node_index

\* psci_get_parent_pwr_domain_nodes(c, PLAT_MAX_PWR_LVL, .)
Ancestors(c) ==
    LET up[j \in 0 .. PLAT_MAX_PWR_LVL - 1] == IF j = 0 THEN cpus[c] ELSE nodes[up[j - 1]].parent
    IN up

\* One CPU of psci_update_pwrlvl_limits: a domain that is not that of the CPU
\* before starts here.
psci_update_pwrlvl_limits ==
    /\ Populated /\ cpu_idx < psci_plat_core_count
    /\ LET temp == Ancestors(cpu_idx) IN
       /\ nodes' = [n \in DOMAIN nodes |->
                      IF n \in Range(temp)
                      THEN [nodes[n] EXCEPT !.ncpus = @ + 1,
                              !.cpu_start_idx =
                                 IF \E j \in DOMAIN temp : temp[j] = n /\ nodes_idx[j] # n THEN cpu_idx ELSE @]
                      ELSE nodes[n]]
       /\ nodes_idx' = temp
    /\ cpu_idx' = cpu_idx + 1
    /\ UNCHANGED <<topology, cpus, loop>>

Next == PopulateEntry \/ NextLevel \/ psci_update_pwrlvl_limits

Spec == Init /\ [][Next]_vars

Done == Populated /\ cpu_idx = psci_plat_core_count

----------------------------------------------------------------------------
TypeOK ==
    /\ level \in -1 .. PLAT_MAX_PWR_LVL
    /\ \A n \in DOMAIN nodes : /\ nodes[n].level \in 1 .. PLAT_MAX_PWR_LVL
                               /\ nodes[n].parent \in DOMAIN nodes \cup {-1}
    /\ Range(cpus) \subseteq DOMAIN nodes

\* The tree is the one the platform described: every domain has the number of
\* children its array entry says, one level below it, the roots have no
\* parent, and the CPUs are numbered from 0 (populate_power_domain_tree).  In
\* the end, the range of CPUs of a domain is exactly the set of CPUs below it
\* (psci_update_pwrlvl_limits): state coordination neither overlooks the vote
\* of a CPU nor counts a foreign one, because the children of a domain have
\* adjacent indices.
TreeMatchesTopology ==
    /\ Populated =>
        /\ DOMAIN cpus = 0 .. psci_plat_core_count - 1
        /\ \A n \in DOMAIN nodes :
              LET children == IF nodes[n].level = 1 THEN {c \in DOMAIN cpus : cpus[c] = n}
                              ELSE {m \in DOMAIN nodes : nodes[m].parent = n /\ nodes[m].level = nodes[n].level - 1}
              IN Cardinality(children) = topology[n + 1]
        /\ {n \in DOMAIN nodes : nodes[n].parent = -1} = {n \in DOMAIN nodes : nodes[n].level = PLAT_MAX_PWR_LVL}
    /\ Done => \A n \in DOMAIN nodes :
        nodes[n].cpu_start_idx .. nodes[n].cpu_start_idx + nodes[n].ncpus - 1 =
            {c \in DOMAIN cpus : n \in Range(Ancestors(c))}
=============================================================================
