---------------------------- MODULE PsciAffinity ----------------------------
(***************************************************************************)
(* The affinity state of one CPU, the target, without hardware-assisted    *)
(* coherency: CPU_OFF on the target writes it with the data cache off,     *)
(* CPU_ON, AFFINITY_INFO and psci_is_last_on_cpu on the other CPUs use it  *)
(* through their caches.  PsciPower treats aff_info_state as one variable; *)
(* this module models the copies of it, the cache maintenance of           *)
(* psci_do_cpu_off and psci_cpu_on_start, and the retry in the latter.     *)
(*                                                                         *)
(* The caches of the other CPUs are coherent with each other, and are one  *)
(* cache here.  Its line of the affinity state may be evicted, or loaded   *)
(* by speculation, at any time.                                            *)
(***************************************************************************)
EXTENDS Integers

CONSTANTS Cpus,            \* the CPUs other than the target
          ExitsCoherency,  \* pwr_domain_off may take the target's cluster,
                           \* which has no other CPU on, out of coherency
          OnMayFail        \* pwr_domain_on may return PSCI_E_INTERN_FAIL

ASSUME PlatformAssumption == {ExitsCoherency, OnMayFail} \subseteq BOOLEAN

None == "none"
AFF_STATES == {"ON", "OFF", "ON_PENDING"}

ASSUME NoneAssumption == None \notin Cpus

VARIABLES
    mem,        \* aff_info_state in memory
    line,       \* the value of its line in the cache, or None
    dirty,      \* the line is newer than memory
    coherent,   \* maintenance by the target reaches the cache
    tpc,        \* where the target is
    power_on,   \* the power controller was told to power the target on
    cpu_lock,   \* holder of the CPU_ON lock of the target
    pc,         \* where each other CPU is
    seen,       \* the state that it read last
    was_off     \* history: the target was off, and nobody was turning it on,
                \* all the time since the current call began

vars == <<mem, line, dirty, coherent, tpc, power_on, cpu_lock, pc, seen, was_off>>

-----------------------------------------------------------------------------
\* The memory system.

\* Loads and stores with the cache on.
Cached == IF line = None THEN mem ELSE line

Load == line' = Cached /\ UNCHANGED dirty

Store(v) == line' = v /\ dirty' = TRUE

\* Clean and invalidate to memory.
flush_dcache_range == /\ mem' = IF dirty THEN line ELSE mem
                      /\ line' = None
                      /\ dirty' = FALSE

Evict == /\ line # None
         /\ flush_dcache_range
         /\ UNCHANGED <<coherent, tpc, power_on, cpu_lock, pc, seen, was_off>>

Speculate == /\ line = None
             /\ Load
             /\ UNCHANGED <<mem, coherent, tpc, power_on, cpu_lock, pc, seen, was_off>>

-----------------------------------------------------------------------------
\* The target.

Init == /\ mem = "ON"
        /\ line = None
        /\ dirty = FALSE
        /\ coherent = TRUE
        /\ tpc = "on"
        /\ power_on = FALSE
        /\ cpu_lock = None
        /\ pc = [c \in Cpus |-> "ns"]
        /\ seen = [c \in Cpus |-> "OFF"]
        /\ was_off = [c \in Cpus |-> FALSE]

Target(from, to) == /\ tpc = from /\ tpc' = to
                    /\ UNCHANGED <<power_on, cpu_lock, pc, seen, was_off>>

\* psci_do_cpu_off up to the release of the locks: the data cache is off now.
psci_do_cpu_off ==
    /\ Target("on", "off_flush")
    /\ coherent' \in {TRUE, ~ExitsCoherency}
    /\ UNCHANGED <<mem, line, dirty>>

psci_flush_cpu_data ==
    /\ Target("off_flush", "off_set")
    /\ IF coherent THEN flush_dcache_range ELSE UNCHANGED <<mem, line, dirty>>
    /\ UNCHANGED coherent

psci_set_aff_info_state ==
    /\ Target("off_set", "off_inv")
    /\ mem' = "OFF"
    /\ UNCHANGED <<line, dirty, coherent>>

\* Faulty variant: the line is not invalidated.
Faulty_psci_inv_cpu_data ==
    /\ Target("off_inv", "wfi")
    /\ UNCHANGED <<mem, line, dirty, coherent>>

\* Faulty variant: the line is invalidated more than once.
FaultyRepeat_psci_inv_cpu_data ==
    /\ \E to \in {"off_inv", "wfi"} : Target("off_inv", to)
    /\ line' = IF coherent THEN None ELSE line
    /\ dirty' = (dirty /\ ~coherent)
    /\ UNCHANGED <<mem, coherent>>

\* The line is dropped, dirty or not.
psci_inv_cpu_data ==
    /\ Target("off_inv", "wfi")
    /\ line' = IF coherent THEN None ELSE line
    /\ dirty' = (dirty /\ ~coherent)
    /\ UNCHANGED <<mem, coherent>>

WarmReset ==
    /\ tpc = "wfi" /\ power_on
    /\ tpc' = "reset"
    /\ power_on' = FALSE
    /\ coherent' = TRUE
    /\ UNCHANGED <<mem, line, dirty, cpu_lock, pc, seen, was_off>>

\* The first read of the state is made with the data cache off.
psci_warmboot_entrypoint ==
    /\ Target("reset", IF mem = "OFF" THEN "panic" ELSE "on_finish")
    /\ UNCHANGED <<mem, line, dirty, coherent>>

\* The data cache is on again; waits for the CPU_ON lock, then asserts.
psci_cpu_on_finish ==
    /\ cpu_lock = None
    /\ Target("on_finish", IF Cached = "ON_PENDING" THEN "run" ELSE "assert")
    /\ Load
    /\ UNCHANGED <<mem, coherent>>

psci_set_pwr_domains_to_run ==
    /\ Target("run", "run_flush")
    /\ Store("ON")
    /\ UNCHANGED <<mem, coherent>>

RunFlush ==
    /\ Target("run_flush", "on")
    /\ flush_dcache_range
    /\ UNCHANGED coherent

-----------------------------------------------------------------------------
\* The other CPUs.

Step(c, from, to) == /\ pc[c] = from /\ pc' = [pc EXCEPT ![c] = to]
                     /\ UNCHANGED <<coherent, tpc>>

Begin(c) == was_off' = [was_off EXCEPT
                          ![c] = tpc = "wfi" /\ cpu_lock = None /\ ~power_on]

\* psci_cpu_on_start.
psci_spin_lock_cpu(c) ==
    /\ cpu_lock = None
    /\ Step(c, "ns", "on_flush")
    /\ cpu_lock' = c
    /\ Begin(c)
    /\ UNCHANGED <<mem, line, dirty, power_on, seen>>

\* Faulty variant: no cache maintenance ahead of the read.
FaultyOnFlush(c) ==
    /\ Step(c, "on_flush", "on_read")
    /\ UNCHANGED <<mem, line, dirty, power_on, cpu_lock, seen, was_off>>

OnFlush(c) ==
    /\ Step(c, "on_flush", "on_read")
    /\ flush_dcache_range
    /\ UNCHANGED <<power_on, cpu_lock, seen, was_off>>

OnRead(c) ==
    /\ Step(c, "on_read", "on_validate")
    /\ Load
    /\ seen' = [seen EXCEPT ![c] = Cached]
    /\ UNCHANGED <<mem, power_on, cpu_lock, was_off>>

cpu_on_validate_state(c) ==
    /\ Step(c, "on_validate", IF seen[c] = "OFF" THEN "pending" ELSE "unlock")
    /\ UNCHANGED <<mem, line, dirty, power_on, cpu_lock, seen, was_off>>

SetPending(c) ==
    /\ Step(c, "pending", "pending_flush")
    /\ Store("ON_PENDING")
    /\ was_off' = [d \in Cpus |-> FALSE]
    /\ UNCHANGED <<mem, power_on, cpu_lock, seen>>

PendingFlush(c) ==
    /\ Step(c, "pending_flush", "check")
    /\ flush_dcache_range
    /\ UNCHANGED <<power_on, cpu_lock, seen, was_off>>

\* Faulty variant: the update is not tried again.
FaultyCheckPending(c) ==
    /\ Step(c, "check", "plat")
    /\ Load
    /\ seen' = [seen EXCEPT ![c] = Cached]
    /\ UNCHANGED <<mem, power_on, cpu_lock, was_off>>

CheckPending(c) ==
    /\ Step(c, "check", CASE Cached = "ON_PENDING" -> "plat"
                          [] Cached = "OFF" -> "retry"
                          [] OTHER -> "assert")
    /\ Load
    /\ seen' = [seen EXCEPT ![c] = Cached]
    /\ UNCHANGED <<mem, power_on, cpu_lock, was_off>>

RetryPending(c) ==
    /\ Step(c, "retry", "retry_flush")
    /\ Store("ON_PENDING")
    /\ UNCHANGED <<mem, power_on, cpu_lock, seen, was_off>>

RetryFlush(c) ==
    /\ Step(c, "retry_flush", "recheck")
    /\ flush_dcache_range
    /\ UNCHANGED <<power_on, cpu_lock, seen, was_off>>

RecheckPending(c) ==
    /\ Step(c, "recheck", IF Cached = "ON_PENDING" THEN "plat" ELSE "assert")
    /\ Load
    /\ UNCHANGED <<mem, power_on, cpu_lock, seen, was_off>>

pwr_domain_on(c) ==
    /\ Step(c, "plat", "unlock")
    /\ power_on' = TRUE
    /\ UNCHANGED <<mem, line, dirty, cpu_lock, seen, was_off>>

\* PSCI_E_INTERN_FAIL
pwr_domain_on_fails(c) ==
    /\ OnMayFail
    /\ Step(c, "plat", "restore_flush")
    /\ Store("OFF")
    /\ UNCHANGED <<mem, power_on, cpu_lock, seen, was_off>>

RestoreFlush(c) ==
    /\ Step(c, "restore_flush", "restored")
    /\ flush_dcache_range
    /\ UNCHANGED <<power_on, cpu_lock, seen, was_off>>

\* Faulty variant: the lock is kept.
Faulty_psci_spin_unlock_cpu(c) ==
    /\ Step(c, "unlock", "ns") \/ Step(c, "restored", "ns")
    /\ UNCHANGED <<mem, line, dirty, power_on, cpu_lock, seen, was_off>>

psci_spin_unlock_cpu(c) ==
    /\ Step(c, "unlock", "ns") \/ Step(c, "restored", "ns")
    /\ cpu_lock' = None
    /\ UNCHANGED <<mem, line, dirty, power_on, seen, was_off>>

\* psci_affinity_info: flush, then read.
psci_affinity_info(c) ==
    /\ Step(c, "ns", "info_read")
    /\ flush_dcache_range
    /\ Begin(c)
    /\ UNCHANGED <<power_on, cpu_lock, seen>>

InfoRead(c) ==
    /\ Step(c, "info_read", "info_done")
    /\ Load
    /\ seen' = [seen EXCEPT ![c] = Cached]
    /\ UNCHANGED <<mem, power_on, cpu_lock, was_off>>

\* psci_is_last_on_cpu comes to the target: a plain read.
psci_is_last_on_cpu(c) ==
    /\ Step(c, "ns", "scan_done")
    /\ Load
    /\ seen' = [seen EXCEPT ![c] = Cached]
    /\ Begin(c)
    /\ UNCHANGED <<mem, power_on, cpu_lock>>

Return(c) ==
    /\ Step(c, "info_done", "ns") \/ Step(c, "scan_done", "ns")
    /\ UNCHANGED <<mem, line, dirty, power_on, cpu_lock, seen, was_off>>

-----------------------------------------------------------------------------
TargetNext ==
    \/ psci_flush_cpu_data \/ psci_set_aff_info_state \/ psci_inv_cpu_data
    \/ WarmReset \/ psci_warmboot_entrypoint \/ psci_cpu_on_finish
    \/ psci_set_pwr_domains_to_run \/ RunFlush

CpuNext(c) ==
    \/ OnFlush(c) \/ OnRead(c) \/ cpu_on_validate_state(c) \/ SetPending(c)
    \/ PendingFlush(c) \/ CheckPending(c) \/ RetryPending(c) \/ RetryFlush(c)
    \/ RecheckPending(c) \/ pwr_domain_on(c) \/ pwr_domain_on_fails(c)
    \/ RestoreFlush(c) \/ psci_spin_unlock_cpu(c) \/ InfoRead(c) \/ Return(c)

Call(c) == psci_spin_lock_cpu(c) \/ psci_affinity_info(c) \/ psci_is_last_on_cpu(c)

Next == \/ Evict \/ Speculate
        \/ psci_do_cpu_off \/ TargetNext
        \/ \E c \in Cpus : Call(c) \/ CpuNext(c)

Spec == Init /\ [][Next]_vars

\* CPUs in a handler keep executing, and the CPU_ON lock is not kept from the
\* target by a stream of CPU_ON calls that never ends.
TargetFairness == /\ WF_vars(TargetNext) /\ SF_vars(psci_cpu_on_finish)
                  /\ \A c \in Cpus : WF_vars(CpuNext(c))

-----------------------------------------------------------------------------
Places == {"ns", "on_flush", "on_read", "on_validate", "pending", "pending_flush",
           "check", "retry", "retry_flush", "recheck", "plat", "restore_flush",
           "restored", "unlock", "info_read", "info_done", "scan_done", "assert"}
TargetPlaces == {"on", "off_flush", "off_set", "off_inv", "wfi", "reset",
                 "on_finish", "run", "run_flush", "panic", "assert"}

(* Memory and the cache hold affinity states.                              *)
TypeOK ==
    /\ mem \in AFF_STATES
    /\ line \in AFF_STATES \cup {None}
    /\ dirty \in BOOLEAN
    /\ coherent \in BOOLEAN
    /\ tpc \in TargetPlaces
    /\ power_on \in BOOLEAN
    /\ cpu_lock \in Cpus \cup {None}
    /\ pc \in [Cpus -> Places]
    /\ seen \in [Cpus -> AFF_STATES]
    /\ was_off \in [Cpus -> BOOLEAN]

(* A CPU that CPU_ON started finds ON_PENDING when it reads its state with *)
(* the data cache off and again with the cache on: the invalidation at the *)
(* end of its CPU_OFF has not undone the update.  Otherwise it panics.     *)
PendingReachesTarget == tpc \notin {"panic", "assert"}

(* One retry in psci_cpu_on_start is enough: the assertions around it hold *)
(* whenever the target's CPU_OFF runs.                                     *)
RetryIsEnough == \A c \in Cpus : pc[c] # "assert"

(* CPU_ON and AFFINITY_INFO for a CPU that was off when they were called,  *)
(* and that nobody turns on meanwhile, see OFF: CPU_ON does not answer     *)
(* ALREADY_ON from a stale line, even when the target's cluster left       *)
(* coherency before the target invalidated its state.                      *)
OffIsSeen ==
    \A c \in Cpus : pc[c] \in {"on_validate", "info_done"} /\ was_off[c]
                       => seen[c] = "OFF"

(* A read that does no maintenance of its own sees OFF as well once        *)
(* CPU_OFF has finished: what psci_do_cpu_off says its maintenance is for, *)
(* "to ensure that later cached reads of aff_info_state return             *)
(* AFF_STATE_OFF".                                                         *)
LaterReadsSeeOff ==
    \A c \in Cpus : pc[c] = "scan_done" /\ was_off[c] => seen[c] = "OFF"

(* Every CPU_OFF that has begun and every CPU_ON that succeeded end: the   *)
(* target does not stay behind in psci_cpu_on_finish.                      *)
TargetEnds == /\ tpc = "off_flush" ~> tpc = "wfi"
              /\ power_on ~> tpc = "on"

=============================================================================
