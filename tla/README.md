# TLA+ models of Trusted Firmware-A

This directory holds TLA+ models of the EL3 runtime firmware in `src/`, the TLC
configurations that check them on small instances, and TLAPS proofs of their
main properties for every size of the system. The modules are translated from
the C source; `PROJECT.json` maps each definition to the lines it stands for.

## 1. The system and its parts

Trusted Firmware-A boots a machine (BL1, BL2) and stays resident at EL3 (BL31)
or in AArch32 monitor mode (sp_min) to serve calls from the normal world. After
boot all of it is interrupt-masked code that runs on several CPUs at once on
shared data, some CPUs with their caches off. What makes it hard:

| Part | Source | State it keeps | Operations | Runs concurrently with |
|---|---|---|---|---|
| Bakery lock | `lib/locks/bakery`, `include/lib/bakery_lock.h` | one entry per CPU | get, release | itself on all CPUs |
| PSCI power management | `lib/psci/psci_{main,on,off,suspend,common}.c` | affinity state, local states and votes per CPU and domain, node locks, CPU_ON locks | CPU_ON, CPU_OFF, CPU_SUSPEND, SYSTEM_SUSPEND, warm boot | all CPUs, the power controller, interrupts |
| PSCI OS-initiated mode | `psci_common.c`, `psci_main.c`, `psci_suspend.c` under `PSCI_OS_INIT_MODE` | suspend mode, votes | SET_SUSPEND_MODE, CPU_SUSPEND | all CPUs |
| PSCI topology | `psci_setup.c` | the power domain tree | psci_setup | nothing (boot CPU only) |
| PSCI statistics | `psci_stat.c` | last CPU per domain, counters | update_pwr_down, update_pwr_up, get_stat | all CPUs, under the node locks |
| PSCI last-CPU queries | `psci_common.c` | reads affinity states | is_last_on_cpu_safe, are_all_cpus_on_safe, stop_other_cores | all CPUs |
| Cache maintenance of `aff_info_state` | `psci_on.c`, `psci_off.c` | one byte in a cache and in memory | flush, invalidate, retry | CPU_ON against CPU_OFF |
| Baikal core start | `plat/baikal/{bm1000,bs1000,common}` | reset register of a cluster, hold entries, mailbox | pwr_domain_on, reset vector, holding pen | all CPUs, started cores |
| Exception Handling Framework | `bl31/ehf.c` | active priorities, saved masks of each PE | activate, deactivate, world switches | interrupts of the same PE |
| TSP dispatcher | `services/spd/tspd` | per-CPU secure context, saved context | fast and yielding calls, resume, abort, PSCI hooks | interrupts of the same CPU |
| SDEI | `services/std_svc/sdei` | event maps and entries, masks, dispatch stacks | bind, register, enable, route, mask, dispatch, complete | all PEs, interrupts |
| SPMC, SPMD, RMMD | `services/std_svc` | partitions, mailboxes, memory shares | FF-A, RMI | all CPUs |
| Translation tables, GPT | `lib/xlat_tables_v2`, `lib/gpt_rme` | table trees | map, unmap, transition | under a lock |
| Boot loaders, image authentication, IO | `bl1`, `bl2`, `drivers/auth`, `drivers/io` | image descriptors | load, authenticate | nothing |

## 2. How the modules fit together

Locks come first, because everything rests on them; then the power domain tree,
what shares its data, and the services that are called from the normal world.

- `BakeryLock` implements `MutexLock` (refinement, checked and proved). The node
  and CPU_ON locks of `PsciPower` keep exactly that promise.
- `PsciTopology` builds the trees that `TopologyAssumption` of `PsciPower`
  assumes.
- `PsciAffinity` splits the variable `aff_info_state` of `PsciPower` into its
  copies in memory and cache.
- `PsciOsi`, `PsciStat` and `PsciLastCpu` take the steps of `PsciPower` that
  hold all locks as single steps and add what is kept or read beside them.
- `BaikalHold` is what happens below `pwr_domain_on` of `PsciPower` on the Baikal
  SoCs.
- `Tspd` instantiates `Ehf`: the dispatcher's saves and restores of the
  normal-world context are the calls that stash and restore the priority mask.

Several modules choose in `Init` one of a set of platforms, builds or clients,
which is a constant (`Boards`, `Platforms`, `Builds`, `Clients`), and never change
it. One run so covers all of them, and a property that needs a condition on the
platform names it.

## 3. Modules and the code

### MutexLock, BakeryLock

`MutexLock` is the promise: a lock has at most one holder, only its holder
releases it. `BakeryLock` translates `bakery_lock_coherent.c` load by load and
store by store.

| Model | Code |
|---|---|
| `lock_data[c]` | `bakery->lock_data[c]`, a 16-bit entry: choosing bit and 15-bit ticket |
| `my_ticket`, `they`, `their_ticket` | the locals of the same names |
| `StartChoosing`, `ScanTicket`, `PublishTicket` | `bakery_get_ticket` |
| `ReadContender`, `Wfe`, `RereadTicket`, `SkipSelf`, `LockAcquired` | `bakery_lock_get` |
| `ReleaseTicket`, `Sev` | `bakery_lock_release` |

The event register of WFE is modelled: SEV sets it for every CPU, WFE clears it
or waits. Barriers make accesses to coherent memory sequentially consistent, so
interleaving of single accesses is the whole concurrency. `N` is the number of
CPUs and `TICKET_MAX` the largest ticket the field holds (0x7FFF in the code).
That SEV reaches every CPU is an assumption about the hardware: a comment in
`plat/baikal/bm1000/bm1000_pm.c` says of that SoC that the event "is signaled
locally and not signaled to other cores". The faulty variant `FaultySev` is that
case; with it `EveryContenderGetsTheLock` fails, because a waiter stays in WFE.

### PsciPower

One module for the calls that share the power domain tree. A CPU runs one
handler at a time; `pc[c]` is its place and `op`, `end_pwrlvl`, `level`,
`state_info`, `idx` are the locals of the handler. The steps are the points
between which another CPU can observe a difference: each lock operation, and
each library function that reads or writes shared state.

| Model | Code |
|---|---|
| `aff_info_state`, `target_pwrlvl`, `cpu_local_state` | `psci_svc_cpu_data` of each CPU |
| `node_local_state`, `psci_locks` | `psci_non_cpu_pd_nodes[].local_state`, `psci_locks[]` |
| `req_local_pwr_states` | `psci_req_local_pwr_states` (the votes) |
| `cpu_lock` | `psci_cpu_pd_nodes[].cpu_lock` |
| `ns_context` | whether a fresh non-secure context is ready |
| `power_on` | what the power controller was told by `pwr_domain_on` |
| `CpuOff`, `psci_do_state_coordination`, `psci_set_target_local_pwr_states`, `Unlocked` | `psci_do_cpu_off` |
| `CpuSuspend`, `StandbyExit`, `WakeFromRetention`, `DenyOrInterrupt` | `psci_cpu_suspend`, `psci_cpu_suspend_start`, `psci_suspend_to_standby_finisher` |
| `SystemSuspend`, `psci_is_last_on_cpu`, `IsLastOnCpu` | `psci_system_suspend` |
| `CpuOn` to `psci_spin_unlock_cpu` | `psci_cpu_on_start` |
| `WarmReset`, `psci_warmboot_entrypoint`, `psci_get_target_local_pwr_states`, `psci_cpu_on_finish`, `psci_cpu_suspend_finish`, `psci_set_pwr_domains_to_run` | `psci_warmboot_entrypoint` and its finishers |

Environment: the power controller (`WarmReset`; `pwr_domain_on` may fail),
interrupts, and the Secure Payload Dispatcher, which may deny CPU_OFF. The tree
and the idle states of the platform are constants, with the assumptions that
`psci_validate_suspend_req` and the construction of the tree give.

A CPU is reset only once it is in wfi: the power controllers wait for that (on
bs1000 `ca75_core_warm_reset` waits until the power-down request is accepted).
`ExitsCoherency` of `PsciAffinity` is what `bm1000_pwr_domain_off` does when the
last CPU of a cluster goes off.

Checks that end a call before it changes anything (entry point, MPIDR,
`pwr_domain_off_early`) are left out: a refused call is a call not made.

### PsciAffinity

`PsciPower` treats `aff_info_state` as one variable. Without hardware-assisted
coherency the target of CPU_ON writes it with its data cache off while the other
CPUs use it through theirs. This module has one target, any number of other
CPUs, the value in memory (`mem`), the cache line (`line`, `dirty`), and whether
maintenance by the target still reaches that cache (`coherent`). The line may be
evicted or loaded by speculation at any time. The target's steps are the tail of
`psci_do_cpu_off` (flush, write, invalidate) and the warm boot path; the steps
of the others are `psci_cpu_on_start` with its check, retry and second check,
`psci_affinity_info`, and the read in `psci_is_last_on_cpu`. `was_off` is a
history variable. The memory system itself is not code of this repository; it
is modelled from how the code uses it.

### PsciTopology

`populate_power_domain_tree` with its loop variables (`level`, the array index
`parent_node_index`, the running counts) and `psci_update_pwrlvl_limits`, one loop
iteration at a time. `Init` enumerates the platform's array. The result is
compared with the tree the array describes, not with a second construction.

### PsciOsi

`CPU_SUSPEND` in a build with `PSCI_OS_INIT_MODE`.

| Model | Code |
|---|---|
| `psci_suspend_mode`, `psci_set_suspend_mode`, `WriteMode` | `psci_set_suspend_mode`: the checks and the later store |
| `EnterStandby`, `ExitStandby`, `RestoreVotes`, `prev` | the standby path of `psci_cpu_suspend`, which takes no lock and reads the mode twice |
| `psci_validate_state_coordination`, `psci_is_last_cpu_to_idle_at_pwrlvl` | the functions of these names |
| `ValidateFails`, `Denied`, `SuspendGranted` | the rest of `psci_cpu_suspend_start` |
| `psci_cpu_suspend_finish`, `psci_suspend_to_standby_finisher` | the two ways to wake up |

An array that was not assigned is `Unset`; reading it is a choice over all
values. All locks of a request are taken in one step, and `CPU_OFF` and `CPU_ON`
are single steps, because `PsciPower` has their interleavings. A platform record
says which modes are set, whether the standby path is used, whether there is a
`pwr_domain_validate_suspend` hook, and whether callers are truthful, that is,
name the requested level in the request's last-CPU field.

### PsciStat

`psci_stats_update_pwr_down` and `psci_stats_update_pwr_up` with the states and
votes that decide which domains they look at. `entered` counts, as history, how
often a node really entered a state, and `early` that a CPU went down while a
`CPU_ON` was pending.

### PsciLastCpu

CPU 0 asks a question (`kind`): `psci_is_last_on_cpu_safe`,
`psci_are_all_cpus_on_safe`, or `psci_stop_other_cores` with a timeout. It reads
one affinity state per step. The other CPUs are turned on and off meanwhile when
`hotplug` is set. `psci_cpu_on_start` publishes ON_PENDING for a target, and
`pwr_domain_on` is the platform's answer: the target boots, or OFF is restored.
`psci_do_cpu_off` ends with the release of the locks, and
`psci_set_aff_info_state_off` is the later store of OFF, under no lock. Two history
variables cover the time the caller holds the lock: `leaving`, the CPUs between
the two parts of CPU_OFF when the lock was taken, and `failed`, the targets whose
CPU_ON has failed since. The timeout is counted down exactly as in the code,
where it ends at zero.

### BaikalHold

How the Baikal ports start a core: `bs1000_pwr_domain_on` and
`bm1000_pwr_domain_on`, reads and writes of the reset register as separate steps,
the reset vector of BL1 (`ResetVector`), and the holding pen (`poll_mailbox`,
`Wfe`). A board record says which SoC it is, whether the cores have left reset
and reached the pen at boot (BS1000), and whether the PLL of a cluster may fail
to start (BM1000). Stores to the hold entries are visible at once (the code ends
them with a barrier or cache maintenance). The set-up of clocks and the handshake
with the power controller are abstracted to their result. Callers are CPUs of
other clusters that stay on. They start different cores of the cluster at the
same time, since `psci_cpu_on_start` locks the target only. The history variable
`clash` becomes true when one of them reads the reset register while another has
a copy it has still to write (`HasCopy`), that is, when an update may be lost.

### Ehf

The per-PE data of `bl31/ehf.c` as a record (`pe`): the set of active priorities,
the initial and the stashed mask, the mask in the interrupt controller, and
whether EL3 has stopped. Each function of `ehf.c` is an operator from record to
record. The actions are its users: fast and yielding calls to a dispatcher,
`MM_COMMUNICATE`, SDEI dispatches by an interrupt or explicitly, each pushing a
frame on `stack` that its end pops. Assumed of the users: the normal world
changes its mask only outside SDEI handlers; SDEI handlers make no secure call
other than `MM_COMMUNICATE`; an explicit dispatch has a higher priority than what
is active, as the documentation of `sdei_dispatch_event` demands.

### Tspd

One CPU, the dispatcher in `tspd_main.c`, `tspd_common.c` and `tspd_pm.c`, the
entry points of the payload, and interrupts. A secure context is where it
executes and whether it masks interrupts. With `build.ehf` the operators of `Ehf`
are applied where saving or restoring the normal-world context publishes the
event they subscribe to. `build.async` is `TSP_NS_INTR_ASYNC_PREEMPT`;
`build.race` lets an S-EL1 interrupt overtake the interrupt that entered EL3;
`build.careful` restricts the client to abort only preempted calls and not to
power down while one is preempted. Start-up of the payload is not modelled.

### Sdei

Event maps, the entries of each PE, the interrupt controller, masks and dispatch
stacks. A critical section under the lock of a map is one step; the steps between
are the ones the code takes outside it: the lookups of `sdei_interrupt_bind`
(`BindLookup`, `BindFindSlot`, `BindLocked`), the acknowledgement of an interrupt
before the lock (`Acknowledge`), the set-up of the dispatch after it
(`setup_ns_dispatch`), and the end of the interrupt (`EndOfInterrupt`). A map is
dynamic (normal class, bound by the client), explicit (no interrupt, dispatched
by EL3), or bound by the platform to a fixed interrupt (`PlatformIntr`);
`MapsAssumption` is what `sdei_class_init` asserts of the arrays. A client
record says which PEs, events and calls it uses. The queries, the resets (loops
over unregister and release), event 0 and the saved registers are left out.

## 4. Runs

| Run | Instance | Question |
|---|---|---|
| `bakery` | 3 CPUs, 2 gets each | order of service, every contender gets the lock, implementation of `MutexLock` (hence exclusion) |
| `psci_power_safety` | 3 CPUs in 2 clusters, 3 levels, 5 idle states | agreement of CPUs, votes and domains; assertions; contexts; no deadlock |
| `psci_power_live` | 2 CPUs in 1 cluster | handlers end, CPU_ON completes |
| `affinity` | 2 other CPUs, coherency may be lost, `pwr_domain_on` may fail | ON_PENDING arrives and one retry is enough; who sees OFF when; CPU_OFF ends and CPU_ON completes |
| `osi` | 3 CPUs in 1 cluster, 4 platforms | grants only to the last CPU; votes of running CPUs; idle domains are idle |
| `stat` | 3 CPUs in 2 clusters, 3 requests to go down | the last CPU is known; counts are the entries made |
| `topology` | all arrays of 2 levels, up to 2 children, 7 entries | the tree and the CPU ranges are what the array says |
| `last_cpu` | 4 CPUs, 1 root, timeout 2, with and without hotplug, CPU_ON may fail | answers are true; denial means the whole timeout; CPUs that were asked stop |
| `hold` | 2 cores, 2 callers, 4 boards | no core leaves the pen uncalled; resets are safe; a started core comes up |
| `ehf` | 2 SDEI priorities, 1 secure partition, 3 masks | lower priorities stay out; the normal world gets its mask back; preemption as allowed |
| `tspd` | 4 builds | the preempted context is kept; synchronous entries complete; preemption of yielding calls only; masks balanced |
| `sdei` | 5 clients on 2 PEs, shared, private and explicit events | no failed assertion; ownership and counts; no trigger lost; running means dispatched once; a trigger is dispatched |

Bounds and why they are enough. Three CPUs give the bakery equal tickets and a
third party that overtakes; two gets each let a CPU come back while another
still waits for its earlier ticket; `TICKET_MAX` is large enough never to cut a
behaviour there. Three CPUs in two clusters give a shared and an unshared
cluster under a shared system domain, and the five idle states have every kind
of end level and mixture of retention and power-down. `PsciOsi` needs a CPU that
asks, one that is idle and one that changes its mind; it has one level above the
CPUs because OS-initiated mode fails with two (see below). In `PsciStat`,
`MaxSleeps` bounds the requests to go down: three of them put all the CPUs to
sleep in every order, and the counters would otherwise grow without end.
`PsciLastCpu` has three CPUs beside the caller: one already read, one being
read, one to come; the timeout of 2 gives a first, a middle and a last look.
`BaikalHold` has two callers, so that every two calls for a cluster overlap in
every way; three cores (a core that is off beside the two that are started) give
3.7 million states, in which the properties hold too. In `Sdei`, `MaxReg` bounds
the registrations of one event by the number of PEs, which is no restriction.
Two PEs race for a private interrupt with two free slots and the explicit event
behind them; with one slot, the search runs into the explicit event (see below). All handlers may be called any number of
times except where a bound is named. What the proofs cover holds for any number
of CPUs, and for all values of the other constants that section 5 allows.

`TypeOK` of each module says what its variables range over. It is an invariant
of the inductive proofs where there are proofs.

Deadlock. `PsciPower`, `PsciOsi` and `PsciStat` run without TLC's deadlock check
because all CPUs may be off, which ends the system; `NoDeadlock` of `PsciPower`
states the real question, that a CPU inside a handler is never stuck in a set of
CPUs that wait for each other. The bakery stops when all gets are used up and the
set-up of `PsciTopology` when it is done. `Ehf` and `Tspd` stop where EL3 panics or
the CPU is turned off, and `BaikalHold` where a PLL failed; what must not stop there is
stated by `ComesUp`. `PsciAffinity`, `PsciLastCpu` and `Sdei` run with the check.

Fairness. A CPU at EL3 runs with interrupts masked, so a step that waits for
nobody happens (weak fairness). The node locks are bakery locks, which are fair
(`EveryContenderGetsTheLock`), hence strong fairness of taking one; for the same
reason a CPU asked to stop in `PsciLastCpu` gets the locks of `psci_do_cpu_off`
although questions keep taking them. The CPU_ON spinlock is not queued; strong
fairness there excludes only an endless stream of CPU_ON calls for one target.
The power controller acts on a request to power a CPU on. In `Sdei`, a PE that
can acknowledge an interrupt again and again does so in the end, and a client
that masks a PE unmasks it. Other calls from the normal world, interrupts and
failures are never assumed to happen.

### Disagreements between code and comments

Met while modelling. Where a constant or a condition is named in parentheses,
TLC shows the case when it is changed or dropped; the properties of the runs
state the condition under which the promise holds.

PSCI and locks:

- Ticket wrap. `make_bakery_data` (`bakery_lock.h:47`) truncates the ticket to 15
  bits, so after 0x7FFF hand-overs without the lock ever being free a contender
  publishes 0, where `bakery_lock_coherent.c:84` promises a non-zero ticket. The
  guard `TicketFits` excludes it.
- `psci_is_last_on_cpu` (`psci_common.c:216`) takes no lock. CPU 1 is seen OFF,
  CPU 2 turns it on and goes off itself before it is read: SYSTEM_SUSPEND goes on
  with CPU 1 running (`PsciPower`, place "lock" of a system suspend).
- The same read does no cache maintenance, so when the target's cluster left
  coherency it can see ON for a CPU that is off, and refuse a SYSTEM_SUSPEND
  (`LaterReadsSeeOff` without the condition on `left`).
- A failed CPU_ON (`psci_on.c:148`) restores OFF, which the invalidation at the
  end of the target's own CPU_OFF (`psci_off.c:170`) can drop; unlike ON_PENDING it
  is not checked. The target then stays ON_PENDING (`OffIsSeen` without the
  condition on `failed`).
- `psci_is_last_on_cpu_safe` (`psci_common.c:1247`) locks the caller's root only;
  with several roots, as on the Baikal SoCs, its answer can be wrong
  (`AnswersAreTrue` with a `Root` that is not constant).
- AFF_STATE_OFF is stored after the locks are released (`psci_off.c:168`), so
  `psci_are_all_cpus_on_safe` may answer yes while a CPU goes off (the condition on
  `leaving`).
- The same question counts ON_PENDING as on (`psci_common.c:241`). When
  `pwr_domain_on` then fails, OFF is restored under the target's lock only
  (`psci_on.c:148`), and the answer is yes with that CPU off (the condition on
  `failed`).
- `psci_stop_other_cores` (`psci_common.c:1213`) does not ask a CPU that is
  ON_PENDING at its turn, where the comment says each online PE.
- First power-up of a cluster (`psci_stat.c:139`) returns early for the levels
  above it too: a CPU_ON that was pending while the system slept leaves that
  period of the system uncounted (the condition on `early`).

OS-initiated mode:

- `psci_is_last_cpu_to_idle_at_pwrlvl` (`psci_common.c:183`) and
  `psci_validate_state_coordination` do not climb the tree: a request for level 2
  is checked against the caller's cluster only (`GrantOnlyWhenLast` with
  `PLAT_MAX_PWR_LVL = 2` and two clusters).
- A change of mode during standby makes `psci_cpu_suspend` (`psci_main.c:132`)
  restore votes it never saved (`RunningCpuVotesRun` with both modes and standby).
- A retention request votes at every level, its finisher (`psci_suspend.c:61`)
  withdraws votes up to the requested one only (the same, with two levels).
- Votes stay when `pwr_domain_validate_suspend` refuses (`psci_suspend.c:223`),
  where `psci_osi_mode.rst:357` says they are not modified.
- PSCI_SET_SUSPEND_MODE stores a mode that is neither 0 nor 1 (`psci_main.c:418`),
  where `psci_osi_mode.rst:158` says INVALID_PARAMETERS.

Baikal core start:

- Two callers that start two cores of one cluster at once: reads and writes of
  the shared reset register interleave. On BS1000 (`bs1000_ca75.c:58`) a core stays
  in reset, or one that is off is reset and started again (three cores); on BM1000
  (`bm1000_mmca57.c:106`) one write releases a cluster and a core together, which
  its comment calls prohibited (`ComesUp`, `ExplicitlyWoken` and `ResetsAreSafe`
  without the condition on `clash`).
- When the PLL of a BM1000 cluster does not start (`bm1000_mmca57.c:78`), CPU_ON
  still succeeds (`ComesUp` without the condition on the PLL).

Exception handling, TSPD and SDEI:

- `ehf_deactivate_priority` (`ehf.c:209`) programs the priority that has just been
  deactivated as the mask, not the next one; activating it again panics
  (reachable as `pe.stop = "panic"`).
- An S-EL1 interrupt that overtakes (`tspd_main.c:183`) leaves its handler
  preemptible, and the context of the yielding call is overwritten
  (`PreemptedContextPreserved` without the condition on `race`).
- The abort hook of the TSP (`tsp_entrypoint.S:472`) relies on masked exceptions,
  but `tspd_abort_preempted_smc` sets only the ELR (`SynchronousEntriesComplete`
  without the condition on `async`).
- TSP_FID_ABORT with nothing to abort (`tspd_main.c:690`) saves the normal world's
  context and does not restore it, so the EHF keeps its mask stashed
  (`NsMaskRestored` with a client that is not careful).
- `sdei_interrupt_bind` (`sdei_main.c:721`) looks for an existing event without the
  lock: two PEs can obtain two events for one interrupt, and an acknowledgement
  then finds the first of them, registered or not (`TriggerLeadsToDispatch` with
  two shared slots). The private events of the run `sdei` do get bound twice.
- The search for a free slot (`sdei_main.c:742`) takes the first map whose interrupt
  is SDEI_DYN_IRQ, which explicit maps have too. When no private slot is free it
  does not return NULL, for which the code has SDEI_ENOMEM, but an explicit map,
  and the assertion that "the returned mapping must be dynamic" (`sdei_main.c:747`)
  fails (`NeverStops` with one private slot, or with more interrupts than slots).
- `sdei_event_routing_set` (`sdei_main.c:326`) can reroute an event whose interrupt
  another PE has acknowledged, and `sdei_interrupt_release` (`sdei_main.c:814`) sees
  a private event of its own PE only; an assertion or a panic follows there
  (`NeverStops` with "routing" for two PEs, or "release" for a private event).
- `sdei_cpu_on_init` (`sdei_main.c:65`) clears private registrations and leaves
  `reg_count` (`OwnedWhileRegistered` with "power" for a private event).
- The entry point is read after the map is unlocked (`sdei_intr_mgmt.c:551`) and
  may have been cleared by then.

## 5. Proofs

All theorems are checked by TLAPS to the last leaf, with no unproved facts other
than the named assumptions on the constants.

| Module | Theorems | Assumptions |
|---|---|---|
| `BakeryLockProofs` | `MutualExclusionHolds`, `NonZeroTicketHolds`, `TypeOKHolds`, `BakeryImplementsMutex`, `FirstComeFirstServedHolds` | `BakeryAssumption`: 1 to 256 CPUs, a positive ticket bound |
| `PsciPowerProofs` (on `PsciPowerSteps`) | `NeverDeeperThanVotedHolds`, `ParentNotDeeperHolds`, `AwakeCpuIsPoweredHolds`, `RetentionKeepsPowerHolds`, `DomainsKeepPowerHolds`, `AssertionsHoldAlways`, `ContextIsFreshHolds`, `ChangesAreLockedHolds`, `TypeOKHolds` | `PlatformAssumption`, `TopologyAssumption` |
| `PsciAffinityProofs` | `PendingReachesTargetHolds`, `RetryIsEnoughHolds`, `OffIsSeenHolds` (if `pwr_domain_on` does not fail), `OffIsSeenUnlessFailedHolds`, `CoherentReadsSeeOffHolds`, `TypeOKHolds` | `PlatformAssumption`, `NoneAssumption` |
| `PsciLastCpuProofs` | `LastIsAlone`, `AllAreOn`, `AnswersHold`, `DeniedOnlyAfterTimeout` | `LastCpuAssumption`; all CPUs below one root (`Premise`), except for the last theorem |
| `PsciOsiProofs` | `RunningCpuVotesRunHolds`, `IdleDomainIsIdleHolds`, `GrantOnlyWhenLastHolds` | `OsiAssumption`; `OneLevel`; `SteadyMode` except for `IdleDomainIsIdleHolds`; `TruthfulCallers` for the last theorem |
| `PsciStatProofs` | `LastCpuKnownHolds`, `CountsEntriesHolds` | `StatAssumption` |
| `EhfProofs` | `NoLowerPriorityPreemptsHolds`, `NsMaskRestoredHolds`, `SecureNotPreemptedHolds` | `PrioritiesAssumption` |

**Bakery.** Mutual exclusion says nothing of CPUs that are still in the loop.
`IInv` adds what an entry holds at each place (`EntryOf`), that a CPU already
passed in the loop of `c` is behind `c` in the order of priorities
(`PassedAreBehind`), and that the ticket a waiter compares with is the one it
read (`Watched`). Two holders would each be behind the other. The bound that a
ticket fits its field is a guard of the specification the proofs are about;
section 4 says what happens without it. `FirstComeFirstServed` is about the
history variable `ahead` of `MCBakeryLock`, so its proof is about that module's
specification, which is `BakeryLock` with the history added: `AheadInv` says that
a CPU that was in line when `c` called stays in line, with `c` behind it, until it
releases the lock.

**PsciPower.** The invariant has a part for each mechanism. `LockInv`: which
domain locks a place implies; with the topology, two CPUs between lock and
unlock of the same domain exclude each other. `VoteInv`: what a CPU has voted for
at its place. `CoordinatedInv`: the states in `state_info` are not deeper than
any vote until they are written, because the votes cannot change meanwhile; this
is what makes `NeverDeeperThanVoted` inductive. `AffInv`, `SuspendInv`, `CpuOnInv`
and `ContextInv` relate affinity state, recorded level, the CPU_ON lock and the
context: a CPU is ON_PENDING exactly while it is off with a CPU_ON in flight or
on its way through the warm boot path. The steps are grouped into classes by
what they change (`PsciPowerSteps`), so that each part of the invariant is proved
once for each class.

`ParentNotDeeper` compares two levels, which the coordination computes one after
the other from the votes, and which different CPUs may have written. `OrderInv`
carries the order of the levels from the requests (`RequestInv`, what
`psci_validate_suspend_req` lets through) to the votes (`VoteOrderInv`) and says
that a domain is in a state some CPU below it voted for, except between a vote
and the write that follows it (`VotedForInv`, with `AttainedInv` for the states on
their way in `state_info`). The state of the inner domain is thus the vote of a
CPU below both; that CPU's vote for the outer one is no deeper, and neither is the
outer domain (`NeverDeeperThanVoted`).

**PsciAffinity.** `HolderInv` says what memory and line may be at each place of
the holder of the CPU_ON lock, `QuietInv` what they are when there is none,
`TargetInv` what the target has written. The invalidation of the target happens
once in each CPU_OFF, and after it no write of the others is lost; so a check
that finds OFF is made after the invalidation, and the retry survives. `OffInv`,
`RestInv` and `SeenInv` say that nobody has got as far as the update while a target
stays off, and that memory and a line once flushed then hold OFF. `failed` and `left` are
history variables of `MCPsciAffinity` (a `pwr_domain_on` has failed, the target
has left coherency), and the theorems that name them are about its
specification: `HistoryInv` gives what is lost only after a failure its
condition, `CoherentInv` says where OFF can be while the cluster stays coherent.

**PsciLastCpu.** A CPU that was read as OFF need not stay OFF: one that has not
been read yet may turn it on. `Prefix` says that in this case some CPU not yet
read is up or on its way up; it cannot go off before the caller releases the
lock of the root, so the answer will be no. `Control` says where the lock is
held, `StatesAgree` what others read of a CPU at each of its places, `Answer`
carries a positive answer to its end. `Calls` says that a CPU_ON under way is for
a CPU that is down and ON_PENDING, and that no two are for the same target.
`Leavers` says that a CPU which goes OFF during a scan for ON had released its
locks before the question, or is the target of a CPU_ON that failed. All of it needs
that the caller's root is everybody's root. `Timeout` says that the time spent and
the time left make up the timeout, with the state of the loop in which
`psci_stop_other_cores` gives up; it needs no root.

**PsciOsi.** The properties need each other. `VoteOk` says that a CPU which may
return to the normal world votes RUN, or remembers RUN as the vote to put back;
`LockInv` that the lock of a cluster is held exactly while a request for it is
decided. `IdleInv` says that a cluster with a running CPU is recorded as running,
and that a request which has been granted and will turn the cluster off
(`TurnsOff`) has no running CPU beside it: the votes are those of all CPUs, so a
target other than RUN shows that the others do not run, and none can come back
before the lock is released. `RequestOk` keeps the request between the steps.
The premises are where the code needs them (section 4 has the counterexamples):
`OneLevel`, because neither check climbs the tree and votes above the requested
level are not withdrawn; `SteadyMode`, because the standby path reads the mode
twice; `TruthfulCallers`, because with a platform that may refuse, votes are left
behind and only the last-CPU check remains, which looks at the level the caller
names. All platforms of the run `osi` satisfy them.

**PsciStat.** A count is taken on the way up, from what the way down left. The
invariant says that a domain runs exactly if one of its CPUs votes for it
(`StateInv`), that votes are ordered by level and follow the CPU (`VotesInv`),
that a cluster which sleeps without a last CPU has never run (`BootInv`), that
the system never sleeps without one (`SystemInv`), and that every other node that
sleeps has entered the state it is in (`SleepInv`). `BootInv` and `SystemInv`
together make the early return for a first power-up harmless unless a `CPU_ON`
was pending, which is the condition on `early`. One and two levels are covered.

**Ehf.** `Consistent` ties the per-PE data to the stack of delegations, which may
nest to any depth: priorities rise strictly towards the top, the active and the
running priorities are those of the frames, the stashed mask is that of the
normal world exactly while the oldest frame is a fast call, and the mask that the
last deactivation will restore is the one the oldest delegation started from.
What removes or replaces the top frame needs lemmas on the priorities of the
remaining frames (`PrisOf`), which hold without induction because the order is
stated for all pairs of positions.

### Only model-checked

- The liveness properties (`EveryContenderGetsTheLock`, and those of `PsciPower`,
  `PsciAffinity`, `PsciLastCpu`, `BaikalHold` and `Sdei`), which need fairness, and
  `NoDeadlock`, which contains ENABLED: out of reach of the proof system.
- The properties of `PsciTopology`: that the loops build the tree which the array
  describes is an induction over the array, which the provers cannot do.
- `BaikalHold`, `Tspd` and `Sdei`: their safety properties are checked on the
  instances above only: the first for callers whose copies of the reset register
  do not overlap, the others for the builds and clients named there.

## 6. Not modelled

`PROJECT.json` lists every part with the reason. In PSCI: residency times, which
are sums over the events `PsciStat` counts; MIGRATE, NODE_HW_STATE,
PSCI_FEATURES, memory protection and system off, which keep no state in the
library. The bakery lock in normal memory is the same algorithm with cache
maintenance around each access; a model would carry the cache lines of
`PsciAffinity` for every entry of every CPU, which is out of reach of TLC with
three CPUs. Of SDEI: queries, resets, event 0, register contexts. Of the TSPD:
start-up. Of the Baikal ports: system off, reset and suspend.

Other services: the EL3 SPMC (its memory sharing is a sequence of checks on
descriptors byte by byte), SPMD and RMMD (world switches of one CPU around
register images), the other payload dispatchers (the shape of the TSPD), TRNG,
granule protection and translation tables (arithmetic on addresses under one
lock). Boot loaders run on one CPU and load images in sequence; drivers, boards,
image parsing and cryptography are input and output or computation on bytes.
