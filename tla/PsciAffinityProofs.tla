------------------------- MODULE PsciAffinityProofs -------------------------
(***************************************************************************)
(* Proofs about PsciAffinity, for any number of CPUs.                      *)
(*                                                                         *)
(* The inductive invariant says what memory and the cache hold at each     *)
(* point of the target and of the CPU that holds the CPU_ON lock.  The     *)
(* crux: only the invalidation of the target can drop a dirty line, it     *)
(* does so once, and it takes the target to wfi; so a CPU that finds its   *)
(* update lost finds the target in wfi, where the retry cannot be lost.    *)
(***************************************************************************)
EXTENDS MCPsciAffinity, TLAPS

\* Memory and the cache agree on v.
Synced(v) == ~dirty /\ mem = v /\ line \in {None, v}

\* v was stored over old through the cache; the line may have been evicted.
Stored(v, old) == \/ dirty /\ line = v /\ mem = old
                  \/ Synced(v)

Down == tpc \in {"off_inv", "wfi"}

Writing == {"pending_flush", "retry_flush", "restore_flush"}

OnPlaces == {"on_flush", "on_read", "on_validate", "pending", "pending_flush",
             "check", "retry", "retry_flush", "recheck", "plat",
             "restore_flush", "restored", "unlock"}

LockInv == \A c \in Cpus : pc[c] \in OnPlaces <=> cpu_lock = c

TargetInv ==
    /\ tpc \notin {"panic", "assert"}
    /\ tpc \in {"on", "off_flush", "off_set"} => Synced("ON")
    /\ tpc \in {"reset", "on_finish", "run"} => Synced("ON_PENDING")
    /\ tpc = "run_flush" => Stored("ON", "ON_PENDING")
    /\ power_on => Down /\ Synced("ON_PENDING")

\* Nobody is between a store and the flush after it: the line is clean, and it
\* is out of date only with the state that CPU_OFF has overwritten in memory.
QuietInv ==
    Down /\ (\A c \in Cpus : pc[c] \notin Writing) =>
        /\ ~dirty
        /\ mem \in {"OFF", "ON_PENDING"}
        /\ line \in {None, mem} \/ (line = "ON" /\ mem = "OFF")

HolderInv ==
    \A c \in Cpus :
        /\ pc[c] # "assert"
        /\ pc[c] = "pending" \/ (pc[c] = "on_validate" /\ seen[c] = "OFF") =>
             Down /\ ~power_on /\ Synced("OFF")
        /\ pc[c] = "pending_flush" =>
             /\ Down /\ ~power_on
             /\ Stored("ON_PENDING", "OFF") \/ (tpc = "wfi" /\ Synced("OFF"))
        /\ pc[c] = "check" =>
             /\ Down /\ ~power_on
             /\ Synced("ON_PENDING") \/ (tpc = "wfi" /\ Synced("OFF"))
        /\ pc[c] = "retry" => tpc = "wfi" /\ ~power_on /\ Synced("OFF")
        /\ pc[c] = "retry_flush" =>
             tpc = "wfi" /\ ~power_on /\ Stored("ON_PENDING", "OFF")
        /\ pc[c] = "recheck" => tpc = "wfi" /\ ~power_on /\ Synced("ON_PENDING")
        /\ pc[c] = "plat" => Down /\ ~power_on /\ Synced("ON_PENDING")
        /\ pc[c] = "restore_flush" =>
             /\ Down /\ ~power_on
             /\ Stored("OFF", "ON_PENDING") \/ (tpc = "wfi" /\ Synced("ON_PENDING"))

LineInv == dirty => line # None

\* ON_PENDING stays in memory only until the target starts.
RestInv ==
    power_on \/ ~Down \/ mem = "OFF"
      \/ \E c \in Cpus : pc[c] \in {"pending_flush", "check", "plat", "retry_flush",
                                    "recheck"}

IInv == TypeOK /\ LineInv /\ LockInv /\ TargetInv /\ QuietInv /\ HolderInv

\* A call that began when the target was off and nobody turned it on: nobody
\* has got as far as the update since.
OffInv ==
    \A c \in Cpus : was_off[c] =>
        /\ tpc = "wfi" /\ ~power_on
        /\ \A d \in Cpus : pc[d] \notin Writing \cup {"check", "retry", "recheck",
                                                      "plat", "restored"}

\* While the target stays off, a line that was flushed does not become stale.
SeenInv ==
    \A c \in Cpus : was_off[c] =>
        /\ mem = "OFF" /\ ~dirty
        /\ pc[c] \in {"on_read", "on_validate", "info_read", "info_done"} =>
              line \in {None, "OFF"}
        /\ pc[c] \in {"on_validate", "info_done"} => seen[c] = "OFF"

\* What is known of a target that is off, unless a pwr_domain_on failed.
HistoryInv == OffInv /\ (~failed => RestInv /\ SeenInv)

\* The invalidation of a target in coherency leaves no line behind that holds
\* the state from before its CPU_OFF, so that plain reads see OFF as well.
CoherentInv ==
    ~left => /\ tpc = "wfi" => line # "ON"
             /\ ~failed => LaterReadsSeeOff

-----------------------------------------------------------------------------
(* Every step of the memory system, of the target and of the other CPUs    *)
(* keeps the types.                                                        *)
LEMMA TypeStep ==
    ASSUME IInv, Next PROVE TypeOK' /\ LineInv'
<1> USE NoneAssumption DEF IInv, TypeOK, LineInv, Places, TargetPlaces, AFF_STATES, None
<1>1. CASE Evict BY <1>1, Zenon DEF Evict, flush_dcache_range
<1>2. CASE Speculate BY <1>2 DEF Speculate, Load, Cached
<1>3. CASE psci_do_cpu_off BY <1>3, Zenon DEF psci_do_cpu_off, Target
<1>4. CASE psci_flush_cpu_data BY <1>4, Zenon DEF psci_flush_cpu_data, Target,
   flush_dcache_range
<1>5. CASE psci_set_aff_info_state BY <1>5 DEF psci_set_aff_info_state, Target
<1>6. CASE psci_inv_cpu_data BY <1>6, Zenon DEF psci_inv_cpu_data, Target
<1>7. CASE WarmReset BY <1>7, Zenon DEF WarmReset
<1>8. CASE psci_warmboot_entrypoint BY <1>8 DEF psci_warmboot_entrypoint, Target
<1>9. CASE psci_cpu_on_finish BY <1>9 DEF psci_cpu_on_finish, Target, Load, Cached
<1>10. CASE psci_set_pwr_domains_to_run BY <1>10 DEF psci_set_pwr_domains_to_run,
   Target, Store
<1>11. CASE RunFlush BY <1>11, Zenon DEF RunFlush, Target, flush_dcache_range
<1>12. ASSUME NEW c \in Cpus, Call(c) \/ CpuNext(c) PROVE TypeOK' /\ LineInv'
    <2>1. CASE psci_spin_lock_cpu(c) BY <2>1 DEF psci_spin_lock_cpu, Step, Begin
    <2>2. CASE psci_affinity_info(c) BY <2>2, Zenon DEF psci_affinity_info, Step,
       Begin, flush_dcache_range
    <2>3. CASE psci_is_last_on_cpu(c) BY <2>3 DEF psci_is_last_on_cpu, Step, Begin,
       Load, Cached
    <2>4. CASE OnFlush(c) BY <2>4, Zenon DEF OnFlush, Step, flush_dcache_range
    <2>5. CASE OnRead(c) BY <2>5 DEF OnRead, Step, Load, Cached
    <2>6. CASE cpu_on_validate_state(c) BY <2>6 DEF cpu_on_validate_state, Step
    <2>7. CASE SetPending(c) BY <2>7 DEF SetPending, Step, Store
    <2>8. CASE PendingFlush(c) BY <2>8, Zenon DEF PendingFlush, Step,
       flush_dcache_range
    <2>9. CASE CheckPending(c) BY <2>9 DEF CheckPending, Step, Load, Cached
    <2>10. CASE RetryPending(c) BY <2>10 DEF RetryPending, Step, Store
    <2>11. CASE RetryFlush(c) BY <2>11, Zenon DEF RetryFlush, Step,
       flush_dcache_range
    <2>12. CASE RecheckPending(c) BY <2>12 DEF RecheckPending, Step, Load, Cached
    <2>13. CASE pwr_domain_on(c) BY <2>13 DEF pwr_domain_on, Step
    <2>14. CASE pwr_domain_on_fails(c) BY <2>14 DEF pwr_domain_on_fails, Step, Store
    <2>15. CASE RestoreFlush(c) BY <2>15, Zenon DEF RestoreFlush, Step,
       flush_dcache_range
    <2>16. CASE psci_spin_unlock_cpu(c) BY <2>16 DEF psci_spin_unlock_cpu, Step
    <2>17. CASE InfoRead(c) BY <2>17 DEF InfoRead, Step, Load, Cached
    <2>18. CASE Return(c) BY <2>18 DEF Return, Step
    <2> QED BY <1>12, <2>1, <2>2, <2>3, <2>4, <2>5, <2>6, <2>7, <2>8, <2>9, <2>10,
       <2>11, <2>12, <2>13, <2>14, <2>15, <2>16, <2>17, <2>18, Zenon DEF Call,
       CpuNext
<1> QED BY <1>1, <1>2, <1>3, <1>4, <1>5, <1>6, <1>7, <1>8, <1>9, <1>10, <1>11, <1>12,
   Zenon DEF Next, TargetNext

(* The CPU_ON lock of the target is held by the one CPU that is between    *)
(* psci_spin_lock_cpu and psci_spin_unlock_cpu.                            *)
LEMMA LockStep ==
    ASSUME IInv, Next PROVE LockInv'
<1> USE NoneAssumption DEF IInv, TypeOK, LockInv, HolderInv, Synced, OnPlaces, None
<1>1. CASE Evict BY <1>1 DEF Evict, flush_dcache_range
<1>2. CASE Speculate BY <1>2 DEF Speculate, Load, Cached
<1>3. CASE psci_do_cpu_off BY <1>3 DEF psci_do_cpu_off, Target
<1>4. CASE psci_flush_cpu_data BY <1>4 DEF psci_flush_cpu_data, Target,
   flush_dcache_range
<1>5. CASE psci_set_aff_info_state BY <1>5 DEF psci_set_aff_info_state, Target
<1>6. CASE psci_inv_cpu_data BY <1>6 DEF psci_inv_cpu_data, Target
<1>7. CASE WarmReset BY <1>7 DEF WarmReset
<1>8. CASE psci_warmboot_entrypoint BY <1>8 DEF psci_warmboot_entrypoint, Target
<1>9. CASE psci_cpu_on_finish BY <1>9 DEF psci_cpu_on_finish, Target, Load, Cached
<1>10. CASE psci_set_pwr_domains_to_run BY <1>10 DEF psci_set_pwr_domains_to_run,
   Target, Store
<1>11. CASE RunFlush BY <1>11 DEF RunFlush, Target, flush_dcache_range
<1>12. ASSUME NEW c \in Cpus, Call(c) \/ CpuNext(c) PROVE LockInv'
    <2>1. CASE psci_spin_lock_cpu(c) BY <2>1 DEF psci_spin_lock_cpu, Step, Begin
    <2>2. CASE psci_affinity_info(c) BY <2>2 DEF psci_affinity_info, Step, Begin,
       flush_dcache_range
    <2>3. CASE psci_is_last_on_cpu(c) BY <2>3 DEF psci_is_last_on_cpu, Step, Begin,
       Load, Cached
    <2>4. CASE OnFlush(c) BY <2>4 DEF OnFlush, Step, flush_dcache_range
    <2>5. CASE OnRead(c) BY <2>5 DEF OnRead, Step, Load, Cached
    <2>6. CASE cpu_on_validate_state(c) BY <2>6 DEF cpu_on_validate_state, Step
    <2>7. CASE SetPending(c) BY <2>7 DEF SetPending, Step, Store
    <2>8. CASE PendingFlush(c) BY <2>8 DEF PendingFlush, Step, flush_dcache_range
    <2>9. CASE CheckPending(c) BY <2>9 DEF CheckPending, Step, Load, Cached
    <2>10. CASE RetryPending(c) BY <2>10 DEF RetryPending, Step, Store
    <2>11. CASE RetryFlush(c) BY <2>11 DEF RetryFlush, Step, flush_dcache_range
    <2>12. CASE RecheckPending(c) BY <2>12 DEF RecheckPending, Step, Load, Cached
    <2>13. CASE pwr_domain_on(c) BY <2>13 DEF pwr_domain_on, Step
    <2>14. CASE pwr_domain_on_fails(c) BY <2>14 DEF pwr_domain_on_fails, Step, Store
    <2>15. CASE RestoreFlush(c) BY <2>15 DEF RestoreFlush, Step, flush_dcache_range
    <2>16. CASE psci_spin_unlock_cpu(c) BY <2>16 DEF psci_spin_unlock_cpu, Step
    <2>17. CASE InfoRead(c) BY <2>17 DEF InfoRead, Step, Load, Cached
    <2>18. CASE Return(c) BY <2>18 DEF Return, Step
    <2> QED BY <1>12, <2>1, <2>2, <2>3, <2>4, <2>5, <2>6, <2>7, <2>8, <2>9, <2>10,
       <2>11, <2>12, <2>13, <2>14, <2>15, <2>16, <2>17, <2>18, Zenon DEF Call,
       CpuNext
<1> QED BY <1>1, <1>2, <1>3, <1>4, <1>5, <1>6, <1>7, <1>8, <1>9, <1>10, <1>11, <1>12,
   Zenon DEF Next, TargetNext

(* What the target relies on: ON before it is off, and ON_PENDING from the *)
(* reset to the end of the warm boot path.                                 *)
LEMMA TargetStep ==
    ASSUME IInv, Next PROVE TargetInv'
<1> USE NoneAssumption DEF IInv, TypeOK, LockInv, TargetInv, QuietInv, HolderInv,
   OnPlaces, Synced, Stored, Down, Writing, AFF_STATES, None
<1>1. CASE Evict BY <1>1 DEF Evict, flush_dcache_range
<1>2. CASE Speculate BY <1>2 DEF Speculate, Load, Cached
<1>3. CASE psci_do_cpu_off BY <1>3 DEF psci_do_cpu_off, Target
<1>4. CASE psci_flush_cpu_data BY <1>4 DEF psci_flush_cpu_data, Target,
   flush_dcache_range
<1>5. CASE psci_set_aff_info_state BY <1>5 DEF psci_set_aff_info_state, Target
<1>6. CASE psci_inv_cpu_data BY <1>6 DEF psci_inv_cpu_data, Target
<1>7. CASE WarmReset BY <1>7 DEF WarmReset
<1>8. CASE psci_warmboot_entrypoint BY <1>8 DEF psci_warmboot_entrypoint, Target
<1>9. CASE psci_cpu_on_finish BY <1>9 DEF psci_cpu_on_finish, Target, Load, Cached
<1>10. CASE psci_set_pwr_domains_to_run BY <1>10 DEF psci_set_pwr_domains_to_run,
   Target, Store
<1>11. CASE RunFlush BY <1>11 DEF RunFlush, Target, flush_dcache_range
<1>12. ASSUME NEW c \in Cpus, Call(c) \/ CpuNext(c) PROVE TargetInv'
    <2>1. CASE psci_spin_lock_cpu(c) BY <2>1 DEF psci_spin_lock_cpu, Step, Begin
    <2>2. CASE psci_affinity_info(c) BY <2>2 DEF psci_affinity_info, Step, Begin,
       flush_dcache_range
    <2>3. CASE psci_is_last_on_cpu(c) BY <2>3 DEF psci_is_last_on_cpu, Step, Begin,
       Load, Cached
    <2>4. CASE OnFlush(c) BY <2>4 DEF OnFlush, Step, flush_dcache_range
    <2>5. CASE OnRead(c) BY <2>5 DEF OnRead, Step, Load, Cached
    <2>6. CASE cpu_on_validate_state(c) BY <2>6 DEF cpu_on_validate_state, Step
    <2>7. CASE SetPending(c) BY <2>7 DEF SetPending, Step, Store
    <2>8. CASE PendingFlush(c) BY <2>8 DEF PendingFlush, Step, flush_dcache_range
    <2>9. CASE CheckPending(c) BY <2>9 DEF CheckPending, Step, Load, Cached
    <2>10. CASE RetryPending(c) BY <2>10 DEF RetryPending, Step, Store
    <2>11. CASE RetryFlush(c) BY <2>11 DEF RetryFlush, Step, flush_dcache_range
    <2>12. CASE RecheckPending(c) BY <2>12 DEF RecheckPending, Step, Load, Cached
    <2>13. CASE pwr_domain_on(c) BY <2>13 DEF pwr_domain_on, Step
    <2>14. CASE pwr_domain_on_fails(c) BY <2>14 DEF pwr_domain_on_fails, Step, Store
    <2>15. CASE RestoreFlush(c) BY <2>15 DEF RestoreFlush, Step, flush_dcache_range
    <2>16. CASE psci_spin_unlock_cpu(c) BY <2>16 DEF psci_spin_unlock_cpu, Step
    <2>17. CASE InfoRead(c) BY <2>17 DEF InfoRead, Step, Load, Cached
    <2>18. CASE Return(c) BY <2>18 DEF Return, Step
    <2> QED BY <1>12, <2>1, <2>2, <2>3, <2>4, <2>5, <2>6, <2>7, <2>8, <2>9, <2>10,
       <2>11, <2>12, <2>13, <2>14, <2>15, <2>16, <2>17, <2>18, Zenon DEF Call,
       CpuNext
<1> QED BY <1>1, <1>2, <1>3, <1>4, <1>5, <1>6, <1>7, <1>8, <1>9, <1>10, <1>11, <1>12,
   Zenon DEF Next, TargetNext

(* Outside the windows between a store and its flush, the line is clean.   *)
LEMMA QuietStep ==
    ASSUME IInv, Next PROVE QuietInv'
<1> USE NoneAssumption DEF IInv, TypeOK, LockInv, TargetInv, QuietInv, HolderInv,
   OnPlaces, Synced, Stored, Down, Writing, AFF_STATES, None
<1>1. CASE Evict BY <1>1 DEF Evict, flush_dcache_range
<1>2. CASE Speculate BY <1>2 DEF Speculate, Load, Cached
<1>3. CASE psci_do_cpu_off BY <1>3 DEF psci_do_cpu_off, Target
<1>4. CASE psci_flush_cpu_data BY <1>4 DEF psci_flush_cpu_data, Target,
   flush_dcache_range
<1>5. CASE psci_set_aff_info_state BY <1>5 DEF psci_set_aff_info_state, Target
<1>6. CASE psci_inv_cpu_data BY <1>6 DEF psci_inv_cpu_data, Target
<1>7. CASE WarmReset BY <1>7 DEF WarmReset
<1>8. CASE psci_warmboot_entrypoint BY <1>8 DEF psci_warmboot_entrypoint, Target
<1>9. CASE psci_cpu_on_finish BY <1>9 DEF psci_cpu_on_finish, Target, Load, Cached
<1>10. CASE psci_set_pwr_domains_to_run BY <1>10 DEF psci_set_pwr_domains_to_run,
   Target, Store
<1>11. CASE RunFlush BY <1>11 DEF RunFlush, Target, flush_dcache_range
<1>12. ASSUME NEW c \in Cpus, Call(c) \/ CpuNext(c) PROVE QuietInv'
    <2>1. CASE psci_spin_lock_cpu(c) BY <2>1 DEF psci_spin_lock_cpu, Step, Begin
    <2>2. CASE psci_affinity_info(c) BY <2>2 DEF psci_affinity_info, Step, Begin,
       flush_dcache_range
    <2>3. CASE psci_is_last_on_cpu(c) BY <2>3 DEF psci_is_last_on_cpu, Step, Begin,
       Load, Cached
    <2>4. CASE OnFlush(c) BY <2>4 DEF OnFlush, Step, flush_dcache_range
    <2>5. CASE OnRead(c) BY <2>5 DEF OnRead, Step, Load, Cached
    <2>6. CASE cpu_on_validate_state(c) BY <2>6 DEF cpu_on_validate_state, Step
    <2>7. CASE SetPending(c) BY <2>7 DEF SetPending, Step, Store
    <2>8. CASE PendingFlush(c) BY <2>8 DEF PendingFlush, Step, flush_dcache_range
    <2>9. CASE CheckPending(c) BY <2>9 DEF CheckPending, Step, Load, Cached
    <2>10. CASE RetryPending(c) BY <2>10 DEF RetryPending, Step, Store
    <2>11. CASE RetryFlush(c) BY <2>11 DEF RetryFlush, Step, flush_dcache_range
    <2>12. CASE RecheckPending(c) BY <2>12 DEF RecheckPending, Step, Load, Cached
    <2>13. CASE pwr_domain_on(c) BY <2>13 DEF pwr_domain_on, Step
    <2>14. CASE pwr_domain_on_fails(c) BY <2>14 DEF pwr_domain_on_fails, Step, Store
    <2>15. CASE RestoreFlush(c) BY <2>15 DEF RestoreFlush, Step, flush_dcache_range
    <2>16. CASE psci_spin_unlock_cpu(c) BY <2>16 DEF psci_spin_unlock_cpu, Step
    <2>17. CASE InfoRead(c) BY <2>17 DEF InfoRead, Step, Load, Cached
    <2>18. CASE Return(c) BY <2>18 DEF Return, Step
    <2> QED BY <1>12, <2>1, <2>2, <2>3, <2>4, <2>5, <2>6, <2>7, <2>8, <2>9, <2>10,
       <2>11, <2>12, <2>13, <2>14, <2>15, <2>16, <2>17, <2>18, Zenon DEF Call,
       CpuNext
<1> QED BY <1>1, <1>2, <1>3, <1>4, <1>5, <1>6, <1>7, <1>8, <1>9, <1>10, <1>11, <1>12,
   Zenon DEF Next, TargetNext

(* What the holder of the CPU_ON lock relies on at each of its places; an  *)
(* update it lost was dropped by the target, which is in wfi by then.      *)
LEMMA HolderStep ==
    ASSUME IInv, Next PROVE HolderInv'
<1> USE NoneAssumption DEF IInv, TypeOK, LockInv, TargetInv, QuietInv, HolderInv,
   OnPlaces, Synced, Stored, Down, Writing, AFF_STATES, None
<1>1. CASE Evict BY <1>1 DEF Evict, flush_dcache_range
<1>2. CASE Speculate BY <1>2 DEF Speculate, Load, Cached
<1>3. CASE psci_do_cpu_off BY <1>3 DEF psci_do_cpu_off, Target
<1>4. CASE psci_flush_cpu_data BY <1>4 DEF psci_flush_cpu_data, Target,
   flush_dcache_range
<1>5. CASE psci_set_aff_info_state BY <1>5 DEF psci_set_aff_info_state, Target
<1>6. CASE psci_inv_cpu_data BY <1>6 DEF psci_inv_cpu_data, Target
<1>7. CASE WarmReset BY <1>7 DEF WarmReset
<1>8. CASE psci_warmboot_entrypoint BY <1>8 DEF psci_warmboot_entrypoint, Target
<1>9. CASE psci_cpu_on_finish BY <1>9 DEF psci_cpu_on_finish, Target, Load, Cached
<1>10. CASE psci_set_pwr_domains_to_run BY <1>10 DEF psci_set_pwr_domains_to_run,
   Target, Store
<1>11. CASE RunFlush BY <1>11 DEF RunFlush, Target, flush_dcache_range
<1>12. ASSUME NEW c \in Cpus, Call(c) \/ CpuNext(c) PROVE HolderInv'
    <2>1. CASE psci_spin_lock_cpu(c) BY <2>1 DEF psci_spin_lock_cpu, Step, Begin
    <2>2. CASE psci_affinity_info(c) BY <2>2 DEF psci_affinity_info, Step, Begin,
       flush_dcache_range
    <2>3. CASE psci_is_last_on_cpu(c) BY <2>3 DEF psci_is_last_on_cpu, Step, Begin,
       Load, Cached
    <2>4. CASE OnFlush(c) BY <2>4 DEF OnFlush, Step, flush_dcache_range
    <2>5. CASE OnRead(c)
        <3>1. cpu_lock = c /\ \A d \in Cpus : pc[d] \notin Writing
            BY <2>5, Zenon DEF OnRead, Step
        <3>2. Cached = "OFF" => Down /\ ~power_on /\ ~dirty /\ mem = "OFF"
            BY <3>1 DEF Cached, TargetPlaces
        <3>3. /\ line' = Cached /\ dirty' = dirty /\ mem' = mem /\ seen'[c] = Cached
              /\ power_on' = power_on /\ tpc' = tpc /\ cpu_lock' = cpu_lock
              /\ pc'[c] = "on_validate"
            BY <2>5 DEF OnRead, Step, Load
        <3>4. \A d \in Cpus : d # c => pc'[d] \notin OnPlaces
            BY TypeStep, LockStep, <3>1, <3>3
        <3>5. \A d \in Cpus : pc'[d] # "assert"
            BY <2>5 DEF OnRead, Step
        <3> QED BY <3>2, <3>3, <3>4, <3>5
    <2>6. CASE cpu_on_validate_state(c) BY <2>6 DEF cpu_on_validate_state, Step
    <2>7. CASE SetPending(c) BY <2>7 DEF SetPending, Step, Store
    <2>8. CASE PendingFlush(c) BY <2>8 DEF PendingFlush, Step, flush_dcache_range
    <2>9. CASE CheckPending(c) BY <2>9 DEF CheckPending, Step, Load, Cached
    <2>10. CASE RetryPending(c) BY <2>10 DEF RetryPending, Step, Store
    <2>11. CASE RetryFlush(c) BY <2>11 DEF RetryFlush, Step, flush_dcache_range
    <2>12. CASE RecheckPending(c) BY <2>12 DEF RecheckPending, Step, Load, Cached
    <2>13. CASE pwr_domain_on(c) BY <2>13 DEF pwr_domain_on, Step
    <2>14. CASE pwr_domain_on_fails(c) BY <2>14 DEF pwr_domain_on_fails, Step, Store
    <2>15. CASE RestoreFlush(c) BY <2>15 DEF RestoreFlush, Step, flush_dcache_range
    <2>16. CASE psci_spin_unlock_cpu(c) BY <2>16 DEF psci_spin_unlock_cpu, Step
    <2>17. CASE InfoRead(c) BY <2>17 DEF InfoRead, Step, Load, Cached
    <2>18. CASE Return(c) BY <2>18 DEF Return, Step
    <2> QED BY <1>12, <2>1, <2>2, <2>3, <2>4, <2>5, <2>6, <2>7, <2>8, <2>9, <2>10,
       <2>11, <2>12, <2>13, <2>14, <2>15, <2>16, <2>17, <2>18, Zenon DEF Call,
       CpuNext
<1> QED BY <1>1, <1>2, <1>3, <1>4, <1>5, <1>6, <1>7, <1>8, <1>9, <1>10, <1>11, <1>12,
   Zenon DEF Next, TargetNext

(* Unless pwr_domain_on fails, ON_PENDING does not outlive the CPU_ON call *)
(* and the start of the target.                                            *)
LEMMA RestStep ==
    ASSUME IInv, RestInv, Next, \A c \in Cpus : ~pwr_domain_on_fails(c)
    PROVE  RestInv'
<1> USE NoneAssumption DEF IInv, TypeOK, LockInv, TargetInv, QuietInv, HolderInv,
   OnPlaces, Synced, Stored, Down, Writing, AFF_STATES, None, RestInv
<1>1. CASE Evict BY <1>1 DEF Evict, flush_dcache_range
<1>2. CASE Speculate BY <1>2 DEF Speculate, Load, Cached
<1>3. CASE psci_do_cpu_off BY <1>3 DEF psci_do_cpu_off, Target
<1>4. CASE psci_flush_cpu_data BY <1>4 DEF psci_flush_cpu_data, Target,
   flush_dcache_range
<1>5. CASE psci_set_aff_info_state BY <1>5 DEF psci_set_aff_info_state, Target
<1>6. CASE psci_inv_cpu_data BY <1>6 DEF psci_inv_cpu_data, Target
<1>7. CASE WarmReset BY <1>7 DEF WarmReset
<1>8. CASE psci_warmboot_entrypoint BY <1>8 DEF psci_warmboot_entrypoint, Target
<1>9. CASE psci_cpu_on_finish BY <1>9 DEF psci_cpu_on_finish, Target, Load, Cached
<1>10. CASE psci_set_pwr_domains_to_run BY <1>10 DEF psci_set_pwr_domains_to_run,
   Target, Store
<1>11. CASE RunFlush BY <1>11 DEF RunFlush, Target, flush_dcache_range
<1>12. ASSUME NEW c \in Cpus, Call(c) \/ CpuNext(c) PROVE RestInv'
    <2>1. CASE psci_spin_lock_cpu(c) BY <2>1 DEF psci_spin_lock_cpu, Step, Begin
    <2>2. CASE psci_affinity_info(c) BY <2>2 DEF psci_affinity_info, Step, Begin,
       flush_dcache_range
    <2>3. CASE psci_is_last_on_cpu(c) BY <2>3 DEF psci_is_last_on_cpu, Step, Begin,
       Load, Cached
    <2>4. CASE OnFlush(c) BY <2>4 DEF OnFlush, Step, flush_dcache_range
    <2>5. CASE OnRead(c) BY <2>5 DEF OnRead, Step, Load, Cached
    <2>6. CASE cpu_on_validate_state(c) BY <2>6 DEF cpu_on_validate_state, Step
    <2>7. CASE SetPending(c) BY <2>7 DEF SetPending, Step, Store
    <2>8. CASE PendingFlush(c) BY <2>8 DEF PendingFlush, Step, flush_dcache_range
    <2>9. CASE CheckPending(c) BY <2>9 DEF CheckPending, Step, Load, Cached
    <2>10. CASE RetryPending(c) BY <2>10 DEF RetryPending, Step, Store
    <2>11. CASE RetryFlush(c) BY <2>11 DEF RetryFlush, Step, flush_dcache_range
    <2>12. CASE RecheckPending(c) BY <2>12 DEF RecheckPending, Step, Load, Cached
    <2>13. CASE pwr_domain_on(c) BY <2>13 DEF pwr_domain_on, Step
    <2>15. CASE RestoreFlush(c) BY <2>15 DEF RestoreFlush, Step, flush_dcache_range
    <2>16. CASE psci_spin_unlock_cpu(c) BY <2>16 DEF psci_spin_unlock_cpu, Step
    <2>17. CASE InfoRead(c) BY <2>17 DEF InfoRead, Step, Load, Cached
    <2>18. CASE Return(c) BY <2>18 DEF Return, Step
    <2> QED BY <1>12, <2>1, <2>2, <2>3, <2>4, <2>5, <2>6, <2>7, <2>8, <2>9, <2>10,
       <2>11, <2>12, <2>13, <2>15, <2>16, <2>17, <2>18, Zenon DEF Call,
       CpuNext
<1> QED BY <1>1, <1>2, <1>3, <1>4, <1>5, <1>6, <1>7, <1>8, <1>9, <1>10, <1>11, <1>12,
   Zenon DEF Next, TargetNext

(* A target that was off when a call began, and that nobody has marked     *)
(* ON_PENDING since, is still in wfi with its power off.                   *)
LEMMA OffStep ==
    ASSUME IInv, OffInv, Next PROVE OffInv'
<1> USE NoneAssumption DEF IInv, TypeOK, LockInv, HolderInv, OnPlaces, Writing, None, OffInv
<1>1. CASE Evict BY <1>1 DEF Evict, flush_dcache_range
<1>2. CASE Speculate BY <1>2 DEF Speculate, Load, Cached
<1>3. CASE psci_do_cpu_off BY <1>3 DEF psci_do_cpu_off, Target
<1>4. CASE psci_flush_cpu_data BY <1>4 DEF psci_flush_cpu_data, Target,
   flush_dcache_range
<1>5. CASE psci_set_aff_info_state BY <1>5 DEF psci_set_aff_info_state, Target
<1>6. CASE psci_inv_cpu_data BY <1>6 DEF psci_inv_cpu_data, Target
<1>7. CASE WarmReset BY <1>7 DEF WarmReset
<1>8. CASE psci_warmboot_entrypoint BY <1>8 DEF psci_warmboot_entrypoint, Target
<1>9. CASE psci_cpu_on_finish BY <1>9 DEF psci_cpu_on_finish, Target, Load, Cached
<1>10. CASE psci_set_pwr_domains_to_run BY <1>10 DEF psci_set_pwr_domains_to_run,
   Target, Store
<1>11. CASE RunFlush BY <1>11 DEF RunFlush, Target, flush_dcache_range
<1>12. ASSUME NEW c \in Cpus, Call(c) \/ CpuNext(c) PROVE OffInv'
    <2>1. CASE psci_spin_lock_cpu(c) BY <2>1 DEF psci_spin_lock_cpu, Step, Begin
    <2>2. CASE psci_affinity_info(c) BY <2>2 DEF psci_affinity_info, Step, Begin,
       flush_dcache_range
    <2>3. CASE psci_is_last_on_cpu(c) BY <2>3 DEF psci_is_last_on_cpu, Step, Begin,
       Load, Cached
    <2>4. CASE OnFlush(c) BY <2>4 DEF OnFlush, Step, flush_dcache_range
    <2>5. CASE OnRead(c) BY <2>5 DEF OnRead, Step, Load, Cached
    <2>6. CASE cpu_on_validate_state(c) BY <2>6 DEF cpu_on_validate_state, Step
    <2>7. CASE SetPending(c) BY <2>7 DEF SetPending, Step, Store
    <2>8. CASE PendingFlush(c) BY <2>8 DEF PendingFlush, Step, flush_dcache_range
    <2>9. CASE CheckPending(c) BY <2>9 DEF CheckPending, Step, Load, Cached
    <2>10. CASE RetryPending(c) BY <2>10 DEF RetryPending, Step, Store
    <2>11. CASE RetryFlush(c) BY <2>11 DEF RetryFlush, Step, flush_dcache_range
    <2>12. CASE RecheckPending(c) BY <2>12 DEF RecheckPending, Step, Load, Cached
    <2>13. CASE pwr_domain_on(c) BY <2>13 DEF pwr_domain_on, Step
    <2>14. CASE pwr_domain_on_fails(c) BY <2>14 DEF pwr_domain_on_fails, Step, Store
    <2>15. CASE RestoreFlush(c) BY <2>15 DEF RestoreFlush, Step, flush_dcache_range
    <2>16. CASE psci_spin_unlock_cpu(c) BY <2>16 DEF psci_spin_unlock_cpu, Step
    <2>17. CASE InfoRead(c) BY <2>17 DEF InfoRead, Step, Load, Cached
    <2>18. CASE Return(c) BY <2>18 DEF Return, Step
    <2> QED BY <1>12, <2>1, <2>2, <2>3, <2>4, <2>5, <2>6, <2>7, <2>8, <2>9, <2>10,
       <2>11, <2>12, <2>13, <2>14, <2>15, <2>16, <2>17, <2>18, Zenon DEF Call,
       CpuNext
<1> QED BY <1>1, <1>2, <1>3, <1>4, <1>5, <1>6, <1>7, <1>8, <1>9, <1>10, <1>11, <1>12,
   Zenon DEF Next, TargetNext

(* While the target stays off CPU_ON and AFFINITY_INFO keep seeing OFF.    *)
LEMMA SeenStep ==
    ASSUME IInv, RestInv, OffInv, SeenInv, Next PROVE SeenInv'
<1> USE NoneAssumption DEF IInv, TypeOK, LockInv, TargetInv, QuietInv, HolderInv,
   OnPlaces, Synced, Stored, Down, Writing, AFF_STATES, None, RestInv, OffInv, SeenInv
<1>1. CASE Evict BY <1>1 DEF Evict, flush_dcache_range
<1>2. CASE Speculate BY <1>2 DEF Speculate, Load, Cached
<1>3. CASE psci_do_cpu_off BY <1>3 DEF psci_do_cpu_off, Target
<1>4. CASE psci_flush_cpu_data BY <1>4 DEF psci_flush_cpu_data, Target,
   flush_dcache_range
<1>5. CASE psci_set_aff_info_state BY <1>5 DEF psci_set_aff_info_state, Target
<1>6. CASE psci_inv_cpu_data BY <1>6 DEF psci_inv_cpu_data, Target
<1>7. CASE WarmReset BY <1>7 DEF WarmReset
<1>8. CASE psci_warmboot_entrypoint BY <1>8 DEF psci_warmboot_entrypoint, Target
<1>9. CASE psci_cpu_on_finish BY <1>9 DEF psci_cpu_on_finish, Target, Load, Cached
<1>10. CASE psci_set_pwr_domains_to_run BY <1>10 DEF psci_set_pwr_domains_to_run,
   Target, Store
<1>11. CASE RunFlush BY <1>11 DEF RunFlush, Target, flush_dcache_range
<1>12. ASSUME NEW c \in Cpus, Call(c) \/ CpuNext(c) PROVE SeenInv'
    <2>1. CASE psci_spin_lock_cpu(c) BY <2>1 DEF psci_spin_lock_cpu, Step, Begin
    <2>2. CASE psci_affinity_info(c) BY <2>2 DEF psci_affinity_info, Step, Begin,
       flush_dcache_range
    <2>3. CASE psci_is_last_on_cpu(c) BY <2>3 DEF psci_is_last_on_cpu, Step, Begin,
       Load, Cached
    <2>4. CASE OnFlush(c) BY <2>4 DEF OnFlush, Step, flush_dcache_range
    <2>5. CASE OnRead(c) BY <2>5 DEF OnRead, Step, Load, Cached
    <2>6. CASE cpu_on_validate_state(c) BY <2>6 DEF cpu_on_validate_state, Step
    <2>7. CASE SetPending(c) BY <2>7 DEF SetPending, Step, Store
    <2>8. CASE PendingFlush(c) BY <2>8 DEF PendingFlush, Step, flush_dcache_range
    <2>9. CASE CheckPending(c) BY <2>9 DEF CheckPending, Step, Load, Cached
    <2>10. CASE RetryPending(c) BY <2>10 DEF RetryPending, Step, Store
    <2>11. CASE RetryFlush(c) BY <2>11 DEF RetryFlush, Step, flush_dcache_range
    <2>12. CASE RecheckPending(c) BY <2>12 DEF RecheckPending, Step, Load, Cached
    <2>13. CASE pwr_domain_on(c) BY <2>13 DEF pwr_domain_on, Step
    <2>14. CASE pwr_domain_on_fails(c) BY <2>14 DEF pwr_domain_on_fails, Step, Store
    <2>15. CASE RestoreFlush(c) BY <2>15 DEF RestoreFlush, Step, flush_dcache_range
    <2>16. CASE psci_spin_unlock_cpu(c) BY <2>16 DEF psci_spin_unlock_cpu, Step
    <2>17. CASE InfoRead(c) BY <2>17 DEF InfoRead, Step, Load, Cached
    <2>18. CASE Return(c) BY <2>18 DEF Return, Step
    <2> QED BY <1>12, <2>1, <2>2, <2>3, <2>4, <2>5, <2>6, <2>7, <2>8, <2>9, <2>10,
       <2>11, <2>12, <2>13, <2>14, <2>15, <2>16, <2>17, <2>18, Zenon DEF Call,
       CpuNext
<1> QED BY <1>1, <1>2, <1>3, <1>4, <1>5, <1>6, <1>7, <1>8, <1>9, <1>10, <1>11, <1>12,
   Zenon DEF Next, TargetNext

(* A step of one CPU leaves the target and the locals of the others alone; *)
(* only psci_is_last_on_cpu ends in a plain read.                          *)
LEMMA CpuFrame ==
    ASSUME IInv, NEW c \in Cpus, Call(c) \/ CpuNext(c)
    PROVE  /\ UNCHANGED <<coherent, tpc>>
           /\ \A d \in Cpus : d # c =>
                 pc'[d] = pc[d] /\ seen'[d] = seen[d] /\ (was_off'[d] => was_off[d])
           /\ pc'[c] = "scan_done" => psci_is_last_on_cpu(c)
<1> USE DEF Step
<1>0. /\ pc \in [Cpus -> Places] /\ seen \in [Cpus -> AFF_STATES]
      /\ was_off \in [Cpus -> BOOLEAN]
    BY Zenon DEF IInv, TypeOK
<1>1. CASE Call(c)
    BY <1>0, <1>1, Zenon DEF Call, psci_spin_lock_cpu, psci_affinity_info, psci_is_last_on_cpu,
       Begin
<1>2. CASE OnRead(c) \/ CheckPending(c) \/ InfoRead(c)
    BY <1>0, <1>2, Zenon DEF OnRead, CheckPending, InfoRead
<1>3. CASE SetPending(c)
    BY <1>0, <1>3, Zenon DEF SetPending
<1>4. CASE OnFlush(c) \/ cpu_on_validate_state(c) \/ PendingFlush(c) \/ RetryPending(c)
    BY <1>0, <1>4, Zenon DEF OnFlush, cpu_on_validate_state, PendingFlush, RetryPending
<1>5. CASE \/ RetryFlush(c) \/ RecheckPending(c) \/ pwr_domain_on(c)
           \/ pwr_domain_on_fails(c)
    BY <1>0, <1>5, Zenon DEF RetryFlush, RecheckPending, pwr_domain_on, pwr_domain_on_fails
<1>6. CASE RestoreFlush(c) \/ psci_spin_unlock_cpu(c) \/ Return(c)
    BY <1>0, <1>6, Zenon DEF RestoreFlush, psci_spin_unlock_cpu, Return
<1> QED BY <1>1, <1>2, <1>3, <1>4, <1>5, <1>6, Zenon DEF CpuNext

(* In wfi, memory and the line do not hold ON when the target is coherent. *)
LEMMA CleanStep ==
    ASSUME IInv, Next, tpc = "wfi" => line # "ON", coherent', tpc' = "wfi"
    PROVE  line' # "ON"
<1>1. CASE tpc = "wfi"
    <2>1. mem # "ON"
        <3>1. CASE \A c \in Cpus : pc[c] \notin Writing
            BY <1>1, <3>1 DEF IInv, QuietInv, Down
        <3>2. CASE \E c \in Cpus : pc[c] \in Writing
            BY <3>2, Zenon DEF IInv, HolderInv, Writing, Stored, Synced
        <3> QED BY <3>1, <3>2, Zenon
    <2>2. line' \in {line, mem, None, "ON_PENDING", "OFF"}
        <3>1. CASE Evict \/ Speculate \/ psci_do_cpu_off \/ TargetNext
            BY <1>1, <3>1, Zenon DEF Evict, Speculate, psci_do_cpu_off, TargetNext, Target,
               psci_flush_cpu_data, psci_set_aff_info_state, psci_inv_cpu_data, WarmReset,
               psci_warmboot_entrypoint, psci_cpu_on_finish, psci_set_pwr_domains_to_run,
               RunFlush, Load, Cached, flush_dcache_range
        <3>2. ASSUME NEW c \in Cpus, Call(c) PROVE line' \in {line, mem, None}
            BY <3>2, Zenon DEF Call, psci_spin_lock_cpu, psci_affinity_info, psci_is_last_on_cpu,
               Load, Cached, flush_dcache_range
        <3>3. ASSUME NEW c \in Cpus, CpuNext(c)
              PROVE  line' \in {line, mem, None, "ON_PENDING", "OFF"}
            BY <3>3, Zenon DEF CpuNext, OnFlush, OnRead, cpu_on_validate_state, SetPending,
               PendingFlush, CheckPending, RetryPending, RetryFlush, RecheckPending,
               pwr_domain_on, pwr_domain_on_fails, RestoreFlush, psci_spin_unlock_cpu,
               InfoRead, Return, Load, Store, Cached, flush_dcache_range
        <3> QED BY <3>1, <3>2, <3>3, Zenon DEF Next
    <2> QED BY <1>1, <2>1, <2>2, Zenon DEF None
<1>2. CASE tpc # "wfi"
    <2>1. psci_inv_cpu_data
        <3>1. CASE Evict \/ Speculate \/ psci_do_cpu_off \/ TargetNext
            BY <1>2, <3>1, Zenon DEF Evict, Speculate, psci_do_cpu_off, TargetNext, Target,
               psci_flush_cpu_data, psci_set_aff_info_state, WarmReset,
               psci_warmboot_entrypoint, psci_cpu_on_finish, psci_set_pwr_domains_to_run,
               RunFlush
        <3>2. ASSUME NEW c \in Cpus, Call(c) \/ CpuNext(c) PROVE FALSE
            BY <1>2, <3>2, CpuFrame, Zenon
        <3> QED BY <3>1, <3>2, Zenon DEF Next
    <2> QED BY <2>1, Zenon DEF psci_inv_cpu_data, None
<1> QED BY <1>1, <1>2, Zenon

(* The plain read of psci_is_last_on_cpu sees OFF when the line does not   *)
(* hold ON, and what it has seen stays with its CPU.                       *)
LEMMA ScanStep ==
    ASSUME IInv, RestInv, LaterReadsSeeOff, Next, tpc = "wfi" => line # "ON"
    PROVE  LaterReadsSeeOff'
<1>1. CASE Evict \/ Speculate \/ psci_do_cpu_off \/ TargetNext
    <2>1. UNCHANGED <<pc, seen, was_off>>
        BY <1>1, Zenon DEF Evict, Speculate, psci_do_cpu_off, TargetNext, Target,
           psci_flush_cpu_data, psci_set_aff_info_state, psci_inv_cpu_data, WarmReset,
           psci_warmboot_entrypoint, psci_cpu_on_finish, psci_set_pwr_domains_to_run,
           RunFlush
    <2> QED BY <2>1, Zenon DEF LaterReadsSeeOff
<1>2. ASSUME NEW c \in Cpus, Call(c) \/ CpuNext(c) PROVE LaterReadsSeeOff'
    <2>1. ASSUME pc'[c] = "scan_done", was_off'[c] PROVE seen'[c] = "OFF"
        <3>1. psci_is_last_on_cpu(c)
            BY <1>2, <2>1, CpuFrame, Zenon
        <3>2. seen'[c] = Cached /\ tpc = "wfi" /\ cpu_lock = None /\ ~power_on
            BY <2>1, <3>1, Zenon DEF psci_is_last_on_cpu, Begin, IInv, TypeOK
        <3>3. \A d \in Cpus : pc[d] \notin OnPlaces
            BY <3>2, NoneAssumption DEF IInv, LockInv
        <3>4. mem = "OFF" /\ line \in {None, mem}
            BY <3>2, <3>3 DEF RestInv, Down, IInv, QuietInv, Writing, OnPlaces
        <3> QED BY <3>2, <3>4, Zenon DEF Cached
    <2> QED BY <1>2, <2>1, CpuFrame, Zenon DEF LaterReadsSeeOff
<1> QED BY <1>1, <1>2, Zenon DEF Next

(* The inductive invariant holds in every behaviour.                       *)
THEOREM SpecIInv == Spec => []IInv
<1>1. Init => IInv
    BY NoneAssumption, Zenon DEF Init, IInv, TypeOK, LineInv, LockInv, TargetInv, QuietInv,
       HolderInv, OnPlaces, Places, TargetPlaces, Synced, Stored, Down, AFF_STATES, None
<1>2. IInv /\ [Next]_vars => IInv'
    <2> SUFFICES ASSUME IInv, [Next]_vars PROVE IInv'
        OBVIOUS
    <2>1. CASE Next
        BY <2>1, TypeStep, LockStep, TargetStep, QuietStep, HolderStep DEF IInv
    <2>2. CASE UNCHANGED vars
        BY <2>2 DEF vars, IInv, TypeOK, LineInv, LockInv, TargetInv, QuietInv, HolderInv,
           Synced, Stored, Down
    <2> QED BY <2>1, <2>2
<1> QED BY <1>1, <1>2, PTL DEF Spec

(* Every variable keeps its type.                                          *)
THEOREM TypeOKHolds == Spec => []TypeOK
<1>1. IInv => TypeOK BY DEF IInv
<1> QED BY <1>1, SpecIInv, PTL

(* A CPU that CPU_ON started never finds its state OFF: neither the panic  *)
(* of psci_warmboot_entrypoint nor the assertion of psci_cpu_on_finish is  *)
(* reached, for any number of CPUs.                                        *)
THEOREM PendingReachesTargetHolds == Spec => []PendingReachesTarget
<1>1. IInv => PendingReachesTarget BY DEF IInv, TargetInv, PendingReachesTarget
<1> QED BY <1>1, SpecIInv, PTL

(* The single retry of psci_cpu_on_start is enough: its assertions hold.   *)
THEOREM RetryIsEnoughHolds == Spec => []RetryIsEnough
<1>1. IInv => RetryIsEnough BY Zenon DEF IInv, HolderInv, RetryIsEnough
<1> QED BY <1>1, SpecIInv, PTL

(* If pwr_domain_on does not fail, CPU_ON and AFFINITY_INFO see OFF for a  *)
(* CPU that was off when they were called and that nobody turns on.        *)
THEOREM OffIsSeenHolds == ASSUME ~OnMayFail PROVE Spec => []OffIsSeen
<1> DEFINE Inv == RestInv /\ OffInv /\ SeenInv
<1>1. Init => Inv
    BY DEF Init, RestInv, OffInv, SeenInv, Down
<1>2. IInv /\ Inv /\ [Next]_vars => Inv'
    <2> SUFFICES ASSUME IInv, Inv, [Next]_vars PROVE Inv'
        BY Zenon
    <2>1. CASE Next
        <3>1. \A c \in Cpus : ~pwr_domain_on_fails(c)
            BY Zenon DEF pwr_domain_on_fails
        <3> QED BY <2>1, <3>1, RestStep, OffStep, SeenStep, Zenon
    <2>2. CASE UNCHANGED vars
        BY <2>2, Zenon DEF vars, RestInv, OffInv, SeenInv, Down
    <2> QED BY <2>1, <2>2, Zenon
<1>3. Inv => OffIsSeen
    BY Zenon DEF SeenInv, OffIsSeen
<1> HIDE DEF Inv
<1> QED BY <1>1, <1>2, <1>3, SpecIInv, PTL DEF Spec

(* The history does not constrain the steps of the program.                *)
LEMMA HistorySpec == MCSpec => Spec
<1>1. MCInit => Init
    BY Zenon DEF MCInit
<1>2. [MCNext]_mcvars => [Next]_vars
    BY Zenon DEF MCNext, mcvars, vars
<1> QED BY <1>1, <1>2, PTL DEF MCSpec, Spec

(* A step that leaves no trace in the history is not a failed CPU_ON.      *)
LEMMA HistoryStep ==
    ASSUME IInv, HistoryInv, MCNext PROVE HistoryInv'
<1>1. OffInv' /\ Next
    BY OffStep, Zenon DEF HistoryInv, MCNext
<1>2. ASSUME ~failed' PROVE RestInv' /\ SeenInv'
    <2>1. CASE tpc' = "on"
        BY <1>1, <2>1, Zenon DEF RestInv, Down, OffInv, SeenInv
    <2>2. CASE tpc' # "on"
        <3>1. ~failed /\ \A c \in Cpus : ~(pc[c] = "plat" /\ pc'[c] = "restore_flush")
            BY <1>2, <2>2, Zenon DEF MCNext, MCStep
        <3>2. \A c \in Cpus : ~pwr_domain_on_fails(c)
            BY <3>1 DEF pwr_domain_on_fails, Step, IInv, TypeOK
        <3> QED BY <1>1, <3>1, <3>2, RestStep, SeenStep, Zenon DEF HistoryInv
    <2> QED BY <2>1, <2>2, Zenon
<1> QED BY <1>1, <1>2, Zenon DEF HistoryInv

(* What is known of a target that is off, in every behaviour.              *)
LEMMA SpecHistoryInv == MCSpec => []HistoryInv
<1>1. MCInit => HistoryInv
    BY DEF MCInit, Init, HistoryInv, RestInv, OffInv, SeenInv, Down
<1>2. IInv /\ HistoryInv /\ [MCNext]_mcvars => HistoryInv'
    <2>1. ASSUME HistoryInv, UNCHANGED mcvars PROVE HistoryInv'
        BY <2>1, Zenon DEF mcvars, vars, HistoryInv, RestInv, OffInv, SeenInv, Down
    <2> QED BY <2>1, HistoryStep, Zenon
<1> QED BY <1>1, <1>2, SpecIInv, HistorySpec, PTL DEF MCSpec

(* CPU_ON and AFFINITY_INFO see OFF for a CPU that was off when they were  *)
(* called and that nobody turns on, although pwr_domain_on may fail, as    *)
(* long as none has failed since the target last came up.                  *)
THEOREM OffIsSeenUnlessFailedHolds == MCSpec => []OffIsSeenUnlessFailed
<1>1. HistoryInv => OffIsSeenUnlessFailed
    BY Zenon DEF HistoryInv, SeenInv, OffIsSeen, OffIsSeenUnlessFailed
<1> QED BY <1>1, SpecHistoryInv, PTL

(* The plain read of psci_is_last_on_cpu sees OFF as well for a target     *)
(* that stayed in coherency: what psci_do_cpu_off says its maintenance is  *)
(* for.                                                                    *)
THEOREM CoherentReadsSeeOffHolds == MCSpec => []CoherentReadsSeeOff
<1>1. MCInit => CoherentInv
    BY Zenon DEF MCInit, Init, CoherentInv, LaterReadsSeeOff
<1>2. IInv /\ HistoryInv /\ CoherentInv /\ [MCNext]_mcvars => CoherentInv'
    <2> SUFFICES ASSUME IInv, HistoryInv, CoherentInv, [MCNext]_mcvars PROVE CoherentInv'
        BY Zenon
    <2>1. CASE UNCHANGED mcvars
        BY <2>1, Zenon DEF mcvars, vars, CoherentInv, LaterReadsSeeOff
    <2>2. CASE MCNext
        <3>1. OffInv' /\ Next
            BY <2>2, OffStep, Zenon DEF HistoryInv, MCNext
        <3>2. CASE tpc' = "on"
            BY <3>1, <3>2, Zenon DEF CoherentInv, OffInv, LaterReadsSeeOff
        <3>3. CASE tpc' # "on" /\ ~left'
            <4>1. /\ ~left /\ coherent' /\ (~failed' => ~failed)
                  /\ tpc = "wfi" => line # "ON"
                  /\ ~failed => LaterReadsSeeOff /\ RestInv
                BY <2>2, <3>3, Zenon DEF MCNext, MCStep, CoherentInv, HistoryInv
            <4>2. tpc' = "wfi" => line' # "ON"
                BY <3>1, <4>1, CleanStep, Zenon
            <4>3. ~failed' => LaterReadsSeeOff'
                BY <3>1, <4>1, ScanStep, Zenon
            <4> QED BY <4>2, <4>3, Zenon DEF CoherentInv
        <3> QED BY <3>2, <3>3, Zenon DEF CoherentInv
    <2> QED BY <2>1, <2>2, Zenon
<1>3. CoherentInv => CoherentReadsSeeOff
    BY Zenon DEF CoherentInv, CoherentReadsSeeOff
<1> QED BY <1>1, <1>2, <1>3, SpecIInv, HistorySpec, SpecHistoryInv, PTL DEF MCSpec

=============================================================================
