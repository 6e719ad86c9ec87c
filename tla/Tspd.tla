------------------------------- MODULE Tspd -------------------------------
(***************************************************************************)
(* The dispatcher of the Test Secure Payload (services/spd/tspd) on one    *)
(* CPU, with the payload's entry points (bl32/tsp), the three kinds of     *)
(* interrupts that can take the CPU from one world to the other, and the   *)
(* PSCI hooks.  tspd_sp_context[] is per CPU, and EL3 runs with interrupts *)
(* masked, so one CPU and one step per handler is the whole concurrency.   *)
(*                                                                         *)
(* A Secure context is abstracted to where it executes and whether its     *)
(* PSTATE masks interrupts.  The Exception Handling Framework, when built  *)
(* in, is notified when a normal-world context is saved or restored.       *)
(***************************************************************************)
EXTENDS Integers

CONSTANT Builds      \* the builds and circumstances to be looked at: async,
                     \* TSP_NS_INTR_ASYNC_PREEMPT; ehf, EL3_EXCEPTION_HANDLING;
                     \* race, an S-EL1 interrupt may overtake the interrupt that
                     \* entered EL3; careful, the client aborts only, and
                     \* powers down never, a preempted call

\* services/spd/tspd/tspd.mk refuses the EHF without asynchronous preemption.
ASSUME BuildAssumption ==
    /\ Builds \subseteq [async : BOOLEAN, ehf : BOOLEAN, race : BOOLEAN, careful : BOOLEAN]
    /\ \A b \in Builds : b.ehf => b.async

VARIABLES build,                  \* the one of Builds that runs
          pstate,                 \* TSP_PSTATE_* of tsp_ctx->state
          yield_smc_active,       \* YIELD_SMC_ACTIVE_FLAG of tsp_ctx->state
          preempted_by_sel1_intr,
          cpu_ctx,                \* the saved Secure context
          saved_ctx,              \* saved_elr_el3, saved_spsr_el3 and sp_ctx
          c_rt_ctx,               \* the operation that waits in tspd_enter_sp
          ns_rm,                  \* NS interrupts are routed to EL3 from Secure
          ehf, ns_mask,           \* EHF data of this PE; the mask of the normal world
          world,                  \* what runs below EL3
          tsp,                    \* the context the TSP executes in
          call, reply             \* the last call of the normal world, and its result

tsp_state == <<pstate, yield_smc_active, preempted_by_sel1_intr, saved_ctx, c_rt_ctx, ns_rm>>
vars == <<build, tsp_state, cpu_ctx, ehf, ns_mask, world, tsp, call, reply>>

HighestNs == 4
NsMasks == {4, 5}

E == INSTANCE Ehf WITH pe <- ehf, stack <- <<>>,
        SdeiPris <- {2, 3}, SpPri <- 1, HighestNs <- HighestNs, NsMasks <- NsMasks, IdlePri <- 6

\* cm_el1_sysregs_context_save(NON_SECURE) publishes cm_exited_normal_world.
SaveNs(s) == IF build.ehf THEN E!ehf_exited_normal_world(s) ELSE s
\* cm_el1_sysregs_context_restore(NON_SECURE) publishes cm_entering_normal_world.
RestoreNs(s) == IF build.ehf THEN E!ehf_entering_normal_world(s) ELSE s
AllowNs(s) == IF build.ehf THEN E!ehf_allow_ns_preemption(s) ELSE s

Ctx(at, masked) == [at |-> at, masked |-> masked]
Idle == Ctx("idle", TRUE)

Init ==
    /\ build \in Builds
    /\ pstate = "ON" /\ yield_smc_active = FALSE /\ preempted_by_sel1_intr = FALSE
    /\ cpu_ctx = Idle /\ saved_ctx = Idle /\ c_rt_ctx = "none" /\ ns_rm = FALSE
    /\ ns_mask \in NsMasks
    /\ ehf = [active_pri_bits |-> {}, init_pri_mask |-> 0, ns_pri_mask |-> 0,
              pmr |-> ns_mask, run |-> {}, stop |-> "no"]
    /\ world = "ns" /\ tsp = Idle /\ call = "none" /\ reply = "none"

EnterTsp(at, masked) == world' = "tsp" /\ tsp' = Ctx(at, masked)
EnterNs(r) == world' = "ns" /\ tsp' = Idle /\ reply' = r

\* tspd_synchronous_sp_entry: only the ELR is set, the PSTATE is the saved one.
tspd_synchronous_sp_entry(at, op, masked) ==
    /\ EnterTsp(at, masked)
    /\ c_rt_ctx' = IF c_rt_ctx = "none" THEN op ELSE "assert"

----------------------------------------------------------------------------
(* Calls of the normal world.                                              *)

NsRuns == world = "ns"

\* The dispatcher refuses with SMC_UNK.
Refuse(c) == call' = c /\ reply' = "unk" /\ UNCHANGED <<tsp_state, cpu_ctx, ehf, ns_mask, world, tsp>>

\* A fast call that is let through while a yielding one is preempted.
FaultyFastSmc ==
    /\ NsRuns /\ call' = "fast" /\ ehf' = SaveNs(ehf)
    /\ EnterTsp("fast", cpu_ctx.masked)
    /\ UNCHANGED <<tsp_state, cpu_ctx, ns_mask, reply>>

FastSmc ==
    /\ NsRuns
    /\ IF yield_smc_active THEN Refuse("fast")
       ELSE /\ call' = "fast" /\ ehf' = SaveNs(ehf)
            /\ EnterTsp("fast", cpu_ctx.masked)
            /\ UNCHANGED <<tsp_state, cpu_ctx, ns_mask, reply>>

\* The yielding entry of the TSP leaves interrupts masked.
FaultyYieldSmc ==
    /\ NsRuns /\ ~yield_smc_active /\ call' = "yield" /\ yield_smc_active' = TRUE
    /\ ns_rm' = (build.async \/ ns_rm) /\ ehf' = AllowNs(SaveNs(ehf))
    /\ EnterTsp("yield", cpu_ctx.masked)
    /\ UNCHANGED <<pstate, preempted_by_sel1_intr, saved_ctx, c_rt_ctx, cpu_ctx, ns_mask, reply>>

YieldSmc ==
    /\ NsRuns
    /\ IF yield_smc_active THEN Refuse("yield")
       ELSE /\ call' = "yield" /\ yield_smc_active' = TRUE
            /\ ns_rm' = (build.async \/ ns_rm)
            /\ ehf' = AllowNs(SaveNs(ehf))
            /\ EnterTsp("yield", FALSE)
            /\ UNCHANGED <<pstate, preempted_by_sel1_intr, saved_ctx, c_rt_ctx, cpu_ctx, ns_mask, reply>>

\* A return that leaves the normal world's context unrestored.
FaultySmcResult ==
    /\ world = "tsp" /\ tsp.at \in {"fast", "yield"}
    /\ cpu_ctx' = Idle /\ yield_smc_active' = FALSE /\ ns_rm' = FALSE
    /\ EnterNs("ok")
    /\ UNCHANGED <<pstate, preempted_by_sel1_intr, saved_ctx, c_rt_ctx, ehf, ns_mask, call>>

\* The TSP returns the result of a fast or a yielding call.
SmcResult ==
    /\ world = "tsp" /\ tsp.at \in {"fast", "yield"}
    /\ cpu_ctx' = Ctx("idle", tsp.masked \/ tsp.at = "yield")
    /\ ehf' = RestoreNs(ehf)
    /\ IF tsp.at = "yield"
       THEN yield_smc_active' = FALSE /\ ns_rm' = (ns_rm /\ ~build.async)
       ELSE UNCHANGED <<yield_smc_active, ns_rm>>
    /\ EnterNs("ok")
    /\ UNCHANGED <<pstate, preempted_by_sel1_intr, saved_ctx, c_rt_ctx, ns_mask, call>>

TSP_FID_RESUME ==
    /\ NsRuns
    /\ IF ~yield_smc_active THEN Refuse("resume")
       ELSE /\ call' = "resume"
            /\ ns_rm' = (build.async \/ ns_rm)
            /\ ehf' = AllowNs(SaveNs(ehf))
            /\ EnterTsp(cpu_ctx.at, cpu_ctx.masked /\ cpu_ctx.at # "yield")
            /\ UNCHANGED <<pstate, yield_smc_active, preempted_by_sel1_intr, saved_ctx,
                           c_rt_ctx, cpu_ctx, ns_mask, reply>>

\* The normal world's context is saved before the dispatcher finds out that
\* there is nothing to abort, and it is not restored then.
TSP_FID_ABORT ==
    /\ NsRuns
    /\ build.careful => yield_smc_active
    /\ call' = "abort" /\ ehf' = SaveNs(ehf)
    /\ IF yield_smc_active
       THEN /\ yield_smc_active' = FALSE
            /\ tspd_synchronous_sp_entry("abort", "abort", cpu_ctx.masked)
            /\ UNCHANGED reply
       ELSE /\ reply' = "unk"
            /\ UNCHANGED <<yield_smc_active, c_rt_ctx, world, tsp>>
    /\ UNCHANGED <<pstate, preempted_by_sel1_intr, saved_ctx, ns_rm, cpu_ctx, ns_mask>>

----------------------------------------------------------------------------
(* Interrupts.                                                             *)

\* The TSP's handler unmasks interrupts before it gives way.
FaultyPreemption(masked) ==
    /\ cpu_ctx' = Ctx(tsp.at, FALSE)
    /\ ehf' = RestoreNs(ehf) /\ EnterNs("preempted")

tspd_handle_sp_preemption(masked) ==
    /\ cpu_ctx' = Ctx(tsp.at, masked)
    /\ ehf' = RestoreNs(ehf)
    /\ EnterNs("preempted")

\* A non-secure interrupt that the priority mask lets through.
NsInterrupt == world = "tsp" /\ ehf.pmr > HighestNs

\* It is routed to EL3, whatever the PSTATE of the TSP is.
tspd_ns_interrupt_handler ==
    /\ NsInterrupt /\ ns_rm
    /\ tspd_handle_sp_preemption(tsp.masked)
    /\ ns_rm' = FALSE
    /\ UNCHANGED <<pstate, yield_smc_active, preempted_by_sel1_intr, saved_ctx, c_rt_ctx, ns_mask, call>>

\* It is taken by the TSP, whose handler (tsp_common_int_handler) masks
\* interrupts and gives way with TSP_PREEMPTED.
TSP_PREEMPTED ==
    /\ NsInterrupt /\ ~ns_rm /\ ~tsp.masked
    /\ tspd_handle_sp_preemption(TRUE)
    /\ UNCHANGED <<tsp_state, ns_mask, call>>

\* An S-EL1 interrupt while the normal world runs, or (Note 1 in the code)
\* one found at EL3 in place of the non-secure one that left the TSP.
tspd_sel1_interrupt_handler ==
    /\ pstate = "ON"
    /\ \/ /\ NsRuns
          /\ ehf' = SaveNs(ehf)
          /\ preempted_by_sel1_intr' = FALSE
          /\ saved_ctx' = IF yield_smc_active THEN cpu_ctx ELSE saved_ctx
          /\ UNCHANGED cpu_ctx
       \/ /\ build.race /\ NsInterrupt /\ ns_rm
          /\ preempted_by_sel1_intr' = TRUE
          /\ cpu_ctx' = tsp
          /\ saved_ctx' = IF yield_smc_active THEN tsp ELSE saved_ctx
          /\ UNCHANGED ehf
    /\ EnterTsp("sel1", TRUE)
    /\ UNCHANGED <<pstate, yield_smc_active, c_rt_ctx, ns_rm, ns_mask, call, reply>>

TSP_HANDLED_S_EL1_INTR ==
    /\ world = "tsp" /\ tsp.at = "sel1"
    /\ cpu_ctx' = IF yield_smc_active THEN saved_ctx ELSE Ctx("idle", tsp.masked)
    /\ ehf' = RestoreNs(ehf)
    /\ preempted_by_sel1_intr' = FALSE
    /\ EnterNs(IF build.async /\ preempted_by_sel1_intr THEN "preempted" ELSE reply)
    /\ UNCHANGED <<pstate, yield_smc_active, saved_ctx, c_rt_ctx, ns_rm, ns_mask, call>>

----------------------------------------------------------------------------
(* PSCI hooks, and the *_DONE calls that end a synchronous entry.          *)

Hook == [cpu_off |-> "off", cpu_suspend |-> "suspend", system_off |-> "system"]

\* svc_off, svc_suspend, svc_system_off and svc_system_reset: a preempted
\* call is aborted before the TSP is entered for the request itself.
PowerCall(op) ==
    /\ NsRuns /\ pstate = "ON"
    /\ build.careful => ~yield_smc_active
    /\ call' = op /\ yield_smc_active' = FALSE
    /\ tspd_synchronous_sp_entry(IF yield_smc_active THEN "abort" ELSE Hook[op], op, cpu_ctx.masked)
    /\ UNCHANGED <<pstate, preempted_by_sel1_intr, saved_ctx, ns_rm, cpu_ctx, ehf, ns_mask, reply>>

\* TSP_ABORT_DONE: back in tspd_abort_preempted_smc and its caller.
TSP_ABORT_DONE ==
    /\ world = "tsp" /\ tsp.at = "abort" /\ c_rt_ctx # "none"
    /\ cpu_ctx' = Ctx("idle", tsp.masked)
    /\ IF c_rt_ctx = "abort"
       THEN /\ ehf' = RestoreNs(ehf) /\ EnterNs("ok") /\ c_rt_ctx' = "none"
       ELSE /\ EnterTsp(Hook[c_rt_ctx], tsp.masked)
            /\ UNCHANGED <<ehf, reply, c_rt_ctx>>
    /\ UNCHANGED <<pstate, yield_smc_active, preempted_by_sel1_intr, saved_ctx, ns_rm, ns_mask, call>>

\* TSP_OFF_DONE, TSP_SUSPEND_DONE, TSP_SYSTEM_OFF_DONE and TSP_SYSTEM_RESET_DONE.
PowerDone ==
    /\ world = "tsp" /\ tsp.at \in {"off", "suspend", "system"} /\ c_rt_ctx # "none"
    /\ cpu_ctx' = Ctx("idle", tsp.masked) /\ c_rt_ctx' = "none"
    /\ pstate' = CASE tsp.at = "off" -> "OFF" [] tsp.at = "suspend" -> "SUSPEND" [] OTHER -> pstate
    /\ world' = "down" /\ tsp' = Idle
    /\ UNCHANGED <<yield_smc_active, preempted_by_sel1_intr, saved_ctx, ns_rm, ehf, ns_mask, call, reply>>

\* svc_on_finish: the context is built afresh.
tspd_cpu_on_finish_handler ==
    /\ world = "down" /\ pstate = "OFF"
    /\ yield_smc_active' = FALSE /\ ns_rm' = FALSE
    /\ tspd_synchronous_sp_entry("on", "on", TRUE)
    /\ UNCHANGED <<pstate, preempted_by_sel1_intr, saved_ctx, cpu_ctx, ehf, ns_mask, call, reply>>

tspd_cpu_suspend_finish_handler ==
    /\ world = "down" /\ pstate = "SUSPEND"
    /\ tspd_synchronous_sp_entry("resume", "resume", cpu_ctx.masked)
    /\ UNCHANGED <<pstate, yield_smc_active, preempted_by_sel1_intr, saved_ctx, ns_rm, cpu_ctx,
                   ehf, ns_mask, call, reply>>

\* TSP_ON_DONE and TSP_RESUME_DONE.
PowerUpDone ==
    /\ world = "tsp" /\ tsp.at \in {"on", "resume"} /\ c_rt_ctx # "none"
    /\ cpu_ctx' = Ctx("idle", tsp.masked) /\ c_rt_ctx' = "none"
    /\ pstate' = "ON" /\ call' = "none"
    /\ EnterNs("none")
    /\ UNCHANGED <<yield_smc_active, preempted_by_sel1_intr, saved_ctx, ns_rm, ehf, ns_mask>>

----------------------------------------------------------------------------
Alive == ehf.stop = "no" /\ c_rt_ctx # "assert"

\* Steps of the TSP, and of the power controller that wakes the CPU.
TspStep ==
    /\ Alive
    /\ SmcResult \/ TSP_HANDLED_S_EL1_INTR \/ TSP_ABORT_DONE \/ PowerDone \/ PowerUpDone

ClientStep ==
    /\ Alive
    /\ \/ FastSmc \/ YieldSmc \/ TSP_FID_RESUME \/ TSP_FID_ABORT
       \/ \E op \in DOMAIN Hook : PowerCall(op)
       \/ tspd_cpu_on_finish_handler \/ tspd_cpu_suspend_finish_handler

InterruptStep ==
    Alive /\ (tspd_ns_interrupt_handler \/ TSP_PREEMPTED \/ tspd_sel1_interrupt_handler)

Next == UNCHANGED build /\ (TspStep \/ ClientStep \/ InterruptStep)

Spec == Init /\ [][Next]_vars

----------------------------------------------------------------------------
(* Properties.                                                             *)

Places == {"idle", "fast", "yield", "sel1", "abort", "off", "suspend", "system", "on", "resume"}
Contexts == [at : Places, masked : BOOLEAN]

\* Every variable stays in its domain.
TypeOK ==
    /\ pstate \in {"ON", "OFF", "SUSPEND"} /\ world \in {"ns", "tsp", "down"}
    /\ yield_smc_active \in BOOLEAN /\ preempted_by_sel1_intr \in BOOLEAN /\ ns_rm \in BOOLEAN
    /\ cpu_ctx \in Contexts /\ saved_ctx \in Contexts /\ tsp \in Contexts
    /\ c_rt_ctx \in {"none", "abort", "on", "resume", "assert"} \cup DOMAIN Hook
    /\ ns_mask \in NsMasks /\ (world = "tsp") = (tsp.at # "idle")
    /\ reply \in {"none", "ok", "unk", "preempted"}

\* As long as a yielding call is preempted, the context that continues it is
\* kept, in cpu_ctx or behind an unfinished S-EL1 interrupt: S-EL1 interrupts
\* are handled in that same context ("Its last known context has to be
\* preserved in this case", tspd_main.c).  This is so unless an S-EL1 interrupt
\* overtakes the one that left the TSP.
PreemptedContextPreserved ==
    world = "ns" /\ yield_smc_active /\ ~build.race =>
        cpu_ctx.at = "yield" \/ (cpu_ctx.at = "sel1" /\ saved_ctx.at = "yield")

\* An entry made through tspd_synchronous_sp_entry ends at its *_DONE call and
\* at no other place, if the TSP itself takes the interrupts that preempt it: the
\* normal world never runs while it is outstanding, no second entry is made on
\* top of it, and SMC_PREEMPTED answers only a yielding call or its resumption,
\* which can be resumed then.
SynchronousEntriesComplete ==
    ~build.async =>
        /\ c_rt_ctx # "assert"
        /\ world = "ns" => c_rt_ctx = "none"
        /\ world = "ns" /\ reply = "preempted" => call \in {"yield", "resume"} /\ yield_smc_active

\* A yielding call can be preempted by the normal world's interrupts each time
\* it is entered: they are routed to EL3 in the asynchronous build, and the
\* priority mask is the normal world's.  A fast call or an abort is never cut
\* short, because the mask the EHF sets when the normal world is left keeps its
\* interrupts out.
YieldingCallsPreemptible ==
    /\ world = "tsp" /\ tsp.at = "yield" =>
           ehf.pmr = ns_mask /\ ~tsp.masked /\ (build.async => ns_rm)
    /\ world = "ns" /\ reply = "preempted" /\ build.ehf => call \notin {"fast", "abort"}

\* The normal world runs with its own priority mask, whichever way the
\* dispatcher returns to it (the mask stashed by ehf_exited_normal_world), and
\* the dispatcher never fails an assertion of ehf.c or makes it panic.
NsMaskRestored ==
    /\ ehf.stop = "no"
    /\ world = "ns" => ehf.pmr = ns_mask /\ ehf.ns_pri_mask = 0

=============================================================================
