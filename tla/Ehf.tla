-------------------------------- MODULE Ehf --------------------------------
(***************************************************************************)
(* The Exception Handling Framework of bl31/ehf.c on one PE: the stack of  *)
(* priority activations, the GIC priority mask, and the non-secure mask    *)
(* that is stashed while Secure code runs.  All of it is per-PE data that  *)
(* is only touched at EL3 with interrupts masked, so each handler is one   *)
(* step.  Smaller numbers are higher priorities, as in the GIC.            *)
(*                                                                         *)
(* A chain of delegations is a stack of frames.  The top frame says what   *)
(* runs below EL3: normal-world code (an empty stack, or the handler of an *)
(* SDEI event dispatched by an interrupt or explicitly), or Secure code (a *)
(* fast or a yielding SMC, or MM_COMMUNICATE).                             *)
(***************************************************************************)
EXTENDS Integers, Sequences, FiniteSetsExt

CONSTANTS SdeiPris,   \* PLAT_SDEI_CRITICAL_PRI and PLAT_SDEI_NORMAL_PRI
          SpPri,      \* PLAT_SP_PRI, the priority of the secure partition
          HighestNs,  \* GIC_HIGHEST_NS_PRIORITY
          NsMasks,    \* priority masks the normal world programs
          IdlePri     \* running priority when no interrupt is active

NoMask == 0           \* ns_pri_mask when nothing is stashed

ASSUME PrioritiesAssumption ==
    /\ SdeiPris \cup {SpPri} \subseteq 1..(HighestNs - 1)
    /\ \A p \in SdeiPris : SpPri < p
    /\ HighestNs \in Nat /\ IdlePri \in Nat
    /\ NsMasks \subseteq HighestNs..(IdlePri - 1)

VARIABLES pe,       \* pe_exc_data_t, the GIC CPU interface, and whether EL3 stopped
          stack,    \* delegations in progress, oldest first
          ns_mask   \* the mask the normal world last programmed

ehf_vars == <<pe, stack, ns_mask>>

Pris == SdeiPris \cup {SpPri}

IS_PRI_SECURE(p) == p < HighestNs

\* plat_ic_get_running_priority()
RunPri(s) == Min(s.run \cup {IdlePri})

Panic(s) == [s EXCEPT !.stop = "panic"]
AssertFails(s) == [s EXCEPT !.stop = "assert"]

ehf_activate_priority(s, p) ==
    IF s.stop # "no" THEN s
    ELSE IF \/ p >= RunPri(s)
            \/ s.active_pri_bits # {} /\ p >= Min(s.active_pri_bits)
            \/ p >= s.pmr
    THEN Panic(s)
    ELSE [s EXCEPT !.active_pri_bits = @ \cup {p},
                   !.pmr = p,
                   !.init_pri_mask = IF s.active_pri_bits = {} THEN s.pmr ELSE @]

\* A deactivation that always restores the mask stashed by the first activation.
FaultyDeactivate(s, p) ==
    IF p \notin s.active_pri_bits THEN Panic(s)
    ELSE [s EXCEPT !.active_pri_bits = @ \ {p}, !.pmr = s.init_pri_mask]

ehf_deactivate_priority(s, p) ==
    LET left == s.active_pri_bits \ {p}
    IN IF s.stop # "no" THEN s
       ELSE IF \/ p >= RunPri(s)
               \/ s.active_pri_bits = {} \/ p # Min(s.active_pri_bits)
               \/ s.pmr > p
       THEN Panic(s)
       ELSE [s EXCEPT !.active_pri_bits = left,
                      !.pmr = IF left = {} THEN s.init_pri_mask ELSE p]

\* An exit from the normal world that stashes the mask but does not raise it.
FaultyExited(s) ==
    IF IS_PRI_SECURE(RunPri(s)) \/ s.active_pri_bits # {} THEN s
    ELSE [s EXCEPT !.ns_pri_mask = s.pmr]

ehf_exited_normal_world(s) ==
    IF s.stop # "no" \/ IS_PRI_SECURE(RunPri(s)) \/ s.active_pri_bits # {} THEN s
    ELSE IF s.ns_pri_mask # NoMask THEN AssertFails(s)
    ELSE IF IS_PRI_SECURE(s.pmr) THEN Panic(s)
    ELSE [s EXCEPT !.ns_pri_mask = s.pmr, !.pmr = HighestNs]

\* An entry into the normal world that keeps the stash.
FaultyEntering(s) ==
    IF IS_PRI_SECURE(RunPri(s)) \/ s.active_pri_bits # {} \/ s.ns_pri_mask = NoMask
    THEN s ELSE [s EXCEPT !.pmr = s.ns_pri_mask]

ehf_entering_normal_world(s) ==
    IF \/ s.stop # "no"
       \/ IS_PRI_SECURE(RunPri(s)) \/ s.active_pri_bits # {}
       \/ s.ns_pri_mask = NoMask
    THEN s
    ELSE IF s.pmr \notin {HighestNs, s.ns_pri_mask} THEN Panic(s)
    ELSE [s EXCEPT !.pmr = s.ns_pri_mask, !.ns_pri_mask = NoMask]

ehf_allow_ns_preemption(s) ==
    IF s.stop # "no" THEN s
    ELSE IF s.ns_pri_mask = NoMask THEN AssertFails(s)
    ELSE IF s.active_pri_bits # {} THEN Panic(s)
    ELSE [s EXCEPT !.pmr = s.ns_pri_mask, !.ns_pri_mask = NoMask]

ehf_is_ns_preemption_allowed(s) ==
    /\ ~IS_PRI_SECURE(RunPri(s))
    /\ s.active_pri_bits = {}
    /\ s.ns_pri_mask = NoMask

----------------------------------------------------------------------------
SecureKinds == {"fast", "yield", "mm"}
NoFrame == [kind |-> "ns", pri |-> IdlePri]
Top == IF stack = <<>> THEN NoFrame ELSE stack[Len(stack)]
Rest == SubSeq(stack, 1, Len(stack) - 1)   \* the delegations below the top one
Frame(k, p) == [kind |-> k, pri |-> p]
InSecure == Top.kind \in SecureKinds

\* The SDEI dispatches in progress.
Dispatches == {i \in DOMAIN stack : stack[i].kind \in {"interrupt", "explicit"}}

Init ==
    /\ ns_mask \in NsMasks
    /\ pe = [active_pri_bits |-> {}, init_pri_mask |-> NoMask,
             ns_pri_mask |-> NoMask, pmr |-> ns_mask, run |-> {}, stop |-> "no"]
    /\ stack = <<>>

\* The normal world programs its priority mask.
NsWritesMask(m) ==
    /\ stack = <<>> /\ pe.pmr >= HighestNs
    /\ ns_mask' = m /\ pe' = [pe EXCEPT !.pmr = m]
    /\ UNCHANGED stack

\* A dispatcher forwards a fast SMC: cm_el1_sysregs_context_save(NON_SECURE).
FastSmc ==
    /\ stack = <<>>
    /\ pe' = ehf_exited_normal_world(pe)
    /\ stack' = Append(stack, Frame("fast", IdlePri))
    /\ UNCHANGED ns_mask

\* A dispatcher forwards a yielding SMC, or resumes a preempted one.
YieldSmc ==
    /\ stack = <<>>
    /\ pe' = ehf_allow_ns_preemption(ehf_exited_normal_world(pe))
    /\ stack' = Append(stack, Frame("yield", IdlePri))
    /\ UNCHANGED ns_mask

\* The secure payload returns, or a non-secure interrupt preempts a yielding
\* call: cm_el1_sysregs_context_restore(NON_SECURE).
SecureReturns ==
    /\ Top.kind \in {"fast", "yield"}
    /\ pe' = ehf_entering_normal_world(pe)
    /\ stack' = Rest
    /\ UNCHANGED ns_mask

mm_communicate ==
    /\ ~InSecure /\ \A i \in DOMAIN stack : stack[i].kind \notin SecureKinds
    /\ pe' = ehf_exited_normal_world(ehf_activate_priority(pe, SpPri))
    /\ stack' = Append(stack, Frame("mm", SpPri))
    /\ UNCHANGED ns_mask

mm_communicate_returns ==
    /\ Top.kind = "mm"
    /\ pe' = ehf_deactivate_priority(ehf_entering_normal_world(pe), SpPri)
    /\ stack' = Rest
    /\ UNCHANGED ns_mask

\* ehf_el3_interrupt_handler acknowledges an SDEI interrupt that the GIC
\* signals; sdei_intr_handler delegates it to the normal world.
ehf_el3_interrupt_handler(p) ==
    /\ p < pe.pmr /\ p < RunPri(pe)
    /\ LET s == [pe EXCEPT !.run = @ \cup {p}]
           outstanding == {stack[i].pri : i \in Dispatches}
       IN pe' = IF \E q \in outstanding : q <= p THEN AssertFails(s)
                ELSE IF InSecure THEN ehf_entering_normal_world(s) ELSE s
    /\ stack' = Append(stack, Frame("interrupt", p))
    /\ UNCHANGED ns_mask

\* The client completes an event dispatched by an interrupt, which is EOIed.
InterruptDispatchCompletes ==
    /\ Top.kind = "interrupt"
    /\ pe' = [pe EXCEPT !.run = @ \ {Top.pri}]
    /\ stack' = Rest
    /\ UNCHANGED ns_mask

\* An exception makes EL3 dispatch an event explicitly.  The dispatch has
\* sufficient priority, as sdei_dispatch_event() demands of its caller.  A
\* Secure call that the exception interrupted is not resumed.
sdei_dispatch_event(p) ==
    /\ \A i \in Dispatches : p < stack[i].pri
    /\ \A q \in pe.active_pri_bits : p < q
    /\ pe' = ehf_activate_priority(ehf_entering_normal_world(pe), p)
    /\ stack' = Append(IF InSecure THEN Rest ELSE stack, Frame("explicit", p))
    /\ UNCHANGED ns_mask

ExplicitDispatchCompletes ==
    /\ Top.kind = "explicit"
    /\ pe' = ehf_deactivate_priority(pe, Top.pri)
    /\ stack' = Rest
    /\ UNCHANGED ns_mask

Dispatch == \E p \in SdeiPris :
    \/ ehf_el3_interrupt_handler(p)
    \/ sdei_dispatch_event(p)

Next ==
    /\ pe.stop = "no"
    /\ \/ \E m \in NsMasks : NsWritesMask(m)
       \/ FastSmc \/ YieldSmc \/ SecureReturns
       \/ mm_communicate \/ mm_communicate_returns
       \/ Dispatch
       \/ InterruptDispatchCompletes \/ ExplicitDispatchCompletes

Spec == Init /\ [][Next]_ehf_vars

----------------------------------------------------------------------------
Masks == NsMasks \cup Pris \cup {HighestNs}

\* Type invariant of the per-PE data (include/bl31/ehf.h) and the frames.
TypeOK ==
    /\ pe \in [active_pri_bits : SUBSET Pris, init_pri_mask : Masks \cup {NoMask},
               ns_pri_mask : NsMasks \cup {NoMask}, pmr : Masks,
               run : SUBSET SdeiPris, stop : {"no", "panic", "assert"}]
    /\ \A i \in DOMAIN stack :
           stack[i] \in [kind : SecureKinds \cup {"interrupt", "explicit"}, pri : Pris \cup {IdlePri}]
    /\ ns_mask \in NsMasks

\* While an exception is delegated at an activated priority, no interrupt of
\* that or a lower priority can be taken: the priority mask that
\* ehf_activate_priority programs stays in force, also after a nested
\* activation ended, and the activations are those of the frames.
NoLowerPriorityPreempts ==
    pe.stop = "no" =>
        /\ pe.active_pri_bits =
               {stack[i].pri : i \in {j \in DOMAIN stack : stack[j].kind \in {"explicit", "mm"}}}
        /\ \A p \in pe.active_pri_bits : pe.pmr <= p

\* When the last delegation has ended, the normal world has its own mask back
\* and nothing stays stashed or active, whatever mix of Secure calls,
\* interrupts and nested dispatches ran in between; and on the way no assertion
\* of ehf.c on the stashed mask (lines 245 and 336), nor one of sdei_intr_handler
\* on the outstanding dispatch, fails.
NsMaskRestored ==
    /\ pe.stop # "assert"
    /\ pe.stop = "no" /\ stack = <<>> =>
        /\ pe.pmr = ns_mask /\ pe.ns_pri_mask = NoMask
        /\ pe.active_pri_bits = {} /\ pe.run = {}

\* Non-secure interrupts cannot preempt Secure execution unless it serves a
\* yielding SMC, and then under the mask of the normal world; and
\* ehf_is_ns_preemption_allowed says so.
SecureNotPreempted ==
    pe.stop = "no" /\ InSecure =>
        /\ Top.kind = "yield" => pe.pmr = ns_mask
        /\ Top.kind # "yield" => pe.pmr <= HighestNs
        /\ ehf_is_ns_preemption_allowed(pe) <=> (Top.kind = "yield")

=============================================================================
