----------------------------- MODULE BaikalHold -----------------------------
(***************************************************************************)
(* How the Baikal ports start a secondary core: pwr_domain_on of BM1000    *)
(* and BS1000 as psci_cpu_on_start calls it, the reset controller of one   *)
(* cluster, and the path of the started core through the reset vector of   *)
(* BL1 and the holding pen to the warm boot entry point of BL31.           *)
(*                                                                         *)
(* The reset bits of all the cores of a cluster are one register, which    *)
(* is read and written in separate steps.  psci_cpu_on_start holds a lock  *)
(* of the target core only, so Callers that start different cores of the   *)
(* cluster are not ordered, and a write may undo what another caller has   *)
(* written since the read.  A history variable, clash, tells when two      *)
(* callers have held copies of the register at the same time.              *)
(***************************************************************************)
EXTENDS FiniteSets

CONSTANTS Cores,     \* the cores of a cluster, all of them secondaries
          Callers,   \* running CPUs of other clusters
          Boards     \* the ports and set-ups to be looked at: soc is "BM1000"
                     \* or "BS1000"; released: the cores left reset with the
                     \* SoC and reached the pen; pll_fails: cmu_pll_enable may
                     \* fail (BM1000)

None == "none"
L2 == "L2"           \* the cluster's own reset bits

ASSUME PortAssumption ==
    /\ Boards \subseteq [soc : {"BM1000", "BS1000"}, released : BOOLEAN, pll_fails : BOOLEAN]
    /\ None \notin Cores \cup Callers /\ L2 \notin Cores

VARIABLES board,    \* the one of Boards that runs
          rst,      \* the asserted bits of the cluster's reset register
          mailbox,  \* the entry point of BL31 has been written
          hold,     \* the cores whose hold entry is BAIKAL_HOLD_STATE_GO
          event,    \* the cores whose event register is set
          core,     \* what each core executes
          aff,      \* aff_info_state of each core
          call,     \* where each caller is in CPU_ON, its target and local reg
          clash     \* history: two callers had read and not yet written the register

vars == <<board, rst, mailbox, hold, event, core, aff, call, clash>>

Idle == [pc |-> "idle", target |-> None, reg |-> {}]

TypeOK ==
    /\ rst \subseteq Cores \cup {L2} /\ hold \subseteq Cores /\ event \subseteq Cores
    /\ board \in Boards /\ mailbox \in BOOLEAN /\ clash \in BOOLEAN
    /\ core \in [Cores -> {"reset", "vector", "poll", "wfe", "bl31", "lost", "dying", "wfi"}]
    /\ aff \in [Cores -> {"OFF", "ON_PENDING", "ON"}]
    /\ \A p \in Callers : call[p].target \in Cores \cup {None} /\ call[p].reg \subseteq Cores \cup {L2}

Init ==
    /\ board \in Boards
    /\ rst = IF board.released THEN {} ELSE IF board.soc = "BM1000" THEN Cores \cup {L2} ELSE Cores
    /\ mailbox = FALSE /\ hold = {} /\ event = {}
    /\ core = [c \in Cores |-> IF board.released THEN "poll" ELSE "reset"]
    /\ aff = [c \in Cores |-> "OFF"]
    /\ call = [p \in Callers |-> Idle] /\ clash = FALSE

\* The primary CPU announces the warm boot entry point before PSCI is served.
plat_setup_psci_ops ==
    /\ ~mailbox
    /\ mailbox' = TRUE
    /\ UNCHANGED <<board, rst, hold, event, core, aff, call, clash>>

----------------------------------------------------------------------------
(* The started core.                                                       *)

\* BL1's entry point: a non-zero mailbox is a warm boot.
ResetVector(c) ==
    /\ core[c] = "vector"
    /\ core' = [core EXCEPT ![c] = IF mailbox THEN "bl31" ELSE "poll"]
    /\ UNCHANGED <<board, rst, mailbox, hold, event, aff, call, clash>>

\* A pen that does not look at the hold entry.
FaultyPoll(c) ==
    /\ core[c] = "poll"
    /\ core' = [core EXCEPT ![c] = IF mailbox THEN "bl31" ELSE "wfe"]
    /\ UNCHANGED <<board, rst, mailbox, hold, event, aff, call, clash>>

poll_mailbox(c) ==
    /\ core[c] = "poll"
    /\ core' = [core EXCEPT ![c] = CASE c \notin hold -> "wfe"
                                     [] c \in hold /\ mailbox -> "bl31"
                                     [] OTHER -> "lost"]
    /\ UNCHANGED <<board, rst, mailbox, hold, event, aff, call, clash>>

Wfe(c) ==
    /\ core[c] = "wfe" /\ c \in event
    /\ core' = [core EXCEPT ![c] = "poll"]
    /\ event' = event \ {c}
    /\ UNCHANGED <<board, rst, mailbox, hold, aff, call, clash>>

LockFree(c) == \A p \in Callers : call[p].target # c

\* psci_cpu_on_finish, which waits for the caller to drop the target's lock.
psci_cpu_on_finish(c) ==
    /\ core[c] = "bl31" /\ aff[c] = "ON_PENDING" /\ LockFree(c)
    /\ aff' = [aff EXCEPT ![c] = "ON"]
    /\ UNCHANGED <<board, rst, mailbox, hold, event, core, call, clash>>

\* CPU_OFF: the state is OFF before the core executes its last wfi.
psci_do_cpu_off(c) ==
    /\ core[c] = "bl31" /\ aff[c] = "ON"
    /\ core' = [core EXCEPT ![c] = "dying"]
    /\ aff' = [aff EXCEPT ![c] = "OFF"]
    /\ UNCHANGED <<board, rst, mailbox, hold, event, call, clash>>

psci_power_down_wfi(c) ==
    /\ core[c] = "dying"
    /\ core' = [core EXCEPT ![c] = "wfi"]
    /\ UNCHANGED <<board, rst, mailbox, hold, event, aff, call, clash>>

----------------------------------------------------------------------------
(* The caller of CPU_ON.                                                   *)

\* A write of the reset register stops the cores whose bits it sets and starts
\* at the reset vector those whose bits it clears.
mmio_write_32(val) ==
    /\ rst' = val
    /\ core' = [c \in Cores |-> CASE c \in val -> "reset"
                                  [] c \in rst \ val -> "vector"
                                  [] OTHER -> core[c]]

\* The places at which a caller has a copy of the register still to be written.
HasCopy(p) == call[p].pc \in {"enabled", "asserted", "deasserted", "reset", "cluster", "core"}

Goto(p, pc) == call' = [call EXCEPT ![p].pc = pc] /\ UNCHANGED clash

\* mmio_read_32, and what is made of the value in the local copy.
GotoReg(p, pc, reg) ==
    /\ call' = [call EXCEPT ![p].pc = pc, ![p].reg = reg]
    /\ clash' = (clash \/ \E q \in Callers \ {p} : HasCopy(q))

psci_cpu_on_start(p, c) ==
    /\ mailbox /\ call[p].pc = "idle" /\ LockFree(c) /\ aff[c] = "OFF"
    /\ aff' = [aff EXCEPT ![c] = "ON_PENDING"]
    /\ call' = [call EXCEPT ![p] = [pc |-> "on", target |-> c, reg |-> {}]]
    /\ UNCHANGED <<board, rst, mailbox, hold, event, core, clash>>

\* A pwr_domain_on of BS1000 that treats every start as a cold boot.
FaultyOnBs(p) ==
    /\ board.soc = "BS1000" /\ call[p].pc = "on"
    /\ Goto(p, "enable")
    /\ UNCHANGED <<board, rst, mailbox, hold, event, core, aff>>

bs1000_pwr_domain_on(p) ==
    /\ board.soc = "BS1000" /\ call[p].pc = "on"
    /\ Goto(p, IF call[p].target \in hold THEN "warm" ELSE "enable")
    /\ UNCHANGED <<board, rst, mailbox, hold, event, core, aff>>

\* mmio_clrbits_32 of ca75_core_enable: the read, and the write of what was read.
ca75_core_enable(p) ==
    /\ \/ call[p].pc = "enable" /\ GotoReg(p, "enabled", rst) /\ UNCHANGED <<rst, core>>
       \/ call[p].pc = "enabled" /\ Goto(p, "go") /\ mmio_write_32(call[p].reg \ {call[p].target})
    /\ UNCHANGED <<board, mailbox, hold, event, aff>>

\* A warm reset that reads the register once for both of its writes.
FaultyWarmReset(p) ==
    LET c == call[p].target IN
    /\ \/ call[p].pc = "warm" /\ core[c] = "wfi" /\ Goto(p, "assert") /\ UNCHANGED <<rst, core>>
       \/ call[p].pc = "assert" /\ GotoReg(p, "asserted", rst) /\ UNCHANGED <<rst, core>>
       \/ call[p].pc = "asserted" /\ Goto(p, "deassert") /\ mmio_write_32(call[p].reg \cup {c})
       \/ call[p].pc = "deassert" /\ Goto(p, "return") /\ mmio_write_32(call[p].reg \ {c})
    /\ UNCHANGED <<board, mailbox, hold, event, aff>>

\* ca75_core_warm_reset: the power controller accepts once the core is in wfi;
\* then the reset bit is set and cleared, each by a read and a write.
ca75_core_warm_reset(p) ==
    LET c == call[p].target IN
    /\ \/ call[p].pc = "warm" /\ core[c] = "wfi" /\ Goto(p, "assert") /\ UNCHANGED <<rst, core>>
       \/ call[p].pc = "assert" /\ GotoReg(p, "asserted", rst) /\ UNCHANGED <<rst, core>>
       \/ call[p].pc = "asserted" /\ Goto(p, "deassert") /\ mmio_write_32(call[p].reg \cup {c})
       \/ call[p].pc = "deassert" /\ GotoReg(p, "deasserted", rst) /\ UNCHANGED <<rst, core>>
       \/ call[p].pc = "deasserted" /\ Goto(p, "return") /\ mmio_write_32(call[p].reg \ {c})
    /\ UNCHANGED <<board, mailbox, hold, event, aff>>

\* The hold entry of the target is GO; on BM1000 the core is enabled after that.
HoldGo(p) ==
    /\ call[p].pc = "go"
    /\ hold' = hold \cup {call[p].target}
    /\ Goto(p, IF board.soc = "BM1000" THEN "cold" ELSE "sev")
    /\ UNCHANGED <<board, rst, mailbox, event, core, aff>>

\* The event stays with the caller on BM1000 (the comment in its pwr_domain_on),
\* so that it makes no difference there that a warm boot signals none.
sev(p) ==
    /\ call[p].pc = "sev"
    /\ event' = IF board.soc = "BM1000" THEN event ELSE Cores
    /\ Goto(p, "return")
    /\ UNCHANGED <<board, rst, mailbox, hold, core, aff>>

bm1000_pwr_domain_on(p) ==
    /\ board.soc = "BM1000" /\ call[p].pc = "on"
    /\ Goto(p, IF call[p].target \in hold THEN "cold" ELSE "go")
    /\ UNCHANGED <<board, rst, mailbox, hold, event, core, aff>>

\* mmca57_enable_core: one read of the register and three writes of the copy.
\* When the PLL of the cluster does not start, nothing is done.
mmca57_enable_core(p) ==
    LET c == call[p].target IN
    /\ board.soc = "BM1000"
    /\ \/ call[p].pc = "cold" /\ board.pll_fails /\ Goto(p, "sev") /\ UNCHANGED <<rst, core>>
       \/ call[p].pc = "cold" /\ GotoReg(p, "reset", rst \cup {c}) /\ UNCHANGED <<rst, core>>
       \/ call[p].pc = "reset" /\ Goto(p, "cluster") /\ mmio_write_32(call[p].reg)
       \/ call[p].pc = "cluster" /\ GotoReg(p, "core", call[p].reg \ {L2})
                                 /\ mmio_write_32(call[p].reg \ {L2})
       \/ call[p].pc = "core" /\ Goto(p, "sev") /\ mmio_write_32(call[p].reg \ {c})
    /\ UNCHANGED <<board, mailbox, hold, event, aff>>

\* PSCI_E_SUCCESS on every path; the target's lock is released.
Return(p) ==
    /\ call[p].pc = "return"
    /\ call' = [call EXCEPT ![p] = Idle]
    /\ UNCHANGED <<board, rst, mailbox, hold, event, core, aff, clash>>

CoreStep(c) ==
    ResetVector(c) \/ poll_mailbox(c) \/ Wfe(c) \/ psci_cpu_on_finish(c) \/ psci_power_down_wfi(c)

CallStep(p) ==
    \/ bs1000_pwr_domain_on(p) \/ ca75_core_enable(p) \/ ca75_core_warm_reset(p)
    \/ bm1000_pwr_domain_on(p) \/ mmca57_enable_core(p)
    \/ HoldGo(p) \/ sev(p) \/ Return(p)

Next ==
    \/ plat_setup_psci_ops
    \/ \E c \in Cores : CoreStep(c) \/ psci_do_cpu_off(c)
    \/ \E p \in Callers : CallStep(p) \/ \E c \in Cores : psci_cpu_on_start(p, c)

Spec == Init /\ [][Next]_vars

\* Running code of a core and of a caller at EL3 is not stopped by anything;
\* nobody is obliged to turn a core on or off.
FairSpec ==
    /\ Spec
    /\ \A c \in Cores : WF_vars(CoreStep(c))
    /\ \A p \in Callers : WF_vars(CallStep(p))

----------------------------------------------------------------------------
\* A core is in BL31 only because a CPU_ON asked for it, and it gets there
\* through a mailbox that has been written (the assertion in
\* psci_cpu_on_finish): events meant for other cores leave it in the pen.  (Two
\* stale writes of the reset register can reset and start a core that is off.)
ExplicitlyWoken ==
    \A c \in Cores : /\ core[c] = "bl31" /\ ~clash => aff[c] # "OFF"
                     /\ core[c] # "lost"

\* Callers that start the cores of a cluster at the same time do not disturb
\* each other as long as no two of them have copies of its reset register
\* (mmio_clrbits_32, mmio_setbits_32, reg of mmca57_enable_core) at once, however
\* their calls interleave otherwise: the reset bit of a core is changed only by
\* the call that starts it, and no write deasserts resets of the cluster and of a
\* core at the same time (which mmca57_enable_core calls prohibited).
ResetsAreSafe ==
    [][~clash' =>
         /\ \A c \in Cores : (c \in rst) # (c \in rst') =>
                \E p \in Callers : call[p].target = c /\ call'[p] # call[p]
         /\ ~(L2 \in rst \ rst' /\ (rst \ rst') \cap Cores # {})]_vars

\* A core for which CPU_ON reported success comes up: it is not left in reset
\* and does not miss the event in the pen, as long as the PLL starts (the failure
\* of cmu_pll_enable is not reported to CPU_ON) and no update of the reset
\* register may have been lost.
ComesUp == \A c \in Cores :
             aff[c] = "ON_PENDING" /\ ~board.pll_fails ~> aff[c] = "ON" \/ clash
=============================================================================
