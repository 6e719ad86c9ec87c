------------------------------- MODULE Sdei -------------------------------
(***************************************************************************)
(* The Software Delegated Exception Interface (services/std_svc/sdei):     *)
(* event maps that are bound to interrupts, registered, enabled and        *)
(* dispatched to the normal world, called by several PEs at once.          *)
(*                                                                         *)
(* A critical section under a map's lock is one step.  What the code does  *)
(* outside it is a step of its own: the lookup of SDEI_INTERRUPT_BIND, the *)
(* lookup of an acknowledged interrupt, the set-up of a dispatch after the *)
(* unlock, and the end of interrupt after the dispatch.  A call that is    *)
(* refused changes nothing, so only the accepted calls are actions.        *)
(***************************************************************************)
EXTENDS Integers, Sequences, FiniteSets, SequencesExt

CONSTANTS PEs,
          SharedMaps, PrivateMaps,   \* the mapping arrays, in the order they are searched
          CriticalMaps, ExplicitMaps,
          PlatformIntr,              \* the interrupt of each map the platform binds
          SPIs, PPIs,
          Clients,                   \* the clients to be looked at: the PEs that run
                                     \* one, the events and interrupts it uses, and the
                                     \* calls it makes; other PEs are off
          MaxReg                     \* bound on reg_count

VARIABLES client,                    \* the one of Clients that runs
          intr, bound, reg_count,    \* sdei_ev_map_t
          se,                        \* sdei_entry_t, per PE for a private map
          gic, route,                \* the interrupt controller
          pe_masked, pending_enables, dispatch_stack,
          pc, loc,                   \* the EL3 code a PE is in, and its locals
          on, stop

map == <<intr, bound, reg_count>>
pe == <<pe_masked, pending_enables, dispatch_stack, on>>
vars == <<client, map, se, gic, route, pe, pc, loc, stop>>

SharedSet == ToSet(SharedMaps)
PrivateSet == ToSet(PrivateMaps)
Maps == SharedSet \cup PrivateSet
PlatformMaps == DOMAIN PlatformIntr
DynamicMaps == Maps \ (ExplicitMaps \cup PlatformMaps)
Intrs == SPIs \cup PPIs
SDEI_DYN_IRQ == "dyn"
None == "none"
All == "all"         \* the one copy of a shared entry, or of an SPI
Keys == PEs \cup {All}

\* What sdei_class_init asserts of the platform's mapping arrays.
ASSUME MapsAssumption ==
    /\ ExplicitMaps \subseteq PrivateSet \ PlatformMaps
    /\ DynamicMaps \cap CriticalMaps = {}
    /\ \A m \in PlatformMaps : PlatformIntr[m] \in IF m \in PrivateSet THEN PPIs ELSE SPIs

is_event_private(m) == m \in PrivateSet
Class(m) == IF m \in CriticalMaps THEN "critical" ELSE "normal"
Key(m, c) == IF is_event_private(m) THEN c ELSE All
IKey(i, c) == IF i \in PPIs THEN c ELSE All
Entry(m, c) == se[m][Key(m, c)]

\* The first map with this interrupt.  The interrupt of an explicit map is
\* SDEI_DYN_IRQ, like that of a dynamic map that is free.
find_event_map_by_intr(i, shared) ==
    LET ms == IF shared THEN SharedMaps ELSE PrivateMaps
        hits == {n \in DOMAIN ms : intr[ms[n]] = i}
    IN IF hits = {} THEN None ELSE ms[CHOOSE n \in hits : \A k \in hits : n <= k]

\* A table in which unregistering ends the running state and not the enabled one.
FaultyTrans(s, act) ==
    CASE act = "REGISTER"   -> IF s \subseteq {"RUNNING"} THEN s \cup {"REGISTERED"} ELSE {None}
      [] act = "UNREGISTER" -> IF "REGISTERED" \in s THEN s \ {"REGISTERED", "RUNNING"} ELSE {None}
      [] act = "RELEASE"    -> IF "REGISTERED" \notin s THEN s ELSE {None}
      [] act = "ROUTING"    -> IF s = {"REGISTERED"} THEN s ELSE {None}
      [] act = "ENABLE"     -> IF "REGISTERED" \in s THEN s \cup {"ENABLED"} ELSE {None}
      [] act = "DISABLE"    -> IF "REGISTERED" \in s THEN s \ {"ENABLED"} ELSE {None}
      [] act = "COMPLETE"   -> IF "RUNNING" \in s THEN s \ {"RUNNING"} ELSE {None}
      [] act = "DISPATCH"   -> IF "ENABLED" \in s THEN s \cup {"RUNNING"} ELSE {None}

\* sdei_state_table: the state after an action, or {None}.
can_sdei_state_trans(s, act) ==
    CASE act = "REGISTER"   -> IF s = {} THEN {"REGISTERED"} ELSE {None}
      [] act = "RELEASE"    -> IF s = {} THEN s ELSE {None}
      [] act = "ENABLE"     -> IF "REGISTERED" \in s THEN s \cup {"ENABLED"} ELSE {None}
      [] act = "DISABLE"    -> IF "REGISTERED" \in s THEN s \ {"ENABLED"} ELSE {None}
      [] act = "UNREGISTER" -> IF "REGISTERED" \in s THEN s \cap {"RUNNING"} ELSE {None}
      [] act = "ROUTING"    -> IF s = {"REGISTERED"} THEN s ELSE {None}
      [] act = "COMPLETE"   -> IF "RUNNING" \in s THEN s \ {"RUNNING"} ELSE {None}
      [] act = "DISPATCH"   -> IF s = {"REGISTERED", "ENABLED"} THEN s \cup {"RUNNING"} ELSE {None}

Allowed(m, c, act) == can_sdei_state_trans(Entry(m, c).state, act) # {None}
After(m, c, act) == can_sdei_state_trans(Entry(m, c).state, act)

\* clear_event_entries keeps the state.
Cleared(state) == [state |-> state, ep |-> FALSE, target |-> "any"]
SetEntry(m, c, e) == se' = [se EXCEPT ![m][Key(m, c)] = e]
SetState(m, c, act) == se' = [se EXCEPT ![m][Key(m, c)].state = After(m, c, act)]
SetIntr(i, c, r) == gic' = [gic EXCEPT ![i][IKey(i, c)] = r]
Intr(i, c) == gic[i][IKey(i, c)]

\* The assertion of the code holds, or the PE stops there.
AssertThat(ok, where) == stop' = IF ok THEN stop ELSE where

Init ==
    /\ client \in Clients
    /\ intr = [m \in Maps |-> IF m \in PlatformMaps THEN PlatformIntr[m] ELSE SDEI_DYN_IRQ]
    /\ bound = [m \in Maps |-> m \in PlatformMaps]
    /\ reg_count = [m \in Maps |-> 0]
    /\ se = [m \in Maps |-> [k \in Keys |-> Cleared({})]]
    /\ gic = [i \in Intrs |-> [k \in Keys |->
                 [owner |-> "NS", enabled |-> FALSE, pending |-> FALSE, active |-> FALSE]]]
    /\ route = [i \in SPIs |-> "any"]
    /\ pe_masked = [c \in PEs |-> TRUE] /\ pending_enables = [c \in PEs |-> FALSE]
    /\ dispatch_stack = [c \in PEs |-> <<>>] /\ on = [c \in PEs |-> c \in client.pes]
    /\ pc = [c \in PEs |-> "ns"] /\ loc = [c \in PEs |-> None]
    /\ stop = "no"

\* The normal world runs on c (in an SDEI handler, when there are dispatches).
NsRuns(c) == on[c] /\ pc[c] = "ns"
Go(c, where, l) == pc' = [pc EXCEPT ![c] = where] /\ loc' = [loc EXCEPT ![c] = l]
Back(c) == Go(c, "ns", None)

----------------------------------------------------------------------------
(* Calls of the client.                                                    *)

sdei_event_register(c, m, target) ==
    /\ "register" \in client.calls /\ NsRuns(c) /\ reg_count[m] < MaxReg
    /\ is_event_private(m) => target = c
    /\ Allowed(m, c, "REGISTER")
    /\ m \in DynamicMaps => bound[m]
    /\ bound[m] => ~Intr(intr[m], c).active /\ Intr(intr[m], c).owner = "NS"
    /\ AssertThat(is_event_private(m) \/ reg_count[m] = 0, "register")
    /\ IF bound[m]
       THEN /\ SetIntr(intr[m], c, [owner |-> Class(m), enabled |-> FALSE,
                                    pending |-> FALSE, active |-> FALSE])
            /\ route' = IF is_event_private(m) THEN route ELSE [route EXCEPT ![intr[m]] = target]
       ELSE UNCHANGED <<gic, route>>
    /\ SetEntry(m, c, [state |-> After(m, c, "REGISTER"), ep |-> TRUE, target |-> target])
    /\ reg_count' = [reg_count EXCEPT ![m] = @ + 1]
    /\ UNCHANGED <<intr, bound, pe, pc, loc>>

\* An unregistration that leaves the interrupt with EL3.
FaultyUnregister(c, m) ==
    /\ "unregister" \in client.calls /\ NsRuns(c) /\ Allowed(m, c, "UNREGISTER")
    /\ reg_count' = [reg_count EXCEPT ![m] = @ - 1]
    /\ IF bound[m] THEN SetIntr(intr[m], c, [Intr(intr[m], c) EXCEPT !.enabled = FALSE])
       ELSE UNCHANGED gic
    /\ SetEntry(m, c, Cleared(After(m, c, "UNREGISTER")))
    /\ UNCHANGED <<intr, bound, route, pe, pc, loc, stop>>

sdei_event_unregister(c, m) ==
    /\ "unregister" \in client.calls /\ NsRuns(c)
    /\ Allowed(m, c, "UNREGISTER")
    /\ reg_count' = [reg_count EXCEPT ![m] = @ - 1]
    /\ AssertThat(/\ IF is_event_private(m) THEN reg_count[m] >= 1 ELSE reg_count[m] = 1
                  /\ bound[m] => Intr(intr[m], c).owner # "NS", "unregister")
    /\ IF bound[m]
       THEN SetIntr(intr[m], c, [Intr(intr[m], c) EXCEPT !.enabled = FALSE, !.pending = FALSE,
                                                         !.owner = "NS"])
       ELSE UNCHANGED gic
    /\ SetEntry(m, c, Cleared(After(m, c, "UNREGISTER")))
    /\ UNCHANGED <<intr, bound, route, pe, pc, loc>>

sdei_event_enable(c, m) ==
    /\ NsRuns(c) /\ Allowed(m, c, "ENABLE") /\ "ENABLED" \notin Entry(m, c).state
    /\ SetState(m, c, "ENABLE")
    /\ IF bound[m] THEN SetIntr(intr[m], c, [Intr(intr[m], c) EXCEPT !.enabled = TRUE])
       ELSE UNCHANGED gic
    /\ UNCHANGED <<map, route, pe, pc, loc, stop>>

sdei_event_disable(c, m) ==
    /\ NsRuns(c) /\ Allowed(m, c, "DISABLE") /\ "ENABLED" \in Entry(m, c).state
    /\ SetState(m, c, "DISABLE")
    /\ IF bound[m] THEN SetIntr(intr[m], c, [Intr(intr[m], c) EXCEPT !.enabled = FALSE])
       ELSE UNCHANGED gic
    /\ UNCHANGED <<map, route, pe, pc, loc, stop>>

\* Unlike sdei_event_register, it does not ask whether the interrupt is active.
sdei_event_routing_set(c, m, target) ==
    /\ "routing" \in client.calls /\ NsRuns(c) /\ ~is_event_private(m) /\ bound[m]
    /\ Allowed(m, c, "ROUTING")
    /\ SetEntry(m, c, [Entry(m, c) EXCEPT !.target = target])
    /\ route' = [route EXCEPT ![intr[m]] = target]
    /\ UNCHANGED <<map, gic, pe, pc, loc, stop>>

\* sdei_interrupt_bind: the lookups are made without a lock ...
sdei_interrupt_bind(c, i) ==
    /\ "bind" \in client.calls /\ NsRuns(c)
    /\ Go(c, "lookup", [map |-> None, intr |-> i])
    /\ UNCHANGED <<map, se, gic, route, pe, stop>>

BindLookup(c) ==
    /\ pc[c] = "lookup"
    /\ LET m == find_event_map_by_intr(loc[c].intr, loc[c].intr \in SPIs)
       IN IF m # None /\ (m \in DynamicMaps => bound[m]) THEN Back(c) ELSE Go(c, "slot", loc[c])
    /\ UNCHANGED <<map, se, gic, route, pe, stop>>

BindFindSlot(c) ==
    /\ pc[c] = "slot"
    /\ LET i == loc[c].intr
           free == find_event_map_by_intr(SDEI_DYN_IRQ, i \in SPIs)
       IN /\ AssertThat(free \in DynamicMaps \cup {None}, "bind")
          /\ IF free = None \/ Intr(i, c).owner # "NS"
             THEN Back(c) ELSE Go(c, "bind", [map |-> free, intr |-> i])
    /\ UNCHANGED <<map, se, gic, route, pe>>

\* ... and under the lock only the slot is looked at again.
BindLocked(c) ==
    /\ pc[c] = "bind"
    /\ LET m == loc[c].map
       IN IF bound[m]
          THEN Go(c, "lookup", loc[c]) /\ UNCHANGED <<intr, bound>>
          ELSE /\ intr' = [intr EXCEPT ![m] = loc[c].intr]
               /\ bound' = [bound EXCEPT ![m] = TRUE]
               /\ Back(c)
    /\ UNCHANGED <<reg_count, se, gic, route, pe, stop>>

\* A release that does not ask whether the interrupt is active.
FaultyRelease(c, m) ==
    /\ "release" \in client.calls /\ NsRuns(c) /\ m \in DynamicMaps
    /\ reg_count[m] = 0 /\ bound[m]
    /\ intr' = [intr EXCEPT ![m] = SDEI_DYN_IRQ] /\ bound' = [bound EXCEPT ![m] = FALSE]
    /\ UNCHANGED <<reg_count, se, gic, route, pe, pc, loc, stop>>

\* For a private map, the entry and the interrupt are those of the calling PE.
sdei_interrupt_release(c, m) ==
    /\ "release" \in client.calls /\ NsRuns(c) /\ m \in DynamicMaps
    /\ reg_count[m] = 0 /\ Allowed(m, c, "RELEASE")
    /\ bound[m] /\ ~Intr(intr[m], c).active
    /\ intr' = [intr EXCEPT ![m] = SDEI_DYN_IRQ]
    /\ bound' = [bound EXCEPT ![m] = FALSE]
    /\ UNCHANGED <<reg_count, se, gic, route, pe, pc, loc, stop>>

sdei_pe_mask(c) ==
    /\ "mask" \in client.calls /\ NsRuns(c) /\ ~pe_masked[c]
    /\ pe_masked' = [pe_masked EXCEPT ![c] = TRUE]
    /\ UNCHANGED <<map, se, gic, route, pending_enables, dispatch_stack, on, pc, loc, stop>>

\* An unmask that re-enables only the interrupts of private events.
FaultyUnmask(c) ==
    /\ NsRuns(c) /\ pe_masked[c]
    /\ pe_masked' = [pe_masked EXCEPT ![c] = FALSE]
    /\ pending_enables' = [pending_enables EXCEPT ![c] = FALSE]
    /\ UNCHANGED <<map, se, gic, route, dispatch_stack, on, pc, loc, stop>>

\* The events whose interrupts an unmasking PE enables again.
Reenabled(c) == {m \in Maps : /\ bound[m] /\ "ENABLED" \in Entry(m, c).state
                              /\ is_event_private(m) \/ Entry(m, c).target = c}

sdei_pe_unmask(c) ==
    /\ NsRuns(c) /\ pe_masked[c]
    /\ gic' = [i \in Intrs |-> [k \in Keys |->
                  IF pending_enables[c] /\ k = IKey(i, c) /\ \E m \in Reenabled(c) : intr[m] = i
                  THEN [gic[i][k] EXCEPT !.enabled = TRUE] ELSE gic[i][k]]]
    /\ pending_enables' = [pending_enables EXCEPT ![c] = FALSE]
    /\ pe_masked' = [pe_masked EXCEPT ![c] = FALSE]
    /\ UNCHANGED <<map, se, route, dispatch_stack, on, pc, loc, stop>>

\* psci_cpu_on_finish: sdei_cpu_on_init, after the platform has initialised
\* the interrupts that are private to this PE.
sdei_cpu_on_init(c) ==
    /\ c \in client.pes /\ ~on[c] /\ on' = [on EXCEPT ![c] = TRUE]
    /\ se' = [m \in Maps |-> IF is_event_private(m) THEN [se[m] EXCEPT ![c] = Cleared({})] ELSE se[m]]
    /\ gic' = [i \in Intrs |-> IF i \in PPIs
                  THEN [gic[i] EXCEPT ![c] = [owner |-> "NS", enabled |-> FALSE,
                                              pending |-> FALSE, active |-> FALSE]]
                  ELSE gic[i]]
    /\ pe_masked' = [pe_masked EXCEPT ![c] = TRUE]
    /\ UNCHANGED <<map, route, pending_enables, dispatch_stack, pc, loc, stop>>

\* psci_suspend_pwrdown_finish: sdei_cpu_wakeup_init only masks, which is
\* sdei_pe_mask.  The client turns a PE off outside its handlers.
CpuOff(c) ==
    /\ "power" \in client.calls /\ NsRuns(c) /\ dispatch_stack[c] = <<>>
    /\ on' = [on EXCEPT ![c] = FALSE]
    /\ UNCHANGED <<map, se, gic, route, pe_masked, pending_enables, dispatch_stack, pc, loc, stop>>

----------------------------------------------------------------------------
(* Interrupts and dispatch.                                                *)

Trigger(i, c) ==
    /\ Intr(i, c).owner # "NS" /\ ~Intr(i, c).pending
    /\ SetIntr(i, c, [Intr(i, c) EXCEPT !.pending = TRUE])
    /\ UNCHANGED <<map, se, route, pe, pc, loc, stop>>

Outstanding(c) == {dispatch_stack[c][n].class : n \in DOMAIN dispatch_stack[c]}

\* The interrupt controller signals an interrupt above the running priority.
Signalled(i, c) ==
    LET r == Intr(i, c)
    IN /\ r.owner # "NS" /\ r.enabled /\ r.pending /\ ~r.active
       /\ i \in SPIs => route[i] \in {"any", c}
       /\ IF r.owner = "normal" THEN Outstanding(c) = {} ELSE "critical" \notin Outstanding(c)

\* sdei_intr_handler, up to the lookup of the map, which takes no lock.
Acknowledge(c, i) ==
    /\ NsRuns(c) /\ Signalled(i, c)
    /\ SetIntr(i, c, [Intr(i, c) EXCEPT !.pending = FALSE, !.active = TRUE])
    /\ LET m == find_event_map_by_intr(i, i \in SPIs)
       IN /\ AssertThat(m # None /\ bound[m], "panic: no SDEI map")
          /\ Go(c, "acked", [map |-> m, intr |-> i, class |-> Intr(i, c).owner])
    /\ UNCHANGED <<map, se, route, pe>>

\* handle_masked_trigger
handle_masked_trigger(c, m) ==
    LET i == intr[m]
        mine == is_event_private(m) \/ Entry(m, c).target # "any"
    IN /\ AssertThat(Entry(m, c).target \in {"any", c}, "masked routing")
       /\ SetIntr(i, c, [Intr(i, c) EXCEPT !.enabled = @ /\ ~mine, !.pending = TRUE, !.active = FALSE])
       /\ pending_enables' = [pending_enables EXCEPT ![c] = @ \/ mine]
       /\ UNCHANGED se
       /\ Back(c)

\* The event may have been disabled or unregistered since the acknowledgement.
NotDispatched(c, m) ==
    LET i == intr[m]
    IN /\ SetIntr(i, c, [Intr(i, c) EXCEPT !.active = FALSE,
                                           !.pending = @ \/ "REGISTERED" \in Entry(m, c).state])
       /\ AssertThat(is_event_private(m) \/ Entry(m, c).target \in {"any", c}, "routing")
       /\ UNCHANGED <<se, pending_enables>>
       /\ Back(c)

\* The rest of sdei_intr_handler up to the unlock.
sdei_intr_handler(c) ==
    /\ pc[c] = "acked"
    /\ LET m == loc[c].map
       IN \/ pe_masked[c] /\ handle_masked_trigger(c, m)
          \/ ~pe_masked[c] /\ ~Allowed(m, c, "DISPATCH") /\ NotDispatched(c, m)
          \/ /\ ~pe_masked[c] /\ Allowed(m, c, "DISPATCH")
             /\ AssertThat(/\ is_event_private(m) \/ Entry(m, c).target \in {"any", c}
                           /\ Class(m) \notin Outstanding(c)
                           /\ Class(m) = "normal" => Outstanding(c) = {}, "dispatch")
             /\ SetState(m, c, "DISPATCH")
             /\ Go(c, "dispatch", loc[c])
             /\ UNCHANGED <<gic, pending_enables>>
    /\ UNCHANGED <<map, route, pe_masked, dispatch_stack, on>>

\* setup_ns_dispatch reads the entry after the unlock.
setup_ns_dispatch(c) ==
    /\ pc[c] = "dispatch"
    /\ LET l == loc[c]
       IN dispatch_stack' = [dispatch_stack EXCEPT ![c] =
              Append(@, [map |-> l.map, intr |-> l.intr, class |-> l.class, ep |-> Entry(l.map, c).ep])]
    /\ AssertThat(Len(dispatch_stack[c]) < 2, "push")
    /\ Back(c)
    /\ UNCHANGED <<map, se, gic, route, pe_masked, pending_enables, on>>

\* sdei_dispatch_event: called by EL3 or Secure code on an unmasked PE.
sdei_dispatch_event(c, m) ==
    /\ NsRuns(c) /\ m \in ExplicitMaps /\ ~pe_masked[c]
    /\ Outstanding(c) \subseteq IF m \in CriticalMaps THEN {"normal"} ELSE {}
    /\ Allowed(m, c, "DISPATCH")
    /\ SetState(m, c, "DISPATCH")
    /\ dispatch_stack' = [dispatch_stack EXCEPT ![c] =
           Append(@, [map |-> m, intr |-> None, class |-> Class(m), ep |-> Entry(m, c).ep])]
    /\ UNCHANGED <<map, gic, route, pe_masked, pending_enables, on, pc, loc, stop>>

\* sdei_event_complete: back to the jump buffer of the interrupted handler.
sdei_event_complete(c) ==
    /\ NsRuns(c) /\ dispatch_stack[c] # <<>>
    /\ LET d == Last(dispatch_stack[c])
       IN /\ Allowed(d.map, c, "COMPLETE")
          /\ SetState(d.map, c, "COMPLETE")
          /\ dispatch_stack' = [dispatch_stack EXCEPT ![c] = Front(@)]
          /\ IF d.intr = None THEN Back(c) ELSE Go(c, "eoi", d)
    /\ UNCHANGED <<map, gic, route, pe_masked, pending_enables, on, stop>>

EndOfInterrupt(c) ==
    /\ pc[c] = "eoi"
    /\ AssertThat(bound[loc[c].map], "panic: invalid SDEI mapping")
    /\ SetIntr(loc[c].intr, c, [Intr(loc[c].intr, c) EXCEPT !.active = FALSE])
    /\ Back(c)
    /\ UNCHANGED <<map, se, route, pe>>

----------------------------------------------------------------------------
Client(c) ==
    \/ \E m \in client.maps :
          \/ sdei_event_unregister(c, m)
          \/ sdei_event_enable(c, m) \/ sdei_event_disable(c, m)
          \/ sdei_interrupt_release(c, m)
          \/ \E t \in client.pes \cup {"any"} : \/ sdei_event_register(c, m, t)
                                               \/ sdei_event_routing_set(c, m, t)
    \/ \E i \in client.intrs : sdei_interrupt_bind(c, i)
    \/ sdei_pe_mask(c) \/ sdei_pe_unmask(c)
    \/ CpuOff(c)

\* What EL3 does once it is entered, and the completion a handler owes.
El3(c) ==
    \/ BindLookup(c) \/ BindFindSlot(c) \/ BindLocked(c)
    \/ \E i \in Intrs : Acknowledge(c, i)
    \/ sdei_intr_handler(c) \/ setup_ns_dispatch(c) \/ EndOfInterrupt(c)
    \/ sdei_event_complete(c) \/ sdei_cpu_on_init(c)

\* The firmware has not stopped; the client remains what it is.
Runs == stop = "no" /\ UNCHANGED client

Next ==
    /\ Runs
    /\ \E c \in PEs : \/ Client(c) \/ El3(c)
                      \/ \E m \in ExplicitMaps : sdei_dispatch_event(c, m)
                      \/ \E i \in Intrs : Trigger(i, c)

Spec == Init /\ [][Next]_vars

\* EL3 runs to its exit and handlers complete; a PE that returns to the normal
\* world again and again takes an interrupt that stays signalled, and a masked
\* PE is unmasked some time.
FairSpec ==
    /\ Spec
    /\ \A c \in PEs : /\ WF_vars(Runs /\ El3(c))
                      /\ SF_vars(Runs /\ \E i \in Intrs : Acknowledge(c, i))
                      /\ SF_vars(Runs /\ sdei_pe_unmask(c))

----------------------------------------------------------------------------
(* Properties.                                                             *)

\* Every variable stays in its domain; a state is one of the six the table
\* allows ("no valid transition would leave the handler in these states").
TypeOK ==
    /\ \A m \in Maps : intr[m] \in Intrs \cup {SDEI_DYN_IRQ} /\ reg_count[m] \in 0 .. MaxReg
    /\ \A m \in Maps, k \in Keys :
          /\ se[m][k].state \in {{}, {"RUNNING"}} \cup {{"REGISTERED"} \cup s : s \in SUBSET {"ENABLED", "RUNNING"}}
          /\ se[m][k].target \in PEs \cup {"any"}
    /\ \A c \in PEs : pc[c] \in {"ns", "lookup", "slot", "bind", "acked", "dispatch", "eoi"}

\* No assertion of the dispatcher fails and it does not panic.
NeverStops == stop = "no"

\* An interrupt belongs to EL3 exactly while an event bound to it is
\* registered (ownership moves in sdei_event_register and _unregister), and
\* reg_count counts the registered PEs: "Any failure to release would mean there
\* is at least a PE registered for the event" (sdei_shared_reset).
OwnedWhileRegistered ==
    /\ \A i \in Intrs : \A c \in {d \in PEs : on[d]} :
        Intr(i, c).owner # "NS" <=>
            \E m \in Maps : bound[m] /\ intr[m] = i /\ "REGISTERED" \in Entry(m, c).state
    /\ \A m \in Maps : reg_count[m] = Cardinality({k \in Keys : "REGISTERED" \in se[m][k].state})

\* The interrupt of an enabled event is enabled, or the PE that is to handle
\* it remembers, in pending_enables, to enable it when it unmasks: an event
\* that is triggered while its PE is masked is not lost.
NoLostTrigger ==
    \A m \in Maps : \A c \in {d \in PEs : on[d]} :
        bound[m] /\ "ENABLED" \in Entry(m, c).state /\ ~Intr(intr[m], c).enabled =>
            \E d \in PEs : /\ pending_enables[d] /\ pe_masked[d]
                           /\ IF is_event_private(m) THEN d = c ELSE Entry(m, c).target = d

\* An event is in the running state exactly while one PE handles it.
RunningIsDispatched ==
    \A m \in Maps : \A c \in PEs :
        LET here(d) == Cardinality({n \in DOMAIN dispatch_stack[d] : dispatch_stack[d][n].map = m})
                       + (IF pc[d] = "dispatch" /\ loc[d].map = m THEN 1 ELSE 0)
        IN IF is_event_private(m)
           THEN here(c) = (IF "RUNNING" \in Entry(m, c).state THEN 1 ELSE 0)
           ELSE LET busy == {d \in PEs : here(d) > 0}
                IN /\ Cardinality(busy) = (IF "RUNNING" \in Entry(m, c).state THEN 1 ELSE 0)
                   /\ \A d \in busy : here(d) = 1

\* A trigger of an enabled event leads to a dispatch, unless the client
\* disables or unregisters the event first: neither a masked PE nor a trigger
\* that arrives during a dispatch swallows it.  (The client turns no PE off and
\* does not go on masking it again.)
TriggerLeadsToDispatch ==
    \A m \in SharedSet : \A i \in SPIs :
        (/\ client.calls \cap {"mask", "power"} = {}
         /\ intr[m] = i /\ "ENABLED" \in se[m][All].state /\ gic[i][All].pending)
            ~> ("RUNNING" \in se[m][All].state \/ "ENABLED" \notin se[m][All].state)

=============================================================================
