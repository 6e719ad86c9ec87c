---------------------------- MODULE MCBakeryLock ----------------------------
(***************************************************************************)
(* BakeryLock for TLC: every CPU calls bakery_lock_get at most MaxGets     *)
(* times, and a history variable remembers who was in line before whom.    *)
(* TICKET_MAX is at least N * MaxGets in the runs with this bound, so that *)
(* the bound on tickets never cuts a behaviour short.                      *)
(***************************************************************************)
EXTENDS BakeryLock, FiniteSets

CONSTANT MaxGets        \* Bound: calls of bakery_lock_get per CPU

VARIABLES gets,         \* gets[c]: calls made so far
          ahead         \* ahead[c]: in line when c called, not yet released

mcvars == <<vars, gets, ahead>>

MCInit == /\ Init
          /\ gets = [c \in Cpus |-> 0]
          /\ ahead = [c \in Cpus |-> {}]

MCStart(c) == /\ gets[c] < MaxGets
              /\ StartChoosing(c)
              /\ gets' = [gets EXCEPT ![c] = @ + 1]
              /\ ahead' = [ahead EXCEPT ![c] = {d \in Cpus : InLine(d)}]

MCProgress(c) == /\ Progress(c)
                 /\ UNCHANGED gets
                 /\ ahead' = IF pc[c] = "locked"
                               THEN [d \in Cpus |-> ahead[d] \ {c}]
                               ELSE ahead

MCNext == \E c \in Cpus : MCStart(c) \/ MCProgress(c)

\* A CPU inside get or release keeps executing, and the firmware never
\* stays in a critical section for ever.
MCSpec == MCInit /\ [][MCNext]_mcvars /\ \A c \in Cpus : WF_mcvars(MCProgress(c))

(* First come, first served: a CPU that published its ticket before c      *)
(* called bakery_lock_get has had the lock and released it before c gets   *)
(* it (the tickets drawn by ScanTicket grow along the line).               *)
FirstComeFirstServed == \A c \in Cpus : pc[c] = "locked" => ahead[c] = {}

(* No contender waits for ever: neither a lost wake-up (WFE against the    *)
(* SEV of a release) nor later callers keep a CPU out of the lock.         *)
EveryContenderGetsTheLock ==
    \A c \in Cpus : pc[c] = "scan" ~> pc[c] = "locked"
=============================================================================
