----------------------------- MODULE MutexLock -----------------------------
(***************************************************************************)
(* What every lock of the firmware promises to its callers: a contender    *)
(* asks, is granted the lock only while nobody holds it, and gives it      *)
(* back.  psci_lock_get / psci_lock_release (lib/psci/psci_private.h) rely *)
(* on nothing else.  BakeryLock implements this specification; the power   *)
(* domain locks of PsciPower are used through it.                          *)
(***************************************************************************)
CONSTANT Cpus

VARIABLE state          \* state[c]: what CPU c does with the lock

LockStates == {"idle", "waiting", "holding"}

Init == state = [c \in Cpus |-> "idle"]

Request(c) == /\ state[c] = "idle"
              /\ state' = [state EXCEPT ![c] = "waiting"]

Grant(c) == /\ state[c] = "waiting"
            /\ \A d \in Cpus : state[d] # "holding"
            /\ state' = [state EXCEPT ![c] = "holding"]

Release(c) == /\ state[c] = "holding"
              /\ state' = [state EXCEPT ![c] = "idle"]

Next == \E c \in Cpus : Request(c) \/ Grant(c) \/ Release(c)

Spec == Init /\ [][Next]_state
=============================================================================
