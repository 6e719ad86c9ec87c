----------------------------- MODULE BakeryLock -----------------------------
(***************************************************************************)
(* The bakery lock of lib/locks/bakery/bakery_lock_coherent.c: the only    *)
(* lock the firmware can use while some CPUs run with their caches off,    *)
(* because it needs no exclusive accesses.  Every load and store of a      *)
(* lock_data entry is a step of its own (the entries live in coherent      *)
(* memory and aligned halfword accesses are single-copy atomic), and so    *)
(* are the WFE of a waiting contender and the SEV of a releasing one.      *)
(*                                                                         *)
(* A lock_data entry is 16 bits: the choosing flag in bit 0 and the ticket *)
(* number in the 15 bits above it, so a number is stored modulo            *)
(* TICKET_MAX + 1 while the local my_ticket is a 32-bit unsigned int.      *)
(* A local that is out of scope is 0.                                      *)
(***************************************************************************)
EXTENDS Integers

CONSTANTS N,            \* BAKERY_LOCK_MAX_CPUS
          TICKET_MAX    \* largest number a lock_data entry holds: 0x7FFF

\* bakery_get_priority puts the CPU position in the low 8 bits.
ASSUME BakeryAssumption == /\ N \in 1..256
                           /\ TICKET_MAX \in Nat \ {0}

Cpus == 0 .. N-1

VARIABLES lock_data,    \* lock_data[c]: the shared entry of CPU c
          pc,           \* where CPU c is in get / release
          my_ticket,    \* locals of bakery_get_ticket and bakery_lock_get
          they,
          their_ticket,
          event         \* event[c]: event register of CPU c (WFE / SEV)

vars == <<lock_data, pc, my_ticket, they, their_ticket, event>>

CHOOSING_TICKET == 1
CHOSEN_TICKET == 0

LockData == [choosing : {CHOOSING_TICKET, CHOSEN_TICKET}, number : 0..TICKET_MAX]

make_bakery_data(choosing, num) ==
    [choosing |-> choosing, number |-> num % (TICKET_MAX + 1)]

bakery_is_choosing(info) == info.choosing = CHOOSING_TICKET

bakery_ticket_number(info) == info.number

\* Faulty variant: CPUs that drew the same ticket are not told apart.
Faulty_bakery_get_priority(t, pos) == t * 256

\* (t << 8) | pos
bakery_get_priority(t, pos) == t * 256 + pos

Init == /\ lock_data = [c \in Cpus |-> make_bakery_data(CHOSEN_TICKET, 0)]
        /\ pc = [c \in Cpus |-> "idle"]
        /\ my_ticket = [c \in Cpus |-> 0]
        /\ they = [c \in Cpus |-> 0]
        /\ their_ticket = [c \in Cpus |-> 0]
        /\ event = [c \in Cpus |-> FALSE]

\* bakery_lock_get: flag that a ticket is being chosen.
StartChoosing(c) ==
    /\ pc[c] = "idle"
    /\ my_ticket' = [my_ticket EXCEPT ![c] = 0]
    /\ lock_data' = [lock_data EXCEPT ![c] = make_bakery_data(CHOOSING_TICKET, 0)]
    /\ they' = [they EXCEPT ![c] = 0]
    /\ pc' = [pc EXCEPT ![c] = "scan"]
    /\ UNCHANGED <<their_ticket, event>>

\* Faulty variant: the last ticket seen, not the largest.
FaultyScanTicket(c) ==
    LET t == bakery_ticket_number(lock_data[they[c]])
    IN  /\ pc[c] = "scan"
        /\ they[c] < N
        /\ my_ticket' = [my_ticket EXCEPT ![c] = IF t > 0 THEN t ELSE @]
        /\ they' = [they EXCEPT ![c] = @ + 1]
        /\ UNCHANGED <<lock_data, pc, their_ticket, event>>

\* One iteration of the loop that looks for the largest ticket.
ScanTicket(c) ==
    LET t == bakery_ticket_number(lock_data[they[c]])
    IN  /\ pc[c] = "scan"
        /\ they[c] < N
        /\ my_ticket' = [my_ticket EXCEPT ![c] = IF t > @ THEN t ELSE @]
        /\ they' = [they EXCEPT ![c] = @ + 1]
        /\ UNCHANGED <<lock_data, pc, their_ticket, event>>

\* ++my_ticket, published with the choosing flag cleared.
PublishTicket(c) ==
    /\ pc[c] = "scan"
    /\ they[c] = N
    /\ my_ticket' = [my_ticket EXCEPT ![c] = @ + 1]
    /\ lock_data' = [lock_data EXCEPT ![c] =
                        make_bakery_data(CHOSEN_TICKET, my_ticket[c] + 1)]
    /\ they' = [they EXCEPT ![c] = 0]
    /\ pc' = [pc EXCEPT ![c] = "wait"]
    /\ UNCHANGED <<their_ticket, event>>

\* bakery_lock_get skips its own entry.
SkipSelf(c) ==
    /\ pc[c] = "wait"
    /\ they[c] = c
    /\ they' = [they EXCEPT ![c] = @ + 1]
    /\ UNCHANGED <<lock_data, pc, my_ticket, their_ticket, event>>

\* They hold a ticket of higher priority than c.
HasPriority(c, info) ==
    /\ bakery_ticket_number(info) # 0
    /\ bakery_get_priority(bakery_ticket_number(info), they[c])
         < bakery_get_priority(my_ticket[c], c)

\* The load that ends the busy wait on the choosing flag, and what the code
\* does with the entry it returned.  (A load that finds the flag set changes
\* nothing: the step is a stutter.)
ReadContender(c) ==
    LET info == lock_data[they[c]]
    IN  /\ pc[c] = "wait"
        /\ they[c] < N
        /\ they[c] # c
        /\ ~bakery_is_choosing(info)
        /\ IF HasPriority(c, info)
             THEN /\ their_ticket' = [their_ticket EXCEPT
                                        ![c] = bakery_ticket_number(info)]
                  /\ pc' = [pc EXCEPT ![c] = "wfe"]
                  /\ UNCHANGED they
             ELSE /\ they' = [they EXCEPT ![c] = @ + 1]
                  /\ UNCHANGED <<pc, their_ticket>>
        /\ UNCHANGED <<lock_data, my_ticket, event>>

\* WFE returns once the event register is set, and clears it.
Wfe(c) ==
    /\ pc[c] = "wfe"
    /\ event[c]
    /\ event' = [event EXCEPT ![c] = FALSE]
    /\ pc' = [pc EXCEPT ![c] = "reread"]
    /\ UNCHANGED <<lock_data, my_ticket, they, their_ticket>>

\* The condition of the wait loop: has their ticket changed?
RereadTicket(c) ==
    /\ pc[c] = "reread"
    /\ IF bakery_ticket_number(lock_data[they[c]]) = their_ticket[c]
         THEN /\ pc' = [pc EXCEPT ![c] = "wfe"]
              /\ UNCHANGED <<they, their_ticket>>
         ELSE /\ pc' = [pc EXCEPT ![c] = "wait"]
              /\ they' = [they EXCEPT ![c] = @ + 1]
              /\ their_ticket' = [their_ticket EXCEPT ![c] = 0]
    /\ UNCHANGED <<lock_data, my_ticket, event>>

\* All contenders passed: bakery_lock_get returns.
LockAcquired(c) ==
    /\ pc[c] = "wait"
    /\ they[c] = N
    /\ pc' = [pc EXCEPT ![c] = "locked"]
    /\ UNCHANGED <<lock_data, my_ticket, they, their_ticket, event>>

\* bakery_lock_release: the store of 0 ...
ReleaseTicket(c) ==
    /\ pc[c] = "locked"
    /\ lock_data' = [lock_data EXCEPT ![c] = make_bakery_data(CHOSEN_TICKET, 0)]
    /\ pc' = [pc EXCEPT ![c] = "sev"]
    /\ my_ticket' = [my_ticket EXCEPT ![c] = 0]
    /\ they' = [they EXCEPT ![c] = 0]
    /\ UNCHANGED <<their_ticket, event>>

\* Faulty variant: SEVL, which signals only the CPU that executes it.
FaultySev(c) ==
    /\ pc[c] = "sev"
    /\ event' = [event EXCEPT ![c] = TRUE]
    /\ pc' = [pc EXCEPT ![c] = "idle"]
    /\ UNCHANGED <<lock_data, my_ticket, they, their_ticket>>

\* ... then, ordered after it by the DSB, the SEV to all CPUs.
Sev(c) ==
    /\ pc[c] = "sev"
    /\ event' = [d \in Cpus |-> TRUE]
    /\ pc' = [pc EXCEPT ![c] = "idle"]
    /\ UNCHANGED <<lock_data, my_ticket, they, their_ticket>>

\* Bound: the ticket to be published still fits in the 15-bit field.
TicketFits(c) == my_ticket[c] < TICKET_MAX

\* Every step of a CPU inside bakery_lock_get and bakery_lock_release.
Progress(c) ==
    \/ ScanTicket(c)
    \/ TicketFits(c) /\ PublishTicket(c)
    \/ SkipSelf(c)
    \/ ReadContender(c)
    \/ Wfe(c)
    \/ RereadTicket(c)
    \/ LockAcquired(c)
    \/ ReleaseTicket(c)
    \/ Sev(c)

Next == \E c \in Cpus : StartChoosing(c) \/ Progress(c)

Spec == Init /\ [][Next]_vars

-----------------------------------------------------------------------------
PcValues == {"idle", "scan", "wait", "wfe", "reread", "locked", "sev"}

\* Published a ticket and not yet released it.
InLine(c) == pc[c] \in {"wait", "wfe", "reread", "locked"}

(* Every variable has the type of the C object it models.                  *)
TypeOK == /\ lock_data \in [Cpus -> LockData]
          /\ pc \in [Cpus -> PcValues]
          /\ my_ticket \in [Cpus -> Nat]
          /\ they \in [Cpus -> 0..N]
          /\ their_ticket \in [Cpus -> Nat]
          /\ event \in [Cpus -> BOOLEAN]

(* At most one CPU is between the return of bakery_lock_get and the store  *)
(* of bakery_lock_release, whatever tickets were drawn at the same time.   *)
MutualExclusion ==
    \A c, d \in Cpus : pc[c] = "locked" /\ pc[d] = "locked" => c = d

(* The comment of bakery_lock_get: contending CPUs obtain a non-zero       *)
(* ticket, and a non-contending CPU has ticket 0.                          *)
NonZeroTicket ==
    \A c \in Cpus : InLine(c) <=> bakery_ticket_number(lock_data[c]) # 0

(* The refinement mapping to MutexLock: scanning and waiting CPUs ask for  *)
(* the lock, and the store of 0 is the moment it is given back.            *)
LockState == [c \in Cpus |-> CASE pc[c] \in {"idle", "sev"} -> "idle"
                               [] pc[c] = "locked"          -> "holding"
                               [] OTHER                     -> "waiting"]

Mutex == INSTANCE MutexLock WITH state <- LockState

(* The bakery lock implements the abstract lock: a CPU leaves              *)
(* bakery_lock_get only while no other CPU holds the lock.                 *)
ImplementsMutex == Mutex!Spec
=============================================================================
