-------------------------- MODULE BakeryLockProofs --------------------------
(***************************************************************************)
(* Proofs about BakeryLock, for any number of CPUs up to 256 and any width *)
(* of the ticket field.                                                    *)
(*                                                                         *)
(* The argument: a CPU that went past contender d in the loop of           *)
(* bakery_lock_get stays ahead of d until it releases the lock, because d  *)
(* is not contending, or has still to read the ticket it must exceed, or   *)
(* holds a ticket of lower priority and has not gone past us (Behind).     *)
(* A contender that is being watched over WFE keeps the ticket that was    *)
(* read, or has dropped it and is behind (Watched).                        *)
(***************************************************************************)
EXTENDS MCBakeryLock, TLAPS

Prio(c) == bakery_get_priority(my_ticket[c], c)

\* What a CPU shows to the others follows from where it is.
EntryOf(c) ==
    /\ pc[c] \in {"idle", "sev"} =>
         /\ ~bakery_is_choosing(lock_data[c])
         /\ bakery_ticket_number(lock_data[c]) = 0
    /\ pc[c] = "scan" => bakery_is_choosing(lock_data[c]) /\ bakery_ticket_number(lock_data[c]) = 0
    /\ InLine(c) => /\ ~bakery_is_choosing(lock_data[c])
                    /\ bakery_ticket_number(lock_data[c]) = my_ticket[c]
                    /\ my_ticket[c] > 0

\* The loop index where the code uses it.
IndexOf(c) ==
    /\ pc[c] = "locked" => they[c] = N
    /\ pc[c] \in {"wfe", "reread"} => they[c] # c /\ they[c] < N

\* d cannot overtake c, which is in line.
Behind(d, c) ==
    \/ pc[d] \in {"idle", "sev"}
    \/ pc[d] = "scan" /\ (they[d] <= c \/ my_ticket[d] >= my_ticket[c])
    \/ InLine(d) /\ Prio(c) < Prio(d) /\ they[d] <= c

PassedAreBehind ==
    \A c, d \in Cpus : InLine(c) /\ c # d /\ d < they[c] => Behind(d, c)

Watched ==
    \A c, d \in Cpus :
        pc[c] \in {"wfe", "reread"} /\ they[c] = d =>
           \/ InLine(d) /\ my_ticket[d] = their_ticket[c]
           \/ Behind(d, c)

IInv == /\ TypeOK
        /\ \A c \in Cpus : EntryOf(c) /\ IndexOf(c)
        /\ PassedAreBehind
        /\ Watched

-----------------------------------------------------------------------------
(* A ticket that fits in the number field is stored unchanged by           *)
(* make_bakery_data.                                                       *)
LEMMA TicketStored ==
    ASSUME NEW t \in 0..TICKET_MAX
    PROVE  t % (TICKET_MAX + 1) = t
  BY BakeryAssumption, SMT

(* The two accessors read back what make_bakery_data packed.               *)
LEMMA MadeData ==
    ASSUME NEW b \in {CHOOSING_TICKET, CHOSEN_TICKET}, NEW t \in 0..TICKET_MAX
    PROVE  /\ make_bakery_data(b, t) \in LockData
           /\ bakery_ticket_number(make_bakery_data(b, t)) = t
           /\ bakery_is_choosing(make_bakery_data(b, t)) <=> b = CHOOSING_TICKET
  BY TicketStored, Zenon
  DEF make_bakery_data, LockData, bakery_ticket_number, bakery_is_choosing

(* bakery_get_priority orders tickets first and CPU positions second, so   *)
(* two CPUs never have the same priority.                                  *)
LEMMA PriorityOrder ==
    ASSUME NEW c \in Cpus, NEW d \in Cpus, c # d,
           NEW s \in Nat, NEW t \in Nat
    PROVE  /\ bakery_get_priority(s, c) \in Nat
           /\ s < t => bakery_get_priority(s, c) < bakery_get_priority(t, d)
           /\ bakery_get_priority(s, c) # bakery_get_priority(t, d)
           /\ bakery_get_priority(s, c) < bakery_get_priority(t, d) => s <= t
  BY BakeryAssumption DEF Cpus, bakery_get_priority

-----------------------------------------------------------------------------
(* Every step of get and release keeps the types of the shared entries and *)
(* of the locals.                                                          *)
LEMMA TypeStep == TypeOK /\ (\A c \in Cpus : IndexOf(c)) /\ [Next]_vars => TypeOK'
  <1> SUFFICES ASSUME TypeOK, \A c \in Cpus : IndexOf(c), [Next]_vars
               PROVE  TypeOK'
    BY Zenon
  <1> USE BakeryAssumption DEF TypeOK, PcValues
  <1>a. \A b \in {CHOOSING_TICKET, CHOSEN_TICKET}, t \in 0..TICKET_MAX :
          make_bakery_data(b, t) \in LockData
    BY MadeData, Zenon
  <1>b. 0 \in 0..TICKET_MAX /\ Cpus \subseteq 0..N /\ \A d \in Cpus : d + 1 \in 0..N
    BY DEF Cpus
  <1>c. \A d \in Cpus : bakery_ticket_number(lock_data[d]) \in Nat
    BY DEF bakery_ticket_number, LockData
  <1>d. \A d \in Cpus : they[d] < N => they[d] \in Cpus
    BY DEF Cpus
  <1>1. CASE UNCHANGED vars
    BY <1>1, Zenon DEF vars
  <1>2. ASSUME NEW c \in Cpus, StartChoosing(c) PROVE TypeOK'
    BY <1>2, <1>a, <1>b DEF StartChoosing
  <1>3. ASSUME NEW c \in Cpus, ScanTicket(c) PROVE TypeOK'
    BY <1>3, <1>b, <1>c, <1>d, Zenon DEF ScanTicket
  <1>4. ASSUME NEW c \in Cpus, TicketFits(c), PublishTicket(c) PROVE TypeOK'
    <2>1. my_ticket[c] + 1 \in 0..TICKET_MAX
      BY <1>4 DEF TicketFits
    <2>2. lock_data' \in [Cpus -> LockData]
      BY <1>4, <1>a, <2>1, Zenon DEF PublishTicket
    <2> QED
      BY <1>4, <1>b, <2>1, <2>2 DEF PublishTicket
  <1>5. ASSUME NEW c \in Cpus, SkipSelf(c) PROVE TypeOK'
    BY <1>5, <1>b, Zenon DEF SkipSelf
  <1>6. ASSUME NEW c \in Cpus, ReadContender(c) PROVE TypeOK'
    BY <1>6, <1>b, <1>c, <1>d DEF ReadContender
  <1>7. ASSUME NEW c \in Cpus, Wfe(c) PROVE TypeOK'
    BY <1>7, Zenon DEF Wfe
  <1>8. ASSUME NEW c \in Cpus, RereadTicket(c) PROVE TypeOK'
    <2>1. they[c] \in Cpus
      BY <1>8, <1>d, Zenon DEF RereadTicket, IndexOf
    <2> QED
      BY <1>8, <1>b, <2>1 DEF RereadTicket
  <1>9. ASSUME NEW c \in Cpus, LockAcquired(c) PROVE TypeOK'
    BY <1>9, Zenon DEF LockAcquired
  <1>10. ASSUME NEW c \in Cpus, ReleaseTicket(c) PROVE TypeOK'
    BY <1>10, <1>a, <1>b DEF ReleaseTicket
  <1>11. ASSUME NEW c \in Cpus, Sev(c) PROVE TypeOK'
    BY <1>11, Zenon DEF Sev
  <1> QED
    BY <1>1, <1>2, <1>3, <1>4, <1>5, <1>6, <1>7, <1>8, <1>9, <1>10, <1>11, Zenon
    DEF Next, Progress

(* Every step keeps the tie between the place of a CPU in bakery_lock_get  *)
(* and release and what its lock_data entry shows to the others.           *)
LEMMA EntryStep ==
    IInv /\ [Next]_vars => \A d \in Cpus : EntryOf(d)' /\ IndexOf(d)'
  <1> SUFFICES ASSUME IInv, [Next]_vars, NEW d \in Cpus
               PROVE  EntryOf(d)' /\ IndexOf(d)'
    BY Zenon
  <1> TypeOK /\ EntryOf(d) /\ IndexOf(d)
    BY Zenon DEF IInv
  <1>a. 0 \in 0..TICKET_MAX
    BY BakeryAssumption
  <1> USE DEF EntryOf, IndexOf, InLine
  <1>1. CASE UNCHANGED vars
    BY <1>1, Zenon DEF vars
  <1>2. ASSUME NEW c \in Cpus, StartChoosing(c) PROVE EntryOf(d)' /\ IndexOf(d)'
    BY <1>2, MadeData, <1>a, Zenon DEF StartChoosing, TypeOK
  <1>3. ASSUME NEW c \in Cpus, ScanTicket(c) PROVE EntryOf(d)' /\ IndexOf(d)'
    BY <1>3, Zenon DEF ScanTicket, TypeOK
  <1>4. ASSUME NEW c \in Cpus, TicketFits(c), PublishTicket(c) PROVE EntryOf(d)' /\ IndexOf(d)'
    <2>1. my_ticket[c] + 1 \in 0..TICKET_MAX /\ my_ticket[c] + 1 > 0
      BY <1>4, BakeryAssumption DEF TypeOK, TicketFits
    <2>2. /\ bakery_ticket_number(lock_data'[c]) = my_ticket[c] + 1
          /\ ~bakery_is_choosing(lock_data'[c])
      BY <1>4, <2>1, MadeData DEF PublishTicket, TypeOK, CHOOSING_TICKET, CHOSEN_TICKET
    <2>3. d # c => lock_data'[d] = lock_data[d]
      BY <1>4, Zenon DEF PublishTicket, TypeOK
    <2> QED
      BY <1>4, <2>1, <2>2, <2>3, Zenon DEF PublishTicket, TypeOK
  <1>5. ASSUME NEW c \in Cpus, SkipSelf(c) PROVE EntryOf(d)' /\ IndexOf(d)'
    BY <1>5, Zenon DEF SkipSelf, TypeOK
  <1>6. ASSUME NEW c \in Cpus, ReadContender(c) PROVE EntryOf(d)' /\ IndexOf(d)'
    BY <1>6, Zenon DEF ReadContender, TypeOK
  <1>7. ASSUME NEW c \in Cpus, Wfe(c) PROVE EntryOf(d)' /\ IndexOf(d)'
    BY <1>7, Zenon DEF Wfe, TypeOK
  <1>8. ASSUME NEW c \in Cpus, RereadTicket(c) PROVE EntryOf(d)' /\ IndexOf(d)'
    BY <1>8 DEF RereadTicket, TypeOK
  <1>9. ASSUME NEW c \in Cpus, LockAcquired(c) PROVE EntryOf(d)' /\ IndexOf(d)'
    BY <1>9, Zenon DEF LockAcquired, TypeOK
  <1>10. ASSUME NEW c \in Cpus, ReleaseTicket(c) PROVE EntryOf(d)' /\ IndexOf(d)'
    BY <1>10, MadeData, <1>a DEF ReleaseTicket, TypeOK, CHOOSING_TICKET, CHOSEN_TICKET
  <1>11. ASSUME NEW c \in Cpus, Sev(c) PROVE EntryOf(d)' /\ IndexOf(d)'
    BY <1>11, Zenon DEF Sev, TypeOK
  <1> QED
    BY <1>1, <1>2, <1>3, <1>4, <1>5, <1>6, <1>7, <1>8, <1>9, <1>10, <1>11, Zenon DEF Next, Progress

(* While c stays in line, a CPU that is behind c stays behind c.           *)
LEMMA BehindStep ==
    ASSUME IInv, Next, NEW c \in Cpus, NEW d \in Cpus, c # d,
           InLine(c), InLine(c)', Behind(d, c)
    PROVE  Behind(d, c)'
  <1> TypeOK /\ EntryOf(c) /\ EntryOf(d) /\ IndexOf(d) /\ Watched
    BY Zenon DEF IInv
  <1> PICK p \in Cpus : StartChoosing(p) \/ Progress(p)
    BY Zenon DEF Next
  <1>a. my_ticket[c] \in Nat /\ my_ticket[d] \in Nat /\ they[d] \in 0..N
    BY Zenon DEF TypeOK
  <1>b. c \in Nat /\ d \in Nat /\ c < N
    BY BakeryAssumption DEF Cpus
  <1>c. my_ticket'[c] = my_ticket[c]
    BY Zenon DEF StartChoosing, Progress, ScanTicket, PublishTicket, SkipSelf, ReadContender,
           Wfe, RereadTicket, LockAcquired, ReleaseTicket, Sev, InLine, TypeOK
  <1>1. CASE p # d
    <2>1. pc'[d] = pc[d] /\ my_ticket'[d] = my_ticket[d] /\ they'[d] = they[d]
      BY <1>1, Zenon
      DEF StartChoosing, Progress, ScanTicket, PublishTicket, SkipSelf, ReadContender,
          Wfe, RereadTicket, LockAcquired, ReleaseTicket, Sev, TypeOK
    <2> QED
      BY <2>1, <1>c, Zenon DEF Behind, InLine, Prio
  <1>2. CASE p = d
    <2> USE DEF InLine, TypeOK
    <2>1. CASE StartChoosing(d)
      BY <2>1, <1>a, <1>b DEF StartChoosing, Behind
    <2>2. CASE ScanTicket(d)
      <3>1. they[d] <= c \/ my_ticket[d] >= my_ticket[c]
        BY <2>2, Zenon DEF ScanTicket, Behind
      <3>2. they[d] = c => bakery_ticket_number(lock_data[they[d]]) = my_ticket[c]
        BY Zenon DEF EntryOf
      <3>3. bakery_ticket_number(lock_data[they[d]]) \in Nat
        <4>1. they[d] \in Cpus
          BY <2>2, <1>a, BakeryAssumption DEF ScanTicket, Cpus
        <4> QED
          BY <4>1, BakeryAssumption DEF LockData, bakery_ticket_number
      <3>4. they'[d] <= c \/ my_ticket'[d] >= my_ticket[c]
        BY <2>2, <3>1, <3>2, <3>3, <1>a, <1>b DEF ScanTicket
      <3> QED
        BY <2>2, <3>4, <1>c, Zenon DEF ScanTicket, Behind
    <2>3. CASE PublishTicket(d)
      <3>1. my_ticket'[d] = my_ticket[d] + 1 /\ my_ticket[d] >= my_ticket[c]
        BY <2>3, <1>a, <1>b DEF PublishTicket, Behind
      <3>2. Prio(c)' < Prio(d)'
        <4>1. my_ticket[c] < my_ticket[d] + 1 /\ my_ticket[d] + 1 \in Nat
          BY <3>1, <1>a
        <4>2. bakery_get_priority(my_ticket[c], c)
                < bakery_get_priority(my_ticket[d] + 1, d)
          BY <4>1, <1>a, PriorityOrder, Zenon
        <4> QED
          BY <4>2, <3>1, <1>c, Zenon DEF Prio
      <3> QED
        BY <2>3, <3>2, <1>b DEF PublishTicket, Behind
    <2>4. CASE SkipSelf(d)
      BY <2>4, <1>a, <1>b, <1>c DEF SkipSelf, Behind, Prio
    <2>5. CASE ReadContender(d)
      <3>1. Prio(c) < Prio(d) /\ they[d] <= c
        BY <2>5, Zenon DEF ReadContender, Behind
      <3>2. they[d] = c => HasPriority(d, lock_data[c])
        BY <3>1, <1>a, <1>b DEF HasPriority, EntryOf, Prio
      <3>3. they'[d] <= c
        BY <2>5, <3>1, <3>2, <1>a, <1>b DEF ReadContender
      <3> QED
        BY <2>5, <3>1, <3>3, <1>c, Zenon DEF ReadContender, Behind, Prio
    <2>6. CASE Wfe(d)
      BY <2>6, <1>c, Zenon DEF Wfe, Behind, Prio
    <2>7. CASE RereadTicket(d)
      <3>1. Prio(c) < Prio(d) /\ they[d] <= c
        BY <2>7, Zenon DEF RereadTicket, Behind
      <3>2. Prio(c) \in Nat /\ Prio(d) \in Nat
        BY <1>a, PriorityOrder, Zenon DEF Prio
      <3>3. they[d] = c => bakery_ticket_number(lock_data[c]) = their_ticket[d]
        BY <2>7, <3>1, <3>2 DEF Watched, Behind, EntryOf, RereadTicket
      <3>4. they'[d] <= c
        BY <2>7, <3>1, <3>3, <1>a, <1>b DEF RereadTicket
      <3> QED
        BY <2>7, <3>1, <3>4, <1>c, Zenon DEF RereadTicket, Behind, Prio
    <2>8. CASE LockAcquired(d)
      BY <2>8, <1>b DEF LockAcquired, Behind
    <2>9. CASE ReleaseTicket(d)
      BY <2>9, Zenon DEF ReleaseTicket, Behind
    <2>10. CASE Sev(d)
      BY <2>10, Zenon DEF Sev, Behind
    <2> QED
      BY <1>2, <2>1, <2>2, <2>3, <2>4, <2>5, <2>6, <2>7, <2>8, <2>9, <2>10, Zenon DEF Progress
  <1> QED
    BY <1>1, <1>2, Zenon

(* The CPUs that the loop of bakery_lock_get has gone past stay behind the *)
(* CPU that went past them.                                                *)
LEMMA PassedStep == IInv /\ Next => PassedAreBehind'
  <1> SUFFICES ASSUME IInv, Next, NEW c \in Cpus, NEW d \in Cpus,
                      InLine(c)', c # d, d < they'[c]
               PROVE  Behind(d, c)'
    BY Zenon DEF PassedAreBehind
  <1> TypeOK /\ PassedAreBehind /\ Watched /\ EntryOf(c) /\ EntryOf(d) /\ IndexOf(c)
    BY Zenon DEF IInv
  <1>a. they[c] \in 0..N /\ d \in Nat /\ c \in Nat /\ N \in Nat
    BY BakeryAssumption DEF TypeOK, Cpus
  <1>1. SUFFICES InLine(c) /\ Behind(d, c)
    BY BehindStep, Zenon
  <1> PICK p \in Cpus : StartChoosing(p) \/ Progress(p)
    BY Zenon DEF Next
  <1>2. InLine(c)
    BY <1>a
    DEF StartChoosing, Progress, ScanTicket, PublishTicket, SkipSelf, ReadContender,
        Wfe, RereadTicket, LockAcquired, ReleaseTicket, Sev, TypeOK, InLine
  <1>3. CASE d < they[c]
    BY <1>2, <1>3, Zenon DEF PassedAreBehind
  <1>4. CASE ~(d < they[c])
    <2>1. \/ ReadContender(c) /\ they[c] = d /\ ~HasPriority(c, lock_data[d])
          \/ RereadTicket(c) /\ they[c] = d
               /\ bakery_ticket_number(lock_data[d]) # their_ticket[c]
      <3>1. they'[c] # they[c] /\ they'[c] # 0
        BY <1>4, <1>a
      <3>2. ScanTicket(c) \/ SkipSelf(c) \/ ReadContender(c) \/ RereadTicket(c)
        BY <3>1, Zenon
        DEF StartChoosing, Progress, ScanTicket, PublishTicket, SkipSelf, ReadContender,
            Wfe, RereadTicket, LockAcquired, ReleaseTicket, Sev, TypeOK
      <3>3. ~ScanTicket(c)
        BY <1>2, Zenon DEF ScanTicket, InLine
      <3>4. they'[c] = they[c] + 1
        BY <3>1, <3>2, <3>3, Zenon DEF SkipSelf, ReadContender, RereadTicket, TypeOK
      <3>5. they[c] = d
        BY <3>4, <1>4, <1>a
      <3> QED
        BY <3>1, <3>2, <3>3, <3>5, Zenon DEF SkipSelf, ReadContender, RereadTicket, TypeOK
    <2>2. CASE ReadContender(c) /\ they[c] = d /\ ~HasPriority(c, lock_data[d])
      <3>1. pc[d] # "scan"
        BY <2>2, Zenon DEF ReadContender, EntryOf
      <3>2. CASE InLine(d)
        <4>1. ~(Prio(d) < Prio(c))
          BY <2>2, <3>2, <1>a DEF HasPriority, EntryOf, Prio, TypeOK
        <4>2. Prio(c) \in Nat /\ Prio(d) \in Nat /\ Prio(c) # Prio(d)
          BY PriorityOrder, Zenon DEF Prio, TypeOK
        <4>3. Prio(c) < Prio(d)
          BY <4>1, <4>2
        <4>4. they[d] <= c
          <5> SUFFICES ASSUME ~(they[d] <= c) PROVE FALSE
            BY Zenon
          <5>1. Behind(c, d)
            BY <3>2, <1>a DEF PassedAreBehind, TypeOK
          <5> QED
            BY <5>1, <1>2, <4>2, <4>3 DEF Behind, InLine
        <4> QED
          BY <3>2, <4>3, <4>4, <1>2, Zenon DEF Behind
      <3> QED
        BY <3>1, <3>2, <1>2, Zenon DEF Behind, InLine, TypeOK, PcValues
    <2>3. CASE /\ RereadTicket(c) /\ they[c] = d
               /\ bakery_ticket_number(lock_data[d]) # their_ticket[c]
      <3>1. ~(InLine(d) /\ my_ticket[d] = their_ticket[c])
        BY <2>3, Zenon DEF EntryOf
      <3>2. pc[c] = "reread"
        BY <2>3, Zenon DEF RereadTicket
      <3> QED
        BY <2>3, <3>1, <3>2, <1>2, Zenon DEF Watched
    <2> QED
      BY <2>1, <2>2, <2>3, Zenon
  <1> QED
    BY <1>3, <1>4, Zenon

(* A ticket that bakery_lock_get waits on is one its owner really showed:  *)
(* the value read stays valid until the owner leaves the line.             *)
LEMMA WatchedStep == IInv /\ Next => Watched'
  <1> SUFFICES ASSUME IInv, Next, NEW c \in Cpus, NEW d \in Cpus,
                      pc'[c] \in {"wfe", "reread"}, they'[c] = d
               PROVE  \/ InLine(d)' /\ my_ticket'[d] = their_ticket'[c]
                      \/ Behind(d, c)'
    BY Zenon DEF Watched
  <1> TypeOK /\ Watched /\ EntryOf(c) /\ EntryOf(d) /\ IndexOf(c)
    BY Zenon DEF IInv
  <1> PICK p \in Cpus : StartChoosing(p) \/ Progress(p)
    BY Zenon DEF Next
  <1>1. CASE ReadContender(c) /\ pc'[c] = "wfe"
    <2>1. /\ they[c] = d /\ d # c /\ HasPriority(c, lock_data[d])
          /\ their_ticket'[c] = bakery_ticket_number(lock_data[d])
      BY <1>1 DEF ReadContender, TypeOK
    <2>2. InLine(d) /\ my_ticket[d] = bakery_ticket_number(lock_data[d])
      BY <2>1, Zenon DEF HasPriority, EntryOf, InLine, TypeOK, PcValues
    <2> QED
      BY <1>1, <2>1, <2>2, Zenon DEF ReadContender, InLine, TypeOK
  <1>2. CASE ~ReadContender(c) \/ pc'[c] # "wfe"
    <2>1. /\ pc[c] \in {"wfe", "reread"} /\ they[c] = d
          /\ their_ticket'[c] = their_ticket[c]
      BY <1>2, Zenon
      DEF StartChoosing, Progress, ScanTicket, PublishTicket, SkipSelf, ReadContender,
          Wfe, RereadTicket, LockAcquired, ReleaseTicket, Sev, TypeOK
    <2>2. InLine(c) /\ InLine(c)' /\ c # d
      BY <2>1, Zenon DEF InLine, IndexOf
    <2>3. CASE Behind(d, c)
      BY <2>2, <2>3, BehindStep, Zenon
    <2>4. CASE InLine(d) /\ my_ticket[d] = their_ticket[c]
      <3>1. \/ InLine(d)' /\ my_ticket'[d] = my_ticket[d]
            \/ pc'[d] = "sev"
        BY <2>4, Zenon
        DEF StartChoosing, Progress, ScanTicket, PublishTicket, SkipSelf, ReadContender,
            Wfe, RereadTicket, LockAcquired, ReleaseTicket, Sev, TypeOK, InLine
      <3> QED
        BY <2>1, <2>4, <3>1, Zenon DEF Behind
    <2> QED
      BY <2>1, <2>3, <2>4, Zenon DEF Watched
  <1> QED
    BY <1>1, <1>2, Zenon

(* The zero-initialised lock satisfies the inductive invariant.            *)
THEOREM InitIInv == Init => IInv
  <1> SUFFICES ASSUME Init PROVE IInv
    BY Zenon
  <1> USE BakeryAssumption DEF Init
  <1>a. 0 \in 0..TICKET_MAX
    OBVIOUS
  <1>1. TypeOK
    BY <1>a, MadeData DEF TypeOK, PcValues
  <1>2. \A c \in Cpus : EntryOf(c) /\ IndexOf(c)
    BY <1>a, MadeData DEF EntryOf, IndexOf, InLine, CHOOSING_TICKET, CHOSEN_TICKET
  <1> QED
    BY <1>1, <1>2, Zenon DEF IInv, PassedAreBehind, Watched, InLine

(* IInv is inductive: no step of get or release, of any CPU, breaks it.    *)
THEOREM NextIInv == IInv /\ [Next]_vars => IInv'
  <1>1. IInv /\ UNCHANGED vars => IInv'
    BY Zenon DEF IInv, TypeOK, EntryOf, IndexOf, PassedAreBehind, Watched, Behind,
           InLine, Prio, vars
  <1> QED
    BY <1>1, TypeStep, EntryStep, PassedStep, WatchedStep, Zenon DEF IInv

(* The inductive invariant holds in every state of the bakery lock.        *)
THEOREM SpecIInv == Spec => []IInv
  BY InitIInv, NextIInv, PTL DEF Spec

(* Two CPUs are never both past bakery_lock_get: each would have gone past *)
(* the other, so each would be behind the other.                           *)
LEMMA IInvExcludes == IInv => MutualExclusion
  <1> SUFFICES ASSUME IInv, NEW c \in Cpus, NEW d \in Cpus,
                      pc[c] = "locked", pc[d] = "locked", c # d
               PROVE  FALSE
    BY Zenon DEF MutualExclusion
  <1>1. they[c] = N /\ they[d] = N /\ c < N /\ d < N /\ c \in Nat /\ d \in Nat
    BY BakeryAssumption DEF IInv, IndexOf, Cpus
  <1>2. Behind(d, c)
    BY <1>1, Zenon DEF IInv, PassedAreBehind, InLine
  <1> QED
    BY <1>1, <1>2, BakeryAssumption DEF Behind, InLine

(* At most one CPU is past bakery_lock_get and not yet in                  *)
(* bakery_lock_release, for every number of CPUs and every interleaving.   *)
THEOREM MutualExclusionHolds == Spec => []MutualExclusion
  BY IInvExcludes, SpecIInv, PTL

(* As long as tickets fit in the 15-bit field, exactly the contenders show *)
(* a non-zero ticket.                                                      *)
THEOREM NonZeroTicketHolds == Spec => []NonZeroTicket
  <1>1. IInv => NonZeroTicket
    BY DEF IInv, NonZeroTicket, EntryOf, InLine, TypeOK, PcValues
  <1> QED
    BY <1>1, SpecIInv, PTL

(* The entries of the lock and the locals of its functions keep their      *)
(* types, so a ticket never leaves its 15 bits while tickets are bounded.  *)
THEOREM TypeOKHolds == Spec => []TypeOK
  <1>1. IInv => TypeOK
    BY Zenon DEF IInv
  <1> QED
    BY <1>1, SpecIInv, PTL

(* A step of the bakery lock is a step of the abstract lock or leaves its  *)
(* state unchanged.                                                        *)
LEMMA MutexStep == IInv /\ IInv' /\ [Next]_vars => [Mutex!Next]_LockState
  <1> SUFFICES ASSUME IInv, IInv', [Next]_vars PROVE [Mutex!Next]_LockState
    BY Zenon
  <1> TypeOK /\ TypeOK' /\ MutualExclusion'
    BY IInvExcludes, PTL DEF IInv
  <1>1. CASE UNCHANGED vars
    BY <1>1, Zenon DEF vars, LockState
  <1>2. ASSUME NEW c \in Cpus, StartChoosing(c) PROVE Mutex!Request(c)
    BY <1>2, Zenon DEF StartChoosing, Mutex!Request, LockState, TypeOK
  <1>3. ASSUME NEW c \in Cpus, LockAcquired(c) PROVE Mutex!Grant(c)
    <2>1. \A d \in Cpus : pc[d] # "locked"
      BY <1>3, Zenon DEF LockAcquired, MutualExclusion, TypeOK
    <2> QED
      BY <1>3, <2>1, Zenon DEF LockAcquired, Mutex!Grant, LockState, TypeOK
  <1>4. ASSUME NEW c \in Cpus, ReleaseTicket(c) PROVE Mutex!Release(c)
    BY <1>4, Zenon DEF ReleaseTicket, Mutex!Release, LockState, TypeOK
  <1>5. ASSUME NEW c \in Cpus,
               \/ ScanTicket(c) \/ PublishTicket(c) \/ SkipSelf(c) \/ ReadContender(c)
               \/ Wfe(c) \/ RereadTicket(c) \/ Sev(c)
        PROVE  UNCHANGED LockState
    BY <1>5, Zenon DEF ScanTicket, PublishTicket, SkipSelf, ReadContender, Wfe,
                RereadTicket, Sev, LockState, TypeOK
  <1> QED
    BY <1>1, <1>2, <1>3, <1>4, <1>5, Zenon DEF Next, Progress, Mutex!Next

(* The bakery lock implements the abstract lock MutexLock.                 *)
THEOREM BakeryImplementsMutex == Spec => ImplementsMutex
  <1>1. Init => Mutex!Init
    BY Zenon DEF Init, Mutex!Init, LockState
  <1> QED
    BY <1>1, SpecIInv, MutexStep, PTL DEF Spec, ImplementsMutex, Mutex!Spec

-----------------------------------------------------------------------------
\* A CPU that was in line when c called, and has not released the lock since,
\* is still in line, and c is behind it.
AheadInv ==
    /\ ahead \in [Cpus -> SUBSET Cpus]
    /\ \A c \in Cpus : \A d \in ahead[c] : d # c /\ InLine(d) /\ Behind(c, d)

(* A CPU leaves the line of bakery_lock_get only by bakery_lock_release.   *)
LEMMA StaysInLine ==
    ASSUME TypeOK, NEW c \in Cpus, NEW d \in Cpus, InLine(d),
           StartChoosing(c) \/ (Progress(c) /\ (pc[c] = "locked" => c # d))
    PROVE  InLine(d)'
  BY Zenon
  DEF StartChoosing, Progress, ScanTicket, PublishTicket, SkipSelf, ReadContender,
      Wfe, RereadTicket, LockAcquired, ReleaseTicket, Sev, TypeOK, InLine

(* A CPU that calls bakery_lock_get has still to read every ticket that is *)
(* in line, and stays behind its owner until the owner releases the lock.  *)
LEMMA AheadStep == IInv /\ AheadInv /\ [MCNext]_mcvars => AheadInv'
  <1> SUFFICES ASSUME IInv, AheadInv, [MCNext]_mcvars PROVE AheadInv'
    BY Zenon
  <1>0. TypeOK
    BY Zenon DEF IInv
  <1>1. CASE UNCHANGED mcvars
    BY <1>1, Zenon DEF mcvars, vars, AheadInv, InLine, Behind, Prio
  <1>2. ASSUME NEW p \in Cpus, MCStart(p) PROVE AheadInv'
    <2>a. ahead' \in [Cpus -> SUBSET Cpus]
      BY <1>2, Zenon DEF MCStart, AheadInv
    <2> SUFFICES ASSUME NEW c \in Cpus, NEW d \in ahead'[c]
                 PROVE  d # c /\ InLine(d)' /\ Behind(c, d)'
      BY <2>a, Zenon DEF AheadInv
    <2>0. StartChoosing(p) /\ Next
      BY <1>2, Zenon DEF MCStart, Next
    <2>1. CASE c = p
      <3>1. ahead'[p] = {e \in Cpus : InLine(e)}
        BY <1>2, Zenon DEF MCStart, AheadInv
      <3>2. d \in Cpus
        BY <2>1, <3>1, Zenon
      <3>3. InLine(d)
        BY <2>1, <3>1, Zenon
      <3>4. d # p /\ InLine(d)'
        BY <1>0, <2>0, <3>2, <3>3, StaysInLine, Zenon DEF StartChoosing, InLine
      <3>5. pc'[p] = "scan" /\ they'[p] = 0 /\ 0 <= d
        BY <1>0, <2>0, <3>2 DEF StartChoosing, TypeOK, Cpus
      <3> QED
        BY <2>1, <3>2, <3>4, <3>5, Zenon DEF Behind
    <2>2. CASE c # p
      <3>1. d \in ahead[c]
        BY <1>2, <2>2, Zenon DEF MCStart, AheadInv
      <3>2. d \in Cpus /\ d # c /\ InLine(d) /\ Behind(c, d)
        BY <3>1, Zenon DEF AheadInv
      <3>3. InLine(d)'
        BY <1>0, <2>0, <3>2, StaysInLine, Zenon
      <3> QED
        BY <2>0, <3>2, <3>3, BehindStep, Zenon
    <2> QED
      BY <2>1, <2>2, Zenon
  <1>3. ASSUME NEW p \in Cpus, MCProgress(p) PROVE AheadInv'
    <2>a. ahead' \in [Cpus -> SUBSET Cpus]
      BY <1>3, Zenon DEF MCProgress, AheadInv
    <2> SUFFICES ASSUME NEW c \in Cpus, NEW d \in ahead'[c]
                 PROVE  d # c /\ InLine(d)' /\ Behind(c, d)'
      BY <2>a, Zenon DEF AheadInv
    <2>0. Progress(p) /\ Next
      BY <1>3, Zenon DEF MCProgress, Next
    <2>1. d \in ahead[c] /\ (pc[p] = "locked" => p # d)
      BY <1>3, Zenon DEF MCProgress, AheadInv
    <2>2. d \in Cpus /\ d # c /\ InLine(d) /\ Behind(c, d)
      BY <2>1, Zenon DEF AheadInv
    <2>3. InLine(d)'
      BY <1>0, <2>0, <2>1, <2>2, StaysInLine, Zenon
    <2> QED
      BY <2>0, <2>2, <2>3, BehindStep, Zenon
  <1> QED
    BY <1>1, <1>2, <1>3, Zenon DEF MCNext

(* First come, first served, for any number of CPUs and of calls: a CPU    *)
(* gets the lock only after all that were in line when it called           *)
(* bakery_lock_get have had and released it.                               *)
THEOREM FirstComeFirstServedHolds == MCSpec => []FirstComeFirstServed
  <1>1. MCInit => Init /\ AheadInv
    BY Zenon DEF MCInit, AheadInv
  <1>2. [MCNext]_mcvars => [Next]_vars
    BY Zenon DEF MCNext, MCStart, MCProgress, Next, mcvars, vars
  <1>3. IInv /\ AheadInv => FirstComeFirstServed
    <2> SUFFICES ASSUME IInv, AheadInv, NEW c \in Cpus, pc[c] = "locked", NEW d \in ahead[c]
                 PROVE  FALSE
      BY Zenon DEF FirstComeFirstServed
    <2>1. d \in Cpus /\ Behind(c, d) /\ they[c] = N
      BY Zenon DEF IInv, AheadInv, IndexOf
    <2>2. ~(N <= d)
      BY <2>1, BakeryAssumption DEF Cpus
    <2> QED
      BY <2>1, <2>2 DEF Behind, InLine
  <1> QED
    BY <1>1, <1>2, <1>3, InitIInv, NextIInv, AheadStep, PTL DEF MCSpec
=============================================================================
