------------------------- MODULE PsciLastCpuProofs -------------------------
(***************************************************************************)
(* psci_is_last_on_cpu_safe and psci_are_all_cpus_on_safe are right for    *)
(* any number of CPUs below a common root domain, and so is                *)
(* psci_stop_other_cores when nobody is turned on meanwhile.               *)
(*                                                                         *)
(* The reader cannot assume that a CPU it has seen OFF stays OFF: a CPU it *)
(* has not come to yet may turn that one on.  What is invariant is that in *)
(* this case somebody it has not come to yet is up or on the way up, and   *)
(* cannot go off before the lock is released, so the answer will be no.    *)
(* A CPU whose CPU_ON may still fail does not count as on the way up.      *)
(***************************************************************************)
EXTENDS PsciLastCpu, TLAPS

\* What a CPU does determines the affinity state that others read.
StatesAgree ==
    /\ aff \in [CPUs -> {"OFF", "ON_PENDING", "ON"}]
    /\ run \in [CPUs -> {"up", "dying", "down", "called", "boot"}]
    /\ \A c \in CPUs : /\ aff[c] = "OFF" <=> run[c] = "down"
                       /\ aff[c] = "ON_PENDING" <=> run[c] = "called" \/ run[c] = "boot"

\* The calls of CPU_ON under way are for different CPUs, none of which has
\* started: each call holds the lock of its target (psci_spin_lock_cpu).
Calls ==
    /\ target \in [CPUs -> Others \cup {None}]
    /\ \A c \in CPUs : target[c] # None => run[target[c]] = "called"
    /\ \A c, d \in CPUs : target[c] = target[d] /\ target[c] # None => c = d

\* The control points of each question, and the lock of the safe one.
Control ==
    /\ idx \in 0 .. N /\ lock \in [{Root[c] : c \in CPUs} -> CPUs \cup {None}]
    /\ kind \in Kinds
    /\ kind \in Safe => pc \in {"idle", "scan", "unlock_yes", "unlock_no", "yes", "no"}
    /\ kind = "stop" => pc \in {"idle", "ask", "wait", "scan", "final", "delay", "yes", "no"}
    /\ kind \in Safe /\ pc \in {"scan", "unlock_yes", "unlock_no"} => lock[Mine] = 0
    /\ pc \in {"wait", "delay"} => idx = 0

\* A CPU that is up, or on the way up, and has not been read.
Unread(d) == d \in Others /\ d >= idx /\ run[d] \in {"up", "boot"}

\* What is known of the CPUs that have been read.
Prefix ==
    /\ kind = "last_safe" /\ pc = "scan" =>
          \A c \in Others : c < idx /\ aff[c] # "OFF" => \E d \in Others : Unread(d)
    /\ kind = "stop" /\ ~hotplug /\ pc \in {"scan", "final"} => \A c \in Others : c < idx => aff[c] = "OFF"

\* A positive answer that is on its way or has been given.
Answer ==
    /\ kind = "last_safe" /\ pc \in {"unlock_yes", "yes"} => Alone
    /\ kind = "stop" /\ ~hotplug /\ WaitMs # 0 /\ pc = "yes" => Alone

IInv == StatesAgree /\ Calls /\ Control /\ Prefix /\ Answer

\* All CPUs are below one root.
Premise == \A c \in CPUs : Root[c] = Root[0]

\* The invariant holds before the first question (Init of psci_setup's states).
LEMMA InitInv == Init => IInv
<1> SUFFICES ASSUME Init PROVE IInv
    BY Zenon
<1> USE LastCpuAssumption DEF LastCpuAssumption, CPUs, Others, asks
<1>1. StatesAgree
    BY Zenon DEF Init, StatesAgree
<1>5. Calls
    BY Zenon DEF Init, Calls
<1>2. Control
    BY DEF Init, Control, None, Kinds, Safe
<1>3. Prefix
    BY Zenon DEF Init, Prefix
<1>4. Answer
    BY Zenon DEF Init, Answer
<1> QED BY <1>1, <1>2, <1>3, <1>4, <1>5, Zenon DEF IInv

\* The end of a call of CPU_ON: the target starts, or it is OFF again
\* (psci_cpu_on_start after pwr_domain_on).
LEMMA OnEnds ==
    ASSUME StatesAgree, Calls, NEW c \in CPUs, pwr_domain_on(c)
    PROVE  \E t \in Others :
              /\ run[t] = "called" /\ aff[t] = "ON_PENDING" /\ t = target[c]
              /\ \/ run' = [run EXCEPT ![t] = "boot"] /\ aff' = aff /\ failed' = failed
                 \/ /\ run' = [run EXCEPT ![t] = "down"] /\ aff' = [aff EXCEPT ![t] = "OFF"]
                    /\ failed' = IF lock[Mine] = 0 THEN failed \cup {t} ELSE failed
<1>1. target[c] \in Others /\ run[target[c]] = "called"
    BY Zenon DEF Calls, pwr_domain_on
<1>2. aff[target[c]] = "ON_PENDING"
    BY <1>1, Zenon DEF StatesAgree, Others
<1> QED BY <1>1, <1>2, Zenon DEF pwr_domain_on

\* The affinity state follows what the CPU does in every step
\* (psci_cpu_on_start, psci_set_pwr_domains_to_run, psci_do_cpu_off).
LEMMA StatesAgreeStep == ASSUME StatesAgree, Calls, [Next]_vars PROVE StatesAgree'
<1> USE DEF StatesAgree
<1>1. ASSUME NEW c \in CPUs, NEW t \in Others, psci_cpu_on_start(c, t) PROVE StatesAgree'
    BY <1>1, Zenon DEF psci_cpu_on_start, Others
<1>2. ASSUME NEW c \in CPUs, psci_warmboot_entrypoint(c) PROVE StatesAgree'
    BY <1>2, Zenon DEF psci_warmboot_entrypoint
<1>3. ASSUME NEW c \in CPUs, psci_do_cpu_off(c) PROVE StatesAgree'
    BY <1>3, Zenon DEF psci_do_cpu_off
<1>4. ASSUME NEW c \in CPUs, psci_set_aff_info_state_off(c) PROVE StatesAgree'
    BY <1>4, Zenon DEF psci_set_aff_info_state_off
<1>5. ASSUME NEW c \in CPUs, pwr_domain_on(c) PROVE StatesAgree'
  <2>1. PICK t \in Others :
           \/ run' = [run EXCEPT ![t] = "boot"] /\ aff' = aff /\ aff[t] = "ON_PENDING"
           \/ run' = [run EXCEPT ![t] = "down"] /\ aff' = [aff EXCEPT ![t] = "OFF"]
    BY <1>5, OnEnds, Zenon
  <2> QED BY <2>1, Zenon DEF Others
<1>6. CASE UNCHANGED <<aff, run>>
    BY <1>6, Zenon
<1>7. (\E k \in Kinds : Ask(k)) \/ AskToStop \/ Wait \/ Scan \/ Delay \/ Unlock \/ Again \/ UNCHANGED vars => UNCHANGED <<aff, run>>
    BY Zenon DEF Ask, AskToStop, Wait, Scan, Delay, Unlock, Again, vars
<1> QED BY <1>1, <1>2, <1>3, <1>4, <1>5, <1>6, <1>7, Zenon DEF Next, OtherStep

\* A CPU for which a call is under way is not called again, and stays where it
\* is until the call ends.
LEMMA CallsStep == ASSUME StatesAgree, Calls, [Next]_vars PROVE Calls'
<1>0. None \notin CPUs /\ Others \subseteq CPUs /\ None \notin Others
    BY LastCpuAssumption DEF LastCpuAssumption, CPUs, Others, None
<1>1. ASSUME NEW c \in CPUs, NEW t \in Others, psci_cpu_on_start(c, t) PROVE Calls'
  <2>1. run[t] = "down" /\ \A d \in CPUs : target[d] # t
    BY <1>0, <1>1, Zenon DEF psci_cpu_on_start, StatesAgree, Calls
  <2> QED BY <1>0, <1>1, <2>1 DEF psci_cpu_on_start, StatesAgree, Calls
<1>2. ASSUME NEW c \in CPUs, pwr_domain_on(c) PROVE Calls'
  <2>1. \A d \in CPUs : target'[d] # None => d # c /\ target'[d] = target[d] /\ target[d] # target[c]
    BY <1>2, Zenon DEF pwr_domain_on, Calls
  <2>2. \A d \in CPUs : d # target[c] => run'[d] = run[d]
    BY <1>2, Zenon DEF pwr_domain_on, StatesAgree
  <2>3. target' \in [CPUs -> Others \cup {None}]
    BY <1>2, Zenon DEF pwr_domain_on, Calls
  <2> QED BY <1>0, <2>1, <2>2, <2>3, Zenon DEF Calls
<1>3. ASSUME NEW c \in CPUs, psci_warmboot_entrypoint(c) \/ psci_do_cpu_off(c) \/ psci_set_aff_info_state_off(c)
      PROVE  Calls'
  <2>1. run[c] # "called" /\ target' = target
    BY <1>3 DEF psci_warmboot_entrypoint, psci_do_cpu_off, psci_set_aff_info_state_off
  <2>2. \A d \in CPUs : run[d] = "called" => run'[d] = "called"
    BY <1>3, <2>1, Zenon DEF psci_warmboot_entrypoint, psci_do_cpu_off, psci_set_aff_info_state_off, StatesAgree
  <2> QED BY <1>0, <2>1, <2>2, Zenon DEF Calls
<1>4. CASE UNCHANGED <<run, target>>
    BY <1>4, Zenon DEF Calls
<1>5. (\E k \in Kinds : Ask(k)) \/ AskToStop \/ Wait \/ Scan \/ Delay \/ Unlock \/ Again \/ UNCHANGED vars => UNCHANGED <<run, target>>
    BY Zenon DEF Ask, AskToStop, Wait, Scan, Delay, Unlock, Again, vars
<1> QED BY <1>1, <1>2, <1>3, <1>4, <1>5, Zenon DEF Next, OtherStep

\* The other CPUs do not interfere with where CPU 0 is in its question, nor
\* with the lock it holds.
LEMMA OthersKeep ==
    ASSUME NEW c \in CPUs, OtherStep(c)
    PROVE  UNCHANGED <<asks, pc, idx, lock, wait_ms, delays>>
BY Zenon DEF OtherStep, psci_cpu_on_start, pwr_domain_on, psci_warmboot_entrypoint, psci_do_cpu_off,
             psci_set_aff_info_state_off, question

\* The lock is held from the question to its answer (psci_is_last_on_cpu_safe).
LEMMA ControlStep == Control /\ [Next]_vars => Control'
<1> SUFFICES ASSUME Control, [Next]_vars PROVE Control'
    BY Zenon
<1> USE LastCpuAssumption DEF LastCpuAssumption, Control, Mine, asks
<1>0. 0 \in CPUs /\ Root[0] \in {Root[c] : c \in CPUs} /\ N \in Nat
    BY DEF CPUs
<1>1. ASSUME NEW k \in Kinds, Ask(k) PROVE Control'
    BY <1>0, <1>1 DEF Ask, Safe, None, Kinds
<1>2. CASE AskToStop
    BY <1>0, <1>2 DEF AskToStop, Safe
<1>3. CASE Wait
    BY <1>0, <1>3, Zenon DEF Wait
<1>4. CASE Scan
    BY <1>0, <1>4 DEF Scan, Answered, Safe
<1>5. CASE Delay
    BY <1>0, <1>5, Zenon DEF Delay
<1>6. CASE Unlock
    BY <1>0, <1>6, Zenon DEF Unlock, None
<1>7. CASE Again
    BY <1>0, <1>7 DEF Again
<1>8. CASE UNCHANGED <<asks, pc, idx, lock>>
    BY <1>8, Zenon
<1>9. ASSUME NEW c \in CPUs, OtherStep(c) PROVE UNCHANGED <<asks, pc, idx, lock>>
    BY <1>9, OthersKeep, Zenon
<1>10. UNCHANGED vars => UNCHANGED <<asks, pc, idx, lock>>
    BY Zenon DEF vars, question
<1> QED BY <1>1, <1>2, <1>3, <1>4, <1>5, <1>6, <1>7, <1>8, <1>9, <1>10, Zenon DEF Next

\* A step of another CPU keeps what is known of those that have been read.
LEMMA PrefixOther ==
    ASSUME Premise, IInv, NEW c \in CPUs, OtherStep(c) PROVE Prefix'
<1> USE LastCpuAssumption DEF LastCpuAssumption, CPUs, Others, asks
<1>0. /\ UNCHANGED <<asks, pc, idx, lock>> /\ idx \in 0 .. N
      /\ StatesAgree /\ Calls /\ Prefix
    BY OthersKeep, Zenon DEF IInv, Control
<1>a. kind = "last_safe" /\ pc = "scan" => lock[Root[c]] # None
    BY DEF Premise, IInv, Control, Mine, None, Safe
<1>1. ASSUME NEW t \in Others, psci_cpu_on_start(c, t) PROVE Prefix'
  <2>1. CASE kind = "last_safe" /\ pc = "scan"
    <3>1. c \in Others /\ run[c] = "up" /\ aff[c] # "OFF"
        BY <1>0, <1>1, <2>1, Zenon DEF psci_cpu_on_start, StatesAgree
    <3>2. PICK d \in Others : Unread(d)
        BY <1>0, <2>1, <3>1 DEF Prefix, Unread
    <3>3. Unread(d)'
        BY <1>0, <1>1, <3>2, Zenon DEF psci_cpu_on_start, Unread, StatesAgree
    <3> QED BY <1>0, <2>1, <3>3, Zenon DEF Prefix
  <2>2. CASE kind # "last_safe"
    BY <1>0, <1>1, <2>2, Zenon DEF Prefix, Premise, psci_cpu_on_start
  <2>3. CASE kind = "last_safe" /\ pc # "scan"
    BY <1>0, <2>3, Zenon DEF Prefix
  <2> QED BY <2>1, <2>2, <2>3, Zenon
<1>2. CASE psci_warmboot_entrypoint(c)
    BY <1>0, <1>a, <1>2, Zenon DEF Prefix, psci_warmboot_entrypoint, StatesAgree
<1>3. CASE psci_do_cpu_off(c)
    BY <1>0, <1>a, <1>3 DEF Prefix, psci_do_cpu_off, StatesAgree
<1>4. CASE psci_set_aff_info_state_off(c)
  <2>1. \A d \in Others : Unread(d) => Unread(d)'
    BY <1>0, <1>4, Zenon DEF psci_set_aff_info_state_off, Unread, StatesAgree
  <2>2. \A d \in Others : aff[d] = "OFF" => aff'[d] = "OFF"
    BY <1>0, <1>4, Zenon DEF psci_set_aff_info_state_off, StatesAgree
  <2> QED BY <1>0, <2>1, <2>2, Zenon DEF Prefix
<1>5. CASE pwr_domain_on(c)
  <2>0. PICK t \in Others :
           /\ run[t] = "called"
           /\ \/ run' = [run EXCEPT ![t] = "boot"] /\ aff' = aff
              \/ run' = [run EXCEPT ![t] = "down"] /\ aff' = [aff EXCEPT ![t] = "OFF"]
    BY <1>0, <1>5, OnEnds, Zenon
  <2>1. \A d \in Others : Unread(d) => Unread(d)'
    BY <1>0, <2>0 DEF Unread, StatesAgree
  <2>2. \A d \in Others : aff[d] = "OFF" => aff'[d] = "OFF"
    BY <2>0, <1>0, Zenon DEF StatesAgree
  <2> QED BY <1>0, <2>1, <2>2, Zenon DEF Prefix
<1> QED BY <1>1, <1>2, <1>3, <1>4, <1>5, Zenon DEF OtherStep

\* Reading one more CPU that is OFF keeps what is known (psci_is_last_on_cpu).
LEMMA PrefixScan ==
    ASSUME IInv, Scan PROVE Prefix'
<1> USE LastCpuAssumption DEF LastCpuAssumption, CPUs, Others, asks
<1>0. /\ idx \in 0 .. N /\ N \in Nat /\ StatesAgree /\ Prefix
      /\ UNCHANGED <<asks, aff, run>>
    BY Zenon DEF IInv, Control, Scan
<1>1. CASE idx < N /\ Agrees(idx)
  <2>1. idx' = idx + 1 /\ pc' = pc
    BY <1>1, Zenon DEF Scan
  <2>2. CASE kind = "last_safe" /\ pc = "scan"
    <3>1. idx = 0 \/ aff[idx] = "OFF"
        BY <1>1, <2>2, Zenon DEF Agrees
    <3>2. \A d \in Others : Unread(d) => Unread(d)'
        BY <1>0, <2>1, <3>1 DEF Unread, StatesAgree
    <3>3. \A d \in Others : d < idx' /\ aff'[d] # "OFF" => d < idx /\ aff[d] # "OFF"
        BY <1>0, <2>1, <3>1
    <3> QED BY <1>0, <2>1, <2>2, <3>2, <3>3, Zenon DEF Prefix
  <2>3. CASE kind = "stop"
    BY <1>0, <1>1, <2>1, <2>3 DEF Prefix, Agrees
  <2>4. CASE kind # "stop" /\ ~(kind = "last_safe" /\ pc = "scan")
    BY <1>0, <2>1, <2>4, Zenon DEF Prefix
  <2> QED BY <2>2, <2>3, <2>4, Zenon
<1>2. CASE ~(idx < N /\ Agrees(idx))
    BY <1>0, <1>2 DEF Scan, Prefix
<1> QED BY <1>1, <1>2, Zenon

\* The other steps of the caller start a scan with nothing read or leave it.
LEMMA PrefixCaller ==
    ASSUME IInv, (\E k \in Kinds : Ask(k)) \/ AskToStop \/ Wait \/ Delay \/ Unlock \/ Again
    PROVE Prefix'
<1> USE LastCpuAssumption DEF LastCpuAssumption, CPUs, Others, asks
<1>1. CASE \E k \in Kinds : Ask(k)
    BY <1>1 DEF Ask, Prefix, Safe, Kinds
<1>2. CASE AskToStop \/ Delay \/ Unlock \/ Again
    BY <1>2, Zenon DEF AskToStop, Delay, Unlock, Again, Prefix
<1>3. CASE Wait
    BY <1>3 DEF Wait, Prefix, IInv, Control
<1> QED BY <1>1, <1>2, <1>3, Zenon

\* What has been read is known after every step.
LEMMA PrefixStep == ASSUME Premise, IInv, [Next]_vars PROVE Prefix'
<1>1. UNCHANGED vars => Prefix'
    BY DEF vars, question, asks, IInv, Prefix, Unread
<1> QED BY <1>1, PrefixOther, PrefixScan, PrefixCaller, Zenon DEF Next

\* A positive answer stays true until the caller goes on: nobody is left who
\* could turn a CPU on.
LEMMA AnswerStep == ASSUME Premise, IInv, [Next]_vars PROVE Answer'
<1> USE LastCpuAssumption DEF LastCpuAssumption, CPUs, Others, asks
<1>0. StatesAgree /\ Calls /\ Control /\ Prefix /\ Answer
    BY Zenon DEF IInv
<1>1. ASSUME NEW c \in CPUs, OtherStep(c) PROVE Answer'
  <2>1. UNCHANGED <<asks, pc, idx>>
    BY <1>1, OthersKeep, Zenon
  <2>2. CASE Alone /\ pc # "idle"
    <3>1. ~pwr_domain_on(c)
        BY <1>0, <2>2, OnEnds, Zenon DEF Alone
    <3>2. Alone'
        BY <1>0, <1>1, <2>2, <3>1, Zenon DEF Alone, OtherStep, psci_cpu_on_start, psci_warmboot_entrypoint,
                                psci_do_cpu_off, psci_set_aff_info_state_off, StatesAgree
    <3> QED BY <3>2, Zenon DEF Answer
  <2>3. CASE pc = "idle" \/ ~Alone
    BY <1>0, <2>1, <2>3, Zenon DEF Answer
  <2> QED BY <2>2, <2>3, Zenon
<1>2. CASE Scan
  <2>1. UNCHANGED <<asks, aff>> /\ idx \in 0 .. N
    BY <1>0, <1>2, Zenon DEF Scan, Control
  <2>2. CASE pc' \in {"unlock_yes", "yes"} /\ kind = "last_safe"
    <3>1. pc = "scan" /\ idx = N
        BY <1>0, <1>2, <2>2, Zenon DEF Scan, Answered, Safe, Control
    <3>2. Alone
        BY <1>0, <2>2, <3>1 DEF Prefix, Unread, Alone
    <3> QED BY <2>1, <3>2, Zenon DEF Answer, Alone
  <2>3. CASE pc' = "yes" /\ kind = "stop" /\ ~hotplug
    <3>1. pc = "final" /\ idx = N
        BY <1>0, <1>2, <2>3, Zenon DEF Scan, Answered, Safe, Control
    <3>2. Alone
        BY <1>0, <2>3, <3>1 DEF Prefix, Alone
    <3> QED BY <2>1, <3>2, Zenon DEF Answer, Alone
  <2>4. CASE /\ ~(pc' \in {"unlock_yes", "yes"} /\ kind = "last_safe")
             /\ ~(pc' = "yes" /\ kind = "stop" /\ ~hotplug)
    BY <2>1, <2>4, Zenon DEF Answer
  <2> QED BY <2>2, <2>3, <2>4, Zenon
<1>3. CASE Unlock
    BY <1>0, <1>3, Zenon DEF Unlock, Answer, Alone, Control
<1>4. CASE (\E k \in Kinds : Ask(k)) \/ AskToStop \/ Wait \/ Delay \/ Again
    BY <1>0, <1>4, Zenon DEF Ask, AskToStop, Wait, Delay, Again, Answer, Control, Safe
<1>5. CASE UNCHANGED vars
    BY <1>0, <1>5, Zenon DEF vars, question, Answer, Alone
<1> QED BY <1>1, <1>2, <1>3, <1>4, <1>5, Zenon DEF Next

\* The invariant is inductive.
LEMMA StepInv == ASSUME Premise, IInv, [Next]_vars PROVE IInv'
BY StatesAgreeStep, CallsStep, ControlStep, PrefixStep, AnswerStep, Zenon DEF IInv

\* For any number of CPUs below one root domain, a CPU to which
\* psci_is_last_on_cpu_safe answers yes is the last one, whatever the others
\* do; so is one whose psci_stop_other_cores succeeds after a wait, if nobody
\* is turned on meanwhile.
THEOREM LastIsAlone == ASSUME Premise PROVE Spec => []LastMeansAlone
<1>1. Init => IInv
    BY InitInv, Zenon
<1>2. IInv /\ [Next]_vars => IInv'
    BY StepInv, Zenon
<1>3. IInv => LastMeansAlone
  <2>1. ASSUME IInv PROVE LastMeansAlone
    BY <2>1, LastCpuAssumption, Zenon DEF IInv, Answer, LastMeansAlone, LastCpuAssumption
  <2> QED BY <2>1, Zenon
<1> QED BY <1>1, <1>2, <1>3, PTL DEF Spec

\* While the lock is held for psci_are_all_cpus_on_safe, nobody begins to go
\* off, and a CPU that has been read is off only if it was going off before or
\* its CPU_ON has failed.
Leavers ==
    kind = "all_safe" /\ pc \in {"scan", "unlock_yes"} =>
        /\ \A c \in Others : run[c] = "dying" => c \in leaving
        /\ \A c \in Others : (c < idx \/ pc = "unlock_yes") /\ aff[c] = "OFF" => c \in leaving \cup failed

\* Leavers is inductive, with the lock and the states of IInv.
LEMMA LeaversStep == ASSUME Premise, IInv, Leavers, [Next]_vars PROVE Leavers'
<1> USE LastCpuAssumption DEF LastCpuAssumption, CPUs, Others, asks
<1>0. StatesAgree /\ Calls /\ Control
    BY Zenon DEF IInv
<1>1. ASSUME NEW c \in CPUs, OtherStep(c) PROVE Leavers'
  <2>0. UNCHANGED <<asks, pc, idx, lock>>
    BY <1>1, OthersKeep, Zenon
  <2>1. kind = "all_safe" /\ pc \in {"scan", "unlock_yes"} => lock[Root[c]] # None /\ lock[Mine] = 0
    BY <1>0 DEF Premise, Control, Mine, None, Safe
  <2>2. ASSUME NEW t \in Others, psci_cpu_on_start(c, t) PROVE Leavers'
    BY <1>0, <2>0, <2>2, Zenon DEF psci_cpu_on_start, Leavers, StatesAgree, question
  <2>3. CASE psci_warmboot_entrypoint(c)
    BY <1>0, <2>0, <2>3, Zenon DEF psci_warmboot_entrypoint, Leavers, StatesAgree, question
  <2>4. CASE psci_do_cpu_off(c)
    BY <2>0, <2>1, <2>4, Zenon DEF psci_do_cpu_off, Leavers
  <2>5. CASE psci_set_aff_info_state_off(c)
    BY <1>0, <2>0, <2>5, Zenon DEF psci_set_aff_info_state_off, Leavers, StatesAgree, question
  <2>6. CASE pwr_domain_on(c)
    <3>1. PICK t \in Others :
             /\ run[t] = "called"
             /\ \/ run' = [run EXCEPT ![t] = "boot"] /\ aff' = aff /\ failed' = failed
                \/ /\ run' = [run EXCEPT ![t] = "down"] /\ aff' = [aff EXCEPT ![t] = "OFF"]
                   /\ failed' = IF lock[Mine] = 0 THEN failed \cup {t} ELSE failed
        BY <1>0, <2>6, OnEnds, Zenon
    <3> QED BY <1>0, <2>0, <2>1, <3>1 DEF Leavers, StatesAgree
  <2> QED BY <1>1, <2>2, <2>3, <2>4, <2>5, <2>6, Zenon DEF OtherStep
<1>2. CASE Scan
  <2>1. UNCHANGED <<asks, failed, aff, run>> /\ idx \in 0 .. N
    BY <1>0, <1>2, Zenon DEF Scan, Control
  <2>2. CASE idx < N /\ Agrees(idx)
    BY <1>2, <2>1, <2>2 DEF Scan, Agrees, Leavers
  <2>3. CASE ~(idx < N /\ Agrees(idx))
    BY <1>0, <1>2, <2>1, <2>3 DEF Scan, Agrees, Answered, Safe, Control, Leavers
  <2> QED BY <2>2, <2>3, Zenon
<1>3. CASE \E k \in Kinds : Ask(k)
    BY <1>3 DEF Ask, Leavers, Safe
<1>4. CASE AskToStop \/ Wait \/ Delay \/ Unlock \/ Again
    BY <1>0, <1>4, Zenon DEF AskToStop, Wait, Delay, Unlock, Again, Leavers, Control, Safe
<1>5. CASE UNCHANGED vars
    BY <1>5, Zenon DEF vars, question, Leavers
<1> QED BY <1>1, <1>2, <1>3, <1>4, <1>5, Zenon DEF Next

\* For any number of CPUs below one root domain, when psci_are_all_cpus_on_safe
\* answers yes, no CPU is off but those that had released the locks in
\* psci_do_cpu_off before the question was asked and those whose CPU_ON was
\* under way and has failed since.
THEOREM AllAreOn == ASSUME Premise PROVE Spec => []AllOnMeansOn
<1>1. Init => IInv /\ Leavers
    BY InitInv, Zenon DEF Init, Leavers
<1>2. IInv /\ Leavers /\ [Next]_vars => (IInv /\ Leavers)'
    BY StepInv, LeaversStep, Zenon
<1>3. Leavers => AllOnMeansOn
    BY Zenon DEF Leavers, AllOnMeansOn
<1> QED BY <1>1, <1>2, <1>3, PTL DEF Spec

\* Both answers of the locked queries are true when they are given, for any
\* number of CPUs below one root domain, whatever CPU_ON calls succeed or fail
\* meanwhile (psci_is_last_on_cpu_safe, psci_are_all_cpus_on_safe,
\* psci_stop_other_cores).
THEOREM AnswersHold == ASSUME Premise PROVE Spec => []AnswersAreTrue
<1>1. LastMeansAlone /\ AllOnMeansOn => AnswersAreTrue
    BY Zenon DEF AnswersAreTrue
<1> QED BY <1>1, LastIsAlone, AllAreOn, PTL

\* The time psci_stop_other_cores has spent and the time it has left make up
\* the timeout; it gives up the wait early only when it is alone.
Timeout ==
    /\ wait_ms \in Nat /\ delays \in Nat
    /\ pc \in {"idle", "ask"} => wait_ms = WaitMs /\ delays = 0
    /\ pc = "wait" => wait_ms + delays = WaitMs
    /\ kind = "stop" /\ pc \in {"scan", "delay"} => wait_ms + delays + 1 = WaitMs
    /\ kind = "stop" /\ ~hotplug =>
         /\ pc = "scan" => \A c \in Others : c < idx => aff[c] = "OFF"
         /\ pc = "final" => delays = WaitMs \/ Alone
         /\ pc = "no" => delays = WaitMs

TimeoutInv == StatesAgree /\ Calls /\ Control /\ Timeout

\* Timeout is inductive: the wait counts every mdelay, and when nobody is
\* turned on a caller that was found alone stays alone (psci_stop_other_cores).
LEMMA TimeoutStep == ASSUME TimeoutInv, [Next]_vars PROVE Timeout'
<1> USE LastCpuAssumption DEF LastCpuAssumption, CPUs, Others, asks
<1>0. StatesAgree /\ Calls /\ Control /\ Timeout
    BY Zenon DEF TimeoutInv
<1>1. ASSUME NEW c \in CPUs, OtherStep(c) PROVE Timeout'
  <2>1. UNCHANGED <<asks, pc, idx, wait_ms, delays>>
    BY <1>1, OthersKeep, Zenon
  <2>2. ASSUME pwr_domain_on(c) PROVE \A d \in Others : aff[d] = "OFF" => aff'[d] = "OFF"
    <3>1. PICK t \in Others : aff' = aff \/ aff' = [aff EXCEPT ![t] = "OFF"]
        BY <1>0, <2>2, OnEnds, Zenon
    <3> QED BY <1>0, <3>1, Zenon DEF StatesAgree
  <2>3. ~hotplug => \A d \in Others : aff[d] = "OFF" => aff'[d] = "OFF"
    BY <1>0, <1>1, <2>2, Zenon DEF OtherStep, psci_cpu_on_start, psci_warmboot_entrypoint, psci_do_cpu_off,
                psci_set_aff_info_state_off, StatesAgree
  <2> QED BY <1>0, <2>1, <2>3, Zenon DEF Timeout, Alone
<1>2. CASE Scan
  <2>1. UNCHANGED <<asks, aff, wait_ms, delays>> /\ idx \in 0 .. N /\ pc \in {"scan", "final"}
    BY <1>0, <1>2, Zenon DEF Scan, Control
  <2>2. CASE kind # "stop"
    <3>1. kind' # "stop" /\ pc' \in {"scan", "unlock_yes", "unlock_no"}
        BY <1>0, <1>2, <2>1, <2>2 DEF Control, Kinds, Safe, Scan, Answered
    <3> QED BY <1>0, <2>1, <3>1, Zenon DEF Timeout
  <2>3. CASE kind = "stop" /\ idx < N /\ Agrees(idx)
    <3>1. pc' = pc /\ idx' = idx + 1
        BY <1>2, <2>3, Zenon DEF Scan
    <3>2. \A c \in Others : c < idx' => c < idx \/ aff[c] = "OFF"
        BY <2>1, <2>3, <3>1 DEF Agrees
    <3> QED BY <1>0, <2>1, <3>1, <3>2, Zenon DEF Timeout, Alone
  <2>4. CASE kind = "stop" /\ pc = "scan" /\ ~(idx < N /\ Agrees(idx))
    <3>1. pc' = IF idx = N THEN "final" ELSE "delay"
        BY <1>2, <2>4, Zenon DEF Scan, Answered, Safe
    <3>2. pc' = "final" /\ ~hotplug => Alone
        BY <1>0, <2>1, <2>4, <3>1 DEF Timeout, Alone
    <3> QED BY <1>0, <2>1, <2>4, <3>1, <3>2 DEF Timeout, Alone
  <2>5. CASE kind = "stop" /\ pc = "final" /\ ~(idx < N /\ Agrees(idx))
    <3>1. pc' = IF idx = N THEN "yes" ELSE "no"
        BY <1>2, <2>5, Zenon DEF Scan, Answered, Safe
    <3>2. pc' = "no" => ~Alone
        BY <2>1, <2>5, <3>1 DEF Agrees, Alone
    <3> QED BY <1>0, <2>1, <2>5, <3>1, <3>2 DEF Timeout, Alone
  <2> QED BY <2>1, <2>2, <2>3, <2>4, <2>5, Zenon
<1>3. CASE \E k \in Kinds : Ask(k)
    BY <1>0, <1>3 DEF Ask, Timeout, Safe, Kinds
<1>4. CASE AskToStop
    BY <1>0, <1>4 DEF AskToStop, Timeout
<1>5. CASE Wait \/ Delay
    BY <1>0, <1>5 DEF Wait, Delay, Timeout, Control, Safe, Kinds
<1>6. CASE Unlock \/ Again
    BY <1>0, <1>6 DEF Unlock, Again, Timeout, Control, Safe, Kinds
<1>7. CASE UNCHANGED vars
    BY <1>0, <1>7, Zenon DEF vars, question, Timeout, Alone
<1> QED BY <1>1, <1>2, <1>3, <1>4, <1>5, <1>6, <1>7, Zenon DEF Next

\* For any number of CPUs, any power domains above them and any timeout,
\* psci_stop_other_cores answers PSCI_E_DENIED only after the whole timeout,
\* when nobody is turned on meanwhile.
THEOREM DeniedOnlyAfterTimeout == Spec => []DeniedAfterTimeout
<1>1. Init => TimeoutInv
    BY InitInv, LastCpuAssumption DEF IInv, TimeoutInv, Timeout, Init, LastCpuAssumption
<1>2. TimeoutInv /\ [Next]_vars => TimeoutInv'
    BY StatesAgreeStep, CallsStep, ControlStep, TimeoutStep, Zenon DEF TimeoutInv
<1>3. TimeoutInv => DeniedAfterTimeout
    BY Zenon DEF TimeoutInv, Timeout, DeniedAfterTimeout
<1> QED BY <1>1, <1>2, <1>3, PTL DEF Spec
=============================================================================
