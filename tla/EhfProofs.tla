----------------------------- MODULE EhfProofs -----------------------------
(***************************************************************************)
(* Proofs about Ehf, for every set of priorities and every depth of        *)
(* nesting.  The safety properties follow from an inductive invariant that *)
(* ties the per-PE data to the stack of delegations: the priorities get    *)
(* strictly higher towards the top, the active and the running priorities  *)
(* are those of the frames, and the mask that the last deactivation will   *)
(* restore is the one the oldest delegation started from.                  *)
(***************************************************************************)
EXTENDS Ehf, TLAPS, WellFoundedInduction

Kinds == SecureKinds \cup {"interrupt", "explicit"}
Frames == [kind : Kinds, pri : Pris \cup {IdlePri}]

PeData == [active_pri_bits : SUBSET Pris, init_pri_mask : Masks \cup {NoMask},
           ns_pri_mask : NsMasks \cup {NoMask}, pmr : Masks,
           run : SUBSET SdeiPris, stop : {"no", "panic", "assert"}]

TypeInv == pe \in PeData /\ stack \in Seq(Frames) /\ ns_mask \in NsMasks

\* The priorities of the frames of s of a kind in K.
PrisOf(s, K) == {s[i].pri : i \in {j \in DOMAIN s : s[j].kind \in K}}

\* The top frame of s, and the frames below it.
Last(s) == s[Len(s)]
Front(s) == SubSeq(s, 1, Len(s) - 1)

\* The oldest delegation is a fast SMC: the mask of the normal world is stashed.
FastBelow(s) == s # <<>> /\ s[1].kind = "fast"
BaseMask(s, m) == IF FastBelow(s) THEN HighestNs ELSE m

\* A fast or a yielding SMC is the oldest delegation, if there is one, and
\* every delegation has a higher priority than those below it.
FrameOk(f) ==
    /\ f.kind \in {"fast", "yield"} => f.pri = IdlePri
    /\ f.kind = "mm" => f.pri = SpPri
    /\ f.kind \in {"interrupt", "explicit"} => f.pri \in SdeiPris

StackOk(s) ==
    /\ \A i \in 1 .. Len(s) : FrameOk(s[i])
    /\ \A i \in 1 .. Len(s) : s[i].kind \in {"fast", "yield"} => i = 1
    /\ \A i, j \in 1 .. Len(s) : i < j => s[j].pri < s[i].pri

\* The per-PE data d belong to the delegations s, with the normal world's mask m.
Consistent(d, s, m) ==
    /\ StackOk(s)
    /\ d.run = PrisOf(s, {"interrupt"})
    /\ d.active_pri_bits = PrisOf(s, {"explicit", "mm"})
    /\ d.ns_pri_mask = IF FastBelow(s) THEN m ELSE NoMask
    /\ d.active_pri_bits = {} => d.pmr = BaseMask(s, m)
    /\ d.active_pri_bits # {} => /\ d.init_pri_mask = BaseMask(s, m)
                                 /\ \A p \in d.active_pri_bits : d.pmr <= p

IInv ==
    /\ TypeInv /\ pe.stop # "assert"
    /\ pe.stop = "no" => Consistent(pe, stack, ns_mask)

-----------------------------------------------------------------------------
(* How the priorities, the masks of the normal world and the idle priority *)
(* are ordered.                                                            *)
LEMMA Priorities ==
    ASSUME NEW m \in NsMasks
    PROVE  /\ m \in Nat /\ HighestNs <= m /\ m # NoMask /\ HighestNs < IdlePri
           /\ HighestNs \in Nat /\ IdlePri \in Nat /\ HighestNs # NoMask
           /\ \A p \in Pris : p \in Nat /\ p < HighestNs /\ p < IdlePri /\ p < m
           /\ SpPri \in Pris /\ \A p \in SdeiPris : p \in Pris /\ SpPri < p
           /\ ~IS_PRI_SECURE(m) /\ ~IS_PRI_SECURE(HighestNs)
BY PrioritiesAssumption DEF Pris, NoMask, IS_PRI_SECURE

(* The minimum of a set of naturals is a member and no greater than any    *)
(* other.                                                                  *)
LEMMA MinNat ==
    ASSUME NEW T, T \subseteq Nat, T # {}
    PROVE  Min(T) \in T /\ \A y \in T : Min(T) <= y
<1> DEFINE R == OpToRel(<, Nat)
<1>1. \E x \in T : \A y \in T : ~(<<y, x>> \in R)
    BY WFMin, NatLessThanWellFounded, Zenon
<1>2. ASSUME NEW x \in Nat, NEW y \in Nat, y < x PROVE <<y, x>> \in R
    <2> DEFINE ss == <<y, x>>
    <2>1. ss \in Nat \X Nat /\ ss[1] < ss[2]
        BY <1>2, Zenon
    <2> HIDE DEF ss
    <2>2. ss \in OpToRel(<, Nat)
        BY <2>1, Zenon DEF OpToRel
    <2> QED BY <2>2, Zenon DEF ss
<1> HIDE DEF R
<1>3. PICK x \in T : \A y \in T : ~(<<y, x>> \in R)
    BY <1>1, Zenon
<1>4. ASSUME NEW y \in T PROVE x <= y
    <2>1. x \in Nat /\ y \in Nat
        BY Zenon
    <2>2. ~(y < x)
        BY <1>2, <1>3, <2>1, Zenon
    <2> QED BY <2>1, <2>2
<1> QED BY <1>4, Zenon DEF Min

(* The running priority is that of an active interrupt, if there is one.   *)
LEMMA RunningPriority ==
    ASSUME NEW m \in NsMasks, NEW s, s.run \subseteq SdeiPris
    PROVE  /\ RunPri(s) \in Nat
           /\ \A q \in s.run : RunPri(s) <= q
           /\ IS_PRI_SECURE(RunPri(s)) <=> s.run # {}
<1> DEFINE T == s.run \cup {IdlePri}
<1>1. T \subseteq Nat /\ T # {}
    BY Priorities
<1>2. RunPri(s) \in T /\ \A q \in T : RunPri(s) <= q
    BY <1>1, MinNat, Zenon DEF RunPri
<1>3. ASSUME s.run = {} PROVE ~IS_PRI_SECURE(RunPri(s))
    <2>1. RunPri(s) = IdlePri
        BY <1>2, <1>3, Zenon
    <2> QED BY <2>1, Priorities DEF IS_PRI_SECURE
<1>4. ASSUME s.run # {} PROVE IS_PRI_SECURE(RunPri(s))
    <2>1. PICK q \in s.run : TRUE
        BY <1>4, Zenon
    <2>2. RunPri(s) <= q /\ q < HighestNs /\ q \in Nat /\ RunPri(s) \in Nat /\ HighestNs \in Nat
        BY <1>1, <1>2, <2>1, Priorities, Zenon
    <2> QED BY <2>2 DEF IS_PRI_SECURE
<1> QED BY <1>1, <1>2, <1>3, <1>4, Zenon

(* What a successful ehf_activate_priority implies and does.               *)
LEMMA Activation ==
    ASSUME NEW m \in NsMasks, NEW s \in PeData, s.stop = "no", NEW p \in Pris,
           NEW r, r = ehf_activate_priority(s, p)
    PROVE  /\ r \in PeData /\ r.stop # "assert"
           /\ r.stop = "no" =>
                /\ \A q \in s.run : p < q
                /\ \A q \in s.active_pri_bits : p < q
                /\ p < s.pmr
                /\ r.active_pri_bits = s.active_pri_bits \cup {p} /\ r.pmr = p
                /\ r.run = s.run /\ r.ns_pri_mask = s.ns_pri_mask
                /\ r.init_pri_mask = IF s.active_pri_bits = {} THEN s.pmr ELSE s.init_pri_mask
<1>1. /\ p \in Nat /\ s.pmr \in Nat /\ s.pmr \in Masks
      /\ s.run \subseteq SdeiPris /\ s.active_pri_bits \subseteq Pris
      /\ \A q \in Pris : q \in Nat
      /\ p \in Masks
    BY Priorities, PrioritiesAssumption DEF PeData, Masks, Pris
<1>2. RunPri(s) \in Nat /\ \A q \in s.run : RunPri(s) <= q /\ q \in Nat
    BY <1>1, RunningPriority, Priorities, Zenon
<1>3. s.active_pri_bits # {} =>
        /\ Min(s.active_pri_bits) \in Nat
        /\ \A q \in s.active_pri_bits : Min(s.active_pri_bits) <= q /\ q \in Nat
    <2>1. s.active_pri_bits \subseteq Nat
        BY <1>1, Zenon
    <2> QED BY <2>1, MinNat, Zenon
<1>4. CASE \/ p >= RunPri(s)
           \/ s.active_pri_bits # {} /\ p >= Min(s.active_pri_bits)
           \/ p >= s.pmr
    <2>1. r = [s EXCEPT !.stop = "panic"]
        BY <1>4, Zenon DEF ehf_activate_priority, Panic
    <2> QED BY <2>1 DEF PeData
<1>5. CASE /\ ~(p >= RunPri(s))
           /\ ~(s.active_pri_bits # {} /\ p >= Min(s.active_pri_bits))
           /\ ~(p >= s.pmr)
    <2> DEFINE a == s.active_pri_bits \cup {p}
               i == IF s.active_pri_bits = {} THEN s.pmr ELSE s.init_pri_mask
    <2>1. r = [s EXCEPT !.active_pri_bits = a, !.pmr = p, !.init_pri_mask = i]
        BY <1>5, Zenon DEF ehf_activate_priority
    <2>2. a \in SUBSET Pris /\ i \in Masks \cup {NoMask}
        BY <1>1, Zenon DEF PeData
    <2> HIDE DEF a, i
    <2>3. /\ r \in PeData /\ r.stop = "no" /\ r.active_pri_bits = a /\ r.pmr = p
          /\ r.run = s.run /\ r.ns_pri_mask = s.ns_pri_mask /\ r.init_pri_mask = i
        BY <1>1, <2>1, <2>2, Zenon DEF PeData
    <2>4. p < s.pmr /\ \A q \in s.run : p < q
        BY <1>1, <1>2, <1>5
    <2>5. \A q \in s.active_pri_bits : p < q
        BY <1>1, <1>3, <1>5
    <2> QED BY <2>3, <2>4, <2>5, Zenon DEF a, i
<1> QED BY <1>4, <1>5, Zenon

(* What a successful ehf_deactivate_priority implies and does.             *)
LEMMA Deactivation ==
    ASSUME NEW s \in PeData, s.stop = "no", s.init_pri_mask \in Masks, NEW p \in Pris,
           NEW m \in NsMasks, NEW r, r = ehf_deactivate_priority(s, p)
    PROVE  /\ r \in PeData /\ r.stop # "assert"
           /\ r.stop = "no" =>
                /\ p \in s.active_pri_bits /\ \A q \in s.active_pri_bits : p <= q
                /\ r.active_pri_bits = s.active_pri_bits \ {p}
                /\ r.pmr = IF r.active_pri_bits = {} THEN s.init_pri_mask ELSE p
                /\ r.run = s.run /\ r.ns_pri_mask = s.ns_pri_mask
                /\ r.init_pri_mask = s.init_pri_mask
<1>1. s.active_pri_bits \subseteq Pris /\ p \in Masks
    BY DEF PeData, Masks
<1>2. CASE \/ p >= RunPri(s)
           \/ s.active_pri_bits = {} \/ p # Min(s.active_pri_bits)
           \/ s.pmr > p
    <2>1. r = [s EXCEPT !.stop = "panic"]
        BY <1>2, Zenon DEF ehf_deactivate_priority, Panic
    <2> QED BY <2>1 DEF PeData
<1>3. CASE /\ ~(p >= RunPri(s))
           /\ ~(s.active_pri_bits = {} \/ p # Min(s.active_pri_bits))
           /\ ~(s.pmr > p)
    <2> DEFINE a == s.active_pri_bits \ {p}
               i == IF a = {} THEN s.init_pri_mask ELSE p
    <2>1. r = [s EXCEPT !.active_pri_bits = a, !.pmr = i]
        BY <1>3, Zenon DEF ehf_deactivate_priority
    <2>2. a \in SUBSET Pris /\ i \in Masks
        BY <1>1, Zenon
    <2>3. s.active_pri_bits \subseteq Nat /\ s.active_pri_bits # {}
        BY <1>1, <1>3, Priorities, Zenon
    <2>4. p \in s.active_pri_bits /\ \A q \in s.active_pri_bits : p <= q
        BY <1>3, <2>3, MinNat, Zenon
    <2> HIDE DEF a, i
    <2>5. /\ r \in PeData /\ r.stop = "no" /\ r.active_pri_bits = a /\ r.pmr = i
          /\ r.run = s.run /\ r.ns_pri_mask = s.ns_pri_mask
          /\ r.init_pri_mask = s.init_pri_mask
        BY <1>1, <2>1, <2>2, Zenon DEF PeData
    <2> QED BY <2>4, <2>5, Zenon DEF a, i
<1> QED BY <1>2, <1>3, Zenon

(* ehf_exited_normal_world stashes the mask of the normal world when       *)
(* nothing is active, and does nothing otherwise.                          *)
LEMMA Exited ==
    ASSUME NEW m \in NsMasks, NEW s \in PeData, s.stop = "no",
           NEW r, r = ehf_exited_normal_world(s)
    PROVE  /\ s.run # {} \/ s.active_pri_bits # {} => r = s
           /\ s.run = {} /\ s.active_pri_bits = {} /\ s.ns_pri_mask = NoMask /\ s.pmr = m =>
                /\ r \in PeData /\ r.stop = "no" /\ r.ns_pri_mask = m /\ r.pmr = HighestNs
                /\ r.run = s.run /\ r.active_pri_bits = s.active_pri_bits
<1>1. IS_PRI_SECURE(RunPri(s)) <=> s.run # {}
    <2>1. s.run \subseteq SdeiPris
        BY Zenon DEF PeData
    <2> QED BY <2>1, RunningPriority, Zenon
<1>2. ASSUME s.run # {} \/ s.active_pri_bits # {} PROVE r = s
    BY <1>1, <1>2, Zenon DEF ehf_exited_normal_world
<1>3. ASSUME s.run = {}, s.active_pri_bits = {}, s.ns_pri_mask = NoMask, s.pmr = m
      PROVE  /\ r \in PeData /\ r.stop = "no" /\ r.ns_pri_mask = m /\ r.pmr = HighestNs
             /\ r.run = s.run /\ r.active_pri_bits = s.active_pri_bits
    <2>1. ~IS_PRI_SECURE(s.pmr)
        BY <1>3, Priorities, Zenon
    <2>2. r = [s EXCEPT !.ns_pri_mask = m, !.pmr = HighestNs]
        BY <1>1, <1>3, <2>1, Zenon DEF ehf_exited_normal_world
    <2>3. HighestNs \in Masks /\ m \in NsMasks \cup {NoMask}
        BY Zenon DEF Masks
    <2> QED BY <1>3, <2>2, <2>3, Zenon DEF PeData
<1> QED BY <1>2, <1>3, Zenon

(* ehf_entering_normal_world gives the stashed mask back when nothing is   *)
(* active, and does nothing otherwise.                                     *)
LEMMA Entering ==
    ASSUME NEW m \in NsMasks, NEW s \in PeData, s.stop = "no",
           NEW r, r = ehf_entering_normal_world(s)
    PROVE  /\ s.run # {} \/ s.active_pri_bits # {} \/ s.ns_pri_mask = NoMask => r = s
           /\ s.run = {} /\ s.active_pri_bits = {} /\ s.ns_pri_mask = m /\ s.pmr = HighestNs =>
                /\ r \in PeData /\ r.stop = "no" /\ r.ns_pri_mask = NoMask /\ r.pmr = m
                /\ r.run = s.run /\ r.active_pri_bits = s.active_pri_bits
<1>1. IS_PRI_SECURE(RunPri(s)) <=> s.run # {}
    <2>1. s.run \subseteq SdeiPris
        BY Zenon DEF PeData
    <2> QED BY <2>1, RunningPriority, Zenon
<1>2. ASSUME s.run # {} \/ s.active_pri_bits # {} \/ s.ns_pri_mask = NoMask PROVE r = s
    BY <1>1, <1>2, Zenon DEF ehf_entering_normal_world
<1>3. ASSUME s.run = {}, s.active_pri_bits = {}, s.ns_pri_mask = m, s.pmr = HighestNs
      PROVE  /\ r \in PeData /\ r.stop = "no" /\ r.ns_pri_mask = NoMask /\ r.pmr = m
             /\ r.run = s.run /\ r.active_pri_bits = s.active_pri_bits
    <2>1. m # NoMask
        BY Priorities, Zenon
    <2>2. r = [s EXCEPT !.pmr = m, !.ns_pri_mask = NoMask]
        BY <1>1, <1>3, <2>1, Zenon DEF ehf_entering_normal_world
    <2>3. m \in Masks /\ NoMask \in NsMasks \cup {NoMask}
        BY Zenon DEF Masks
    <2> QED BY <1>3, <2>2, <2>3, Zenon DEF PeData
<1> QED BY <1>2, <1>3, Zenon

(* ehf_allow_ns_preemption takes the stashed mask back.                    *)
LEMMA Allowed ==
    ASSUME NEW m \in NsMasks, NEW s \in PeData, s.stop = "no", s.active_pri_bits = {},
           s.ns_pri_mask = m, NEW r, r = ehf_allow_ns_preemption(s)
    PROVE  /\ r \in PeData /\ r.stop = "no" /\ r.ns_pri_mask = NoMask /\ r.pmr = m
           /\ r.run = s.run /\ r.active_pri_bits = s.active_pri_bits
<1>1. m # NoMask
    BY Priorities, Zenon
<1>2. r = [s EXCEPT !.pmr = m, !.ns_pri_mask = NoMask]
    BY <1>1, Zenon DEF ehf_allow_ns_preemption
<1>3. m \in Masks /\ NoMask \in NsMasks \cup {NoMask}
    BY Zenon DEF Masks
<1> QED BY <1>2, <1>3, Zenon DEF PeData

-----------------------------------------------------------------------------
(* A frame on top of a stack leaves the others where they are.             *)
LEMMA Pushed ==
    ASSUME NEW s \in Seq(Frames), NEW f \in Frames, NEW t, t = Append(s, f)
    PROVE  /\ t \in Seq(Frames) /\ t # <<>> /\ Len(t) = Len(s) + 1 /\ t[Len(t)] = f
           /\ \A i \in 1 .. Len(s) : t[i] = s[i]
OBVIOUS

(* It adds its priority to those of its kind.                              *)
LEMMA PushedPris ==
    \A s \in Seq(Frames), f \in Frames : \A K :
        /\ f.kind \in K => PrisOf(Append(s, f), K) = PrisOf(s, K) \cup {f.pri}
        /\ f.kind \notin K => PrisOf(Append(s, f), K) = PrisOf(s, K)
<1> TAKE s \in Seq(Frames), f \in Frames
<1> TAKE K
<1> DEFINE t == Append(s, f)
<1>1. /\ t[Len(t)] = f /\ DOMAIN t = DOMAIN s \cup {Len(t)}
      /\ \A i \in DOMAIN s : t[i] = s[i]
    OBVIOUS
<1> HIDE DEF t
<1>2. ASSUME NEW x PROVE x \in PrisOf(t, K) <=> x \in PrisOf(s, K) \/ (f.kind \in K /\ x = f.pri)
    <2>1. x \in PrisOf(t, K) <=> \E i \in DOMAIN t : t[i].kind \in K /\ x = t[i].pri
        BY Zenon DEF PrisOf
    <2>2. x \in PrisOf(s, K) <=> \E i \in DOMAIN s : s[i].kind \in K /\ x = s[i].pri
        BY Zenon DEF PrisOf
    <2> QED BY <1>1, <2>1, <2>2, Zenon
<1> QED BY <1>2, Zenon DEF t

(* Without its top frame, a stack loses at most that frame's priority.     *)
LEMMA Popped ==
    ASSUME NEW s \in Seq(Frames), s # <<>>, NEW t, t = Front(s), NEW f, f = Last(s)
    PROVE  /\ t \in Seq(Frames) /\ f \in Frames /\ Len(s) \in 1 .. Len(s) /\ s[Len(s)] = f
           /\ Len(t) = Len(s) - 1 /\ (t = <<>> <=> Len(s) = 1)
           /\ \A i \in 1 .. Len(t) : t[i] = s[i] /\ i \in 1 .. Len(s) /\ i < Len(s)
           /\ \A K : PrisOf(s, K) = PrisOf(t, K) \cup (IF f.kind \in K THEN {f.pri} ELSE {})
<1>1. /\ t \in Seq(Frames) /\ f \in Frames /\ Len(s) \in 1 .. Len(s) /\ s[Len(s)] = f
      /\ Len(t) = Len(s) - 1 /\ (t = <<>> <=> Len(s) = 1)
      /\ \A i \in 1 .. Len(t) : t[i] = s[i] /\ i \in 1 .. Len(s) /\ i < Len(s)
      /\ DOMAIN t = 1 .. Len(t) /\ DOMAIN s = 1 .. Len(s) /\ Len(s) \in Nat
    <2> DEFINE n == Len(s)
    <2>1. n \in Nat /\ n # 0 /\ DOMAIN s = 1 .. n
        OBVIOUS
    <2>2. n - 1 \in Nat /\ n \in 1 .. n /\ (\A i \in 1 .. n - 1 : i \in 1 .. n /\ i < n)
        BY <2>1
    <2>3. s[n] \in Frames
        BY <2>1, <2>2
    <2>4. /\ t \in Seq(Frames) /\ Len(t) = n - 1 /\ DOMAIN t = 1 .. n - 1
          /\ \A i \in 1 .. n - 1 : t[i] = s[i]
        BY <2>1, <2>2 DEF Front
    <2>5. t = <<>> <=> n = 1
        BY <2>1, <2>4
    <2> QED BY <2>1, <2>2, <2>3, <2>4, <2>5, Zenon DEF Last
<1>2. ASSUME NEW K PROVE PrisOf(s, K) = PrisOf(t, K) \cup (IF f.kind \in K THEN {f.pri} ELSE {})
    <2>1. DOMAIN s = DOMAIN t \cup {Len(s)} /\ \A i \in DOMAIN t : t[i] = s[i]
        BY <1>1
    <2>2. ASSUME NEW x PROVE x \in PrisOf(s, K) <=> x \in PrisOf(t, K) \/ (f.kind \in K /\ x = f.pri)
        <3>1. x \in PrisOf(t, K) <=> \E i \in DOMAIN t : t[i].kind \in K /\ x = t[i].pri
            BY Zenon DEF PrisOf
        <3>2. x \in PrisOf(s, K) <=> \E i \in DOMAIN s : s[i].kind \in K /\ x = s[i].pri
            BY Zenon DEF PrisOf
        <3> QED BY <1>1, <2>1, <3>1, <3>2, Zenon
    <2> QED BY <2>2, Zenon
<1> QED BY <1>1, <1>2, Zenon

(* No frame, no priority.                                                  *)
LEMMA Nothing ==
    /\ \A K : PrisOf(<<>>, K) = {}
    /\ StackOk(<<>>) /\ ~FastBelow(<<>>) /\ <<>> \in Seq(Frames)
<1>1. DOMAIN <<>> = {} /\ Len(<<>>) = 0 /\ <<>> \in Seq(Frames) /\ 1 .. 0 = {}
    OBVIOUS
<1> QED BY <1>1, Zenon DEF PrisOf, StackOk, FastBelow

(* A priority above the active and the running ones is above every frame.  *)
LEMMA AboveAll ==
    ASSUME NEW m \in NsMasks, NEW s \in Seq(Frames), StackOk(s), NEW p \in Pris,
           \A q \in PrisOf(s, {"interrupt"}) : p < q,
           \A q \in PrisOf(s, {"explicit", "mm"}) : p < q
    PROVE  \A i \in 1 .. Len(s) : p < s[i].pri
<1> SUFFICES ASSUME NEW i \in 1 .. Len(s) PROVE p < s[i].pri
    OBVIOUS
<1>1. i \in DOMAIN s /\ s[i] \in Frames
    OBVIOUS
<1>2. CASE s[i].kind \in {"fast", "yield"}
    BY <1>2, Priorities, Zenon DEF StackOk, FrameOk
<1>3. CASE s[i].kind = "interrupt"
    <2>1. s[i].pri \in PrisOf(s, {"interrupt"})
        BY <1>1, <1>3, Zenon DEF PrisOf
    <2> QED BY <2>1, Zenon
<1>4. CASE s[i].kind \in {"explicit", "mm"}
    <2>1. s[i].pri \in PrisOf(s, {"explicit", "mm"})
        BY <1>1, <1>4, Zenon DEF PrisOf
    <2> QED BY <2>1, Zenon
<1> QED BY <1>1, <1>2, <1>3, <1>4, Zenon DEF Frames, Kinds, SecureKinds

(* A delegation of a higher priority may be put on top.                    *)
LEMMA PushedOk ==
    ASSUME NEW s \in Seq(Frames), StackOk(s), NEW f \in Frames, FrameOk(f),
           f.kind \in {"fast", "yield"} => s = <<>>,
           \A i \in 1 .. Len(s) : f.pri < s[i].pri,
           NEW t, t = Append(s, f)
    PROVE  /\ StackOk(t)
           /\ FastBelow(t) <=> FastBelow(s) \/ f.kind = "fast"
<1> DEFINE n == Len(s)
<1>1. /\ Len(t) = n + 1 /\ t[n + 1] = f /\ t # <<>>
      /\ \A i \in 1 .. n : t[i] = s[i]
    <2>1. /\ t # <<>> /\ Len(t) = Len(s) + 1 /\ t[Len(t)] = f
          /\ \A i \in 1 .. Len(s) : t[i] = s[i]
        BY Pushed
    <2> QED BY <2>1, Zenon
<1>2. /\ n \in Nat /\ (s = <<>> <=> n = 0)
    OBVIOUS
<1> HIDE DEF n
<1>3. \A i \in 1 .. n + 1 : i \in 1 .. n \/ i = n + 1
    BY <1>2
<1>4. n # 0 => 1 \in 1 .. n
    BY <1>2
<1>5. \A i, j \in 1 .. n + 1 : i < j => i \in 1 .. n
    BY <1>2
<1>6. s = <<>> => n + 1 = 1
    BY <1>2
<1>7. \A i \in 1 .. n + 1 : FrameOk(t[i])
    BY <1>1, <1>3, Zenon DEF StackOk, n
<1>8. \A i \in 1 .. n + 1 : t[i].kind \in {"fast", "yield"} => i = 1
    BY <1>1, <1>3, <1>6, Zenon DEF StackOk, n
<1>9. \A i, j \in 1 .. n + 1 : i < j => t[j].pri < t[i].pri
    BY <1>1, <1>3, <1>5, Zenon DEF StackOk, n
<1>10. FastBelow(t) <=> FastBelow(s) \/ f.kind = "fast"
    <2>1. CASE s = <<>>
        BY <1>1, <1>6, <2>1, Zenon DEF FastBelow
    <2>2. CASE s # <<>>
        BY <1>1, <1>2, <1>4, <2>2, Zenon DEF FastBelow
    <2> QED BY <2>1, <2>2, Zenon
<1> QED BY <1>1, <1>7, <1>8, <1>9, <1>10, Zenon DEF StackOk

(* The top delegation has the highest priority, and a fast or a yielding   *)
(* SMC on top is alone.                                                    *)
LEMMA PoppedOk ==
    ASSUME NEW m \in NsMasks, NEW s \in Seq(Frames), s # <<>>, StackOk(s),
           NEW t, t = Front(s), NEW f, f = Last(s)
    PROVE  /\ StackOk(t) /\ FrameOk(f) /\ s[Len(s)] = f
           /\ f.kind # "fast" => (FastBelow(t) <=> FastBelow(s))
           /\ f.kind \in {"fast", "yield"} => t = <<>>
           /\ f.kind = "fast" => FastBelow(s)
           /\ \A i \in 1 .. Len(t) : f.pri < t[i].pri
           /\ \A K : PrisOf(t, K) = IF f.kind \in K THEN PrisOf(s, K) \ {f.pri} ELSE PrisOf(s, K)
<1> DEFINE n == Len(s)
           k == Len(t)
<1>1. /\ t \in Seq(Frames) /\ f \in Frames /\ n \in 1 .. n /\ s[n] = f
      /\ k = n - 1 /\ (t = <<>> <=> n = 1)
      /\ \A i \in 1 .. k : t[i] = s[i] /\ i \in 1 .. n /\ i < n
      /\ \A K : PrisOf(s, K) = PrisOf(t, K) \cup (IF f.kind \in K THEN {f.pri} ELSE {})
    BY Popped
<1>2. n \in Nat /\ k \in Nat /\ DOMAIN t = 1 .. k /\ (n # 1 => 1 \in 1 .. k)
    BY <1>1
<1> HIDE DEF n, k
<1>3. \A i \in 1 .. k : f.pri < t[i].pri
    BY <1>1, Zenon DEF StackOk, n
<1>4. StackOk(t) /\ FrameOk(f)
    <2>1. FrameOk(f) /\ \A i \in 1 .. k : FrameOk(t[i])
        BY <1>1, Zenon DEF StackOk, n
    <2>2. \A i \in 1 .. k : t[i].kind \in {"fast", "yield"} => i = 1
        BY <1>1, Zenon DEF StackOk, n
    <2>3. \A i, j \in 1 .. k : i < j => t[j].pri < t[i].pri
        BY <1>1, Zenon DEF StackOk, n
    <2> QED BY <2>1, <2>2, <2>3, Zenon DEF StackOk, k
<1>5. f.kind \in {"fast", "yield"} => t = <<>> /\ s[1] = f
    BY <1>1, Zenon DEF StackOk, n
<1>6. f.kind # "fast" => (FastBelow(t) <=> FastBelow(s))
    BY <1>1, <1>2, Zenon DEF FastBelow
<1>7. ASSUME NEW K PROVE f.pri \notin PrisOf(t, K)
    <2> SUFFICES ASSUME f.pri \in PrisOf(t, K) PROVE FALSE
        BY Zenon
    <2>1. PICK i \in 1 .. k : f.pri = t[i].pri
        BY <1>2, Zenon DEF PrisOf
    <2>2. f.pri \in Nat
        <3>1. Pris \cup {IdlePri} \subseteq Nat
            BY Priorities, Zenon
        <3> QED BY <1>1, <3>1, Zenon DEF Frames
    <2>3. f.pri < f.pri
        BY <1>3, <2>1, Zenon
    <2> QED BY <2>2, <2>3
<1>8. ASSUME NEW K
      PROVE  PrisOf(t, K) = IF f.kind \in K THEN PrisOf(s, K) \ {f.pri} ELSE PrisOf(s, K)
    <2>1. /\ PrisOf(s, K) = PrisOf(t, K) \cup (IF f.kind \in K THEN {f.pri} ELSE {})
          /\ f.pri \notin PrisOf(t, K)
        BY <1>1, <1>7, Zenon
    <2> QED BY <2>1
<1>9. f.kind = "fast" => FastBelow(s)
    BY <1>5, Zenon DEF FastBelow
<1> QED BY <1>1, <1>3, <1>4, <1>5, <1>6, <1>8, <1>9, Zenon DEF n, k

-----------------------------------------------------------------------------
(* Activating the priority of a new delegation keeps the data consistent.  *)
LEMMA ActivatedOk ==
    ASSUME NEW m \in NsMasks, NEW d \in PeData, d.stop = "no",
           NEW s \in Seq(Frames), Consistent(d, s, m),
           NEW f \in Frames, FrameOk(f), f.kind \in {"explicit", "mm"}, f.pri \in Pris,
           NEW r, r = ehf_activate_priority(d, f.pri), NEW t, t = Append(s, f)
    PROVE  /\ r \in PeData /\ r.stop # "assert" /\ t \in Seq(Frames)
           /\ r.stop = "no" => Consistent(r, t, m)
<1> DEFINE p == f.pri
<1>1. /\ r \in PeData /\ r.stop # "assert"
      /\ r.stop = "no" =>
                /\ \A q \in d.run : p < q
                /\ \A q \in d.active_pri_bits : p < q
                /\ r.active_pri_bits = d.active_pri_bits \cup {p} /\ r.pmr = p
                /\ r.run = d.run /\ r.ns_pri_mask = d.ns_pri_mask
                /\ r.init_pri_mask = IF d.active_pri_bits = {} THEN d.pmr ELSE d.init_pri_mask
    BY Activation
<1>2. t \in Seq(Frames)
    BY Pushed
<1>3. ASSUME r.stop = "no" PROVE Consistent(r, t, m)
    <2>1. \A i \in 1 .. Len(s) : p < s[i].pri
        BY <1>1, <1>3, AboveAll, Zenon DEF Consistent
    <2>2. StackOk(t) /\ (FastBelow(t) <=> FastBelow(s))
        <3>1. f.kind # "fast" /\ f.kind # "yield"
            OBVIOUS
        <3> QED BY <2>1, <3>1, PushedOk, Zenon DEF Consistent
    <2>3. /\ r.run = PrisOf(t, {"interrupt"})
          /\ r.active_pri_bits = PrisOf(t, {"explicit", "mm"})
        <3> DEFINE I == {"interrupt"}
                   E == {"explicit", "mm"}
        <3>1. f.kind \notin I /\ f.kind \in E
            OBVIOUS
        <3> HIDE DEF I, E
        <3>2. PrisOf(t, I) = PrisOf(s, I)
            BY <3>1, PushedPris, Zenon
        <3>3. PrisOf(t, E) = PrisOf(s, E) \cup {f.pri}
            BY <3>1, PushedPris, Zenon
        <3> QED BY <1>1, <1>3, <3>2, <3>3, Zenon DEF Consistent, I, E
    <2>4. BaseMask(t, m) = BaseMask(s, m)
        BY <2>2, Zenon DEF BaseMask
    <2>5. r.init_pri_mask = BaseMask(t, m)
        BY <1>1, <1>3, <2>4, Zenon DEF Consistent
    <2>6. \A q \in r.active_pri_bits : r.pmr <= q
        <3>1. p \in Nat /\ \A q \in d.active_pri_bits : q \in Nat
            BY Priorities, Zenon DEF PeData
        <3> QED BY <1>1, <1>3, <3>1
    <2>7. r.ns_pri_mask = IF FastBelow(t) THEN m ELSE NoMask
        BY <1>1, <1>3, <2>2, Zenon DEF Consistent
    <2>8. r.active_pri_bits # {}
        BY <1>1, <1>3, Zenon
    <2> QED BY <2>2, <2>3, <2>5, <2>6, <2>7, <2>8, Zenon DEF Consistent
<1> QED BY <1>1, <1>2, <1>3, Zenon

(* Deactivating the priority of the top delegation keeps them consistent.  *)
LEMMA DeactivatedOk ==
    ASSUME NEW m \in NsMasks, NEW d \in PeData, d.stop = "no",
           NEW s \in Seq(Frames), s # <<>>, Consistent(d, s, m),
           NEW f, f = Last(s), f.kind \in {"explicit", "mm"},
           NEW r, r = ehf_deactivate_priority(d, f.pri), NEW t, t = Front(s)
    PROVE  /\ r \in PeData /\ r.stop # "assert" /\ t \in Seq(Frames)
           /\ r.stop = "no" => Consistent(r, t, m)
<1> DEFINE p == f.pri
<1>1. StackOk(s)
    BY Zenon DEF Consistent
<1>2. /\ StackOk(t) /\ FrameOk(f)
      /\ f.kind # "fast" => (FastBelow(t) <=> FastBelow(s))
      /\ \A K : PrisOf(t, K) = IF f.kind \in K THEN PrisOf(s, K) \ {p} ELSE PrisOf(s, K)
    BY <1>1, PoppedOk
<1>3. /\ t \in Seq(Frames)
      /\ \A K : PrisOf(s, K) = PrisOf(t, K) \cup (IF f.kind \in K THEN {p} ELSE {})
    BY Popped
<1>4. p \in Pris
    BY <1>2, Priorities, Zenon DEF FrameOk
<1>5. p \in d.active_pri_bits
    <2>1. PrisOf(s, {"explicit", "mm"}) = PrisOf(t, {"explicit", "mm"}) \cup {p}
        BY <1>3, Zenon
    <2> QED BY <2>1, Zenon DEF Consistent
<1>6. d.init_pri_mask = BaseMask(s, m) /\ d.init_pri_mask \in Masks
    BY <1>5, Zenon DEF Consistent, BaseMask, Masks
<1>7. /\ r \in PeData /\ r.stop # "assert"
      /\ r.stop = "no" =>
                /\ \A q \in d.active_pri_bits : p <= q
                /\ r.active_pri_bits = d.active_pri_bits \ {p}
                /\ r.pmr = IF r.active_pri_bits = {} THEN d.init_pri_mask ELSE p
                /\ r.run = d.run /\ r.ns_pri_mask = d.ns_pri_mask
                /\ r.init_pri_mask = d.init_pri_mask
    BY <1>4, <1>6, Deactivation
<1>8. ASSUME r.stop = "no" PROVE Consistent(r, t, m)
    <2>1. f.kind # "fast" /\ f.kind \notin {"interrupt"}
        OBVIOUS
    <2>2. FastBelow(t) <=> FastBelow(s)
        BY <1>2, <2>1, Zenon
    <2>3. /\ PrisOf(t, {"interrupt"}) = PrisOf(s, {"interrupt"})
          /\ PrisOf(t, {"explicit", "mm"}) = PrisOf(s, {"explicit", "mm"}) \ {p}
        BY <1>2, <2>1, Zenon
    <2>4. /\ r.run = PrisOf(t, {"interrupt"})
          /\ r.active_pri_bits = PrisOf(t, {"explicit", "mm"})
        BY <1>7, <1>8, <2>3, Zenon DEF Consistent
    <2>5. r.init_pri_mask = BaseMask(t, m)
        BY <1>6, <1>7, <1>8, <2>2, Zenon DEF BaseMask
    <2>6. r.active_pri_bits = {} => r.pmr = BaseMask(t, m)
        BY <1>7, <1>8, <2>5, Zenon
    <2>7. r.active_pri_bits # {} => \A q \in r.active_pri_bits : r.pmr <= q
        BY <1>7, <1>8, Zenon
    <2>8. r.ns_pri_mask = IF FastBelow(t) THEN m ELSE NoMask
        BY <1>7, <1>8, <2>2, Zenon DEF Consistent
    <2> QED BY <1>2, <2>4, <2>5, <2>6, <2>7, <2>8, Zenon DEF Consistent
<1> QED BY <1>3, <1>7, <1>8, Zenon

(* Without delegations nothing is active and the normal world's mask is    *)
(* in the GIC.                                                             *)
LEMMA IdleData ==
    ASSUME NEW m \in NsMasks, NEW d, Consistent(d, <<>>, m)
    PROVE  /\ d.run = {} /\ d.active_pri_bits = {} /\ d.ns_pri_mask = NoMask /\ d.pmr = m
BY Nothing, Zenon DEF Consistent, BaseMask

(* What a fast or a yielding SMC on top of the stack implies.              *)
LEMMA SecureCall ==
    ASSUME NEW m \in NsMasks, NEW d, NEW s \in Seq(Frames), s # <<>>, Consistent(d, s, m),
           Last(s).kind \in {"fast", "yield"}
    PROVE  /\ Front(s) = <<>> /\ d.run = {} /\ d.active_pri_bits = {}
           /\ Last(s).kind = "fast" => d.ns_pri_mask = m /\ d.pmr = HighestNs
           /\ Last(s).kind = "yield" => d.ns_pri_mask = NoMask /\ d.pmr = m
<1> DEFINE f == Last(s)
           t == Front(s)
<1>1. StackOk(s)
    BY Zenon DEF Consistent
<1>2. /\ f.kind # "fast" => (FastBelow(t) <=> FastBelow(s))
      /\ f.kind \in {"fast", "yield"} => t = <<>>
      /\ f.kind = "fast" => FastBelow(s)
      /\ \A K : PrisOf(t, K) = IF f.kind \in K THEN PrisOf(s, K) \ {f.pri} ELSE PrisOf(s, K)
    BY <1>1, PoppedOk
<1> HIDE DEF f, t
<1>3. f.kind \in {"fast", "yield"}
    BY Zenon DEF f
<1>4. t = <<>>
    BY <1>2, <1>3, Zenon
<1>5. PrisOf(s, {"interrupt"}) = {} /\ PrisOf(s, {"explicit", "mm"}) = {}
    <2>1. f.kind \notin {"interrupt"} /\ f.kind \notin {"explicit", "mm"}
        BY <1>3
    <2>2. PrisOf(s, {"interrupt"}) = PrisOf(t, {"interrupt"})
        BY <1>2, <2>1, Zenon
    <2>3. PrisOf(s, {"explicit", "mm"}) = PrisOf(t, {"explicit", "mm"})
        BY <1>2, <2>1, Zenon
    <2> QED BY <1>4, <2>2, <2>3, Nothing, Zenon
<1>6. f.kind = "fast" => FastBelow(s)
    BY <1>2, Zenon
<1>7. f.kind = "yield" => ~FastBelow(s)
    BY <1>2, <1>4, Nothing, Zenon
<1>8. d.run = {} /\ d.active_pri_bits = {}
    BY <1>5, Zenon DEF Consistent
<1>9. d.pmr = BaseMask(s, m) /\ d.ns_pri_mask = IF FastBelow(s) THEN m ELSE NoMask
    BY <1>8, Zenon DEF Consistent
<1> QED BY <1>4, <1>6, <1>7, <1>8, <1>9, Zenon DEF BaseMask, f, t

(* When a fast or a yielding SMC leaves, the normal world gets its mask    *)
(* back.                                                                   *)
LEMMA ReturnedOk ==
    ASSUME NEW m \in NsMasks, NEW d \in PeData, d.stop = "no",
           NEW s \in Seq(Frames), s # <<>>, Consistent(d, s, m),
           Last(s).kind \in {"fast", "yield"}, NEW r, r = ehf_entering_normal_world(d)
    PROVE  r \in PeData /\ r.stop = "no" /\ Consistent(r, <<>>, m)
<1>1. /\ d.run = {} /\ d.active_pri_bits = {}
      /\ Last(s).kind = "fast" => d.ns_pri_mask = m /\ d.pmr = HighestNs
      /\ Last(s).kind = "yield" => d.ns_pri_mask = NoMask /\ d.pmr = m
    BY SecureCall
<1>2. /\ r \in PeData /\ r.stop = "no" /\ r.ns_pri_mask = NoMask /\ r.pmr = m
      /\ r.run = {} /\ r.active_pri_bits = {}
    <2>1. CASE Last(s).kind = "fast"
        BY <1>1, <2>1, Entering
    <2>2. CASE Last(s).kind = "yield"
        BY <1>1, <2>2, Entering
    <2> QED BY <2>1, <2>2, Zenon
<1> QED BY <1>2, Nothing, Zenon DEF Consistent, BaseMask

-----------------------------------------------------------------------------
(* The top of a stack that is not empty.                                   *)
LEMMA TopFrame ==
    ASSUME Top.kind # "ns" PROVE stack # <<>> /\ Top = Last(stack)
BY Zenon DEF Top, NoFrame, Last

(* The normal world programs its mask.                                     *)
LEMMA NsWritesMaskStep ==
    ASSUME IInv, pe.stop = "no", NEW m \in NsMasks, NsWritesMask(m)
    PROVE  IInv'
<1>1. stack = <<>> /\ stack' = <<>> /\ ns_mask' = m /\ pe' = [pe EXCEPT !.pmr = m]
    BY Zenon DEF NsWritesMask
<1>2. pe \in PeData /\ ns_mask \in NsMasks /\ Consistent(pe, <<>>, ns_mask) /\ m \in Masks
    BY <1>1, Zenon DEF IInv, TypeInv, Masks
<1>3. pe.run = {} /\ pe.active_pri_bits = {} /\ pe.ns_pri_mask = NoMask
    BY <1>2, IdleData, Zenon
<1>4. /\ pe' \in PeData /\ pe'.stop = "no" /\ pe'.pmr = m /\ pe'.run = {}
      /\ pe'.active_pri_bits = {} /\ pe'.ns_pri_mask = NoMask
    BY <1>1, <1>2, <1>3, Zenon DEF PeData
<1>5. Consistent(pe', <<>>, m)
    BY <1>4, Nothing, Zenon DEF Consistent, BaseMask
<1> QED BY <1>1, <1>4, <1>5, Nothing, Zenon DEF IInv, TypeInv

(* The stack of a single Secure call.                                      *)
LEMMA SecureCallStack ==
    ASSUME NEW k \in {"fast", "yield"}, NEW t, t = Append(<<>>, Frame(k, IdlePri))
    PROVE  /\ t \in Seq(Frames) /\ StackOk(t) /\ (FastBelow(t) <=> k = "fast")
           /\ PrisOf(t, {"interrupt"}) = {} /\ PrisOf(t, {"explicit", "mm"}) = {}
<1> DEFINE f == Frame(k, IdlePri)
<1>1. f \in Frames /\ f.kind = k /\ f.pri = IdlePri /\ FrameOk(f)
    BY DEF Frame, Frames, Kinds, SecureKinds, FrameOk
<1> HIDE DEF f
<1>2. t = Append(<<>>, f) /\ <<>> \in Seq(Frames) /\ StackOk(<<>>) /\ ~FastBelow(<<>>)
    BY Nothing, Zenon DEF f
<1>3. Len(<<>>) = 0 /\ \A i \in 1 .. 0 : f.pri < <<>>[i].pri
    OBVIOUS
<1>4. t \in Seq(Frames)
    BY <1>1, <1>2, Pushed
<1>5. StackOk(t) /\ (FastBelow(t) <=> k = "fast")
    BY <1>1, <1>2, <1>3, PushedOk, Zenon
<1>6. f.kind \notin {"interrupt"} /\ f.kind \notin {"explicit", "mm"}
    BY <1>1
<1>7. PrisOf(t, {"interrupt"}) = {} /\ PrisOf(t, {"explicit", "mm"}) = {}
    <2> SUFFICES ASSUME NEW K, f.kind \notin K PROVE PrisOf(t, K) = {}
        BY <1>6, Zenon
    <2> DEFINE e == <<>>
    <2>1. e \in Seq(Frames) /\ t = Append(e, f) /\ f \in Frames
        BY <1>1, <1>2, Zenon
    <2> HIDE DEF e
    <2>2. PrisOf(Append(e, f), K) = PrisOf(e, K)
        BY <2>1, PushedPris
    <2>3. PrisOf(t, K) = PrisOf(e, K)
        BY <2>1, <2>2, Zenon
    <2> QED BY <2>3, Nothing, Zenon DEF e
<1> QED BY <1>4, <1>5, <1>7, Zenon

(* A fast SMC is forwarded to the Secure world.                            *)
LEMMA FastSmcStep ==
    ASSUME IInv, pe.stop = "no", FastSmc
    PROVE  IInv'
<1>1. /\ stack = <<>> /\ pe' = ehf_exited_normal_world(pe) /\ ns_mask' = ns_mask
      /\ stack' = Append(<<>>, Frame("fast", IdlePri))
    BY Zenon DEF FastSmc
<1>2. pe \in PeData /\ ns_mask \in NsMasks /\ Consistent(pe, <<>>, ns_mask)
    BY <1>1, Zenon DEF IInv, TypeInv
<1>3. /\ pe.run = {} /\ pe.active_pri_bits = {} /\ pe.ns_pri_mask = NoMask /\ pe.pmr = ns_mask
    BY <1>2, IdleData, Zenon
<1>4. /\ pe' \in PeData /\ pe'.stop = "no" /\ pe'.ns_pri_mask = ns_mask /\ pe'.pmr = HighestNs
      /\ pe'.run = {} /\ pe'.active_pri_bits = {}
    BY <1>1, <1>2, <1>3, Exited
<1>5. /\ stack' \in Seq(Frames) /\ StackOk(stack') /\ FastBelow(stack')
      /\ PrisOf(stack', {"interrupt"}) = {} /\ PrisOf(stack', {"explicit", "mm"}) = {}
    BY <1>1, SecureCallStack, Zenon
<1>6. Consistent(pe', stack', ns_mask)
    BY <1>4, <1>5, Zenon DEF Consistent, BaseMask
<1> QED BY <1>1, <1>2, <1>4, <1>5, <1>6, Zenon DEF IInv, TypeInv

(* A yielding SMC is forwarded, or a preempted one is resumed.             *)
LEMMA YieldSmcStep ==
    ASSUME IInv, pe.stop = "no", YieldSmc
    PROVE  IInv'
<1> DEFINE r == ehf_exited_normal_world(pe)
<1>1. /\ stack = <<>> /\ pe' = ehf_allow_ns_preemption(r) /\ ns_mask' = ns_mask
      /\ stack' = Append(<<>>, Frame("yield", IdlePri))
    BY Zenon DEF YieldSmc
<1>2. pe \in PeData /\ ns_mask \in NsMasks /\ Consistent(pe, <<>>, ns_mask)
    BY <1>1, Zenon DEF IInv, TypeInv
<1>3. /\ pe.run = {} /\ pe.active_pri_bits = {} /\ pe.ns_pri_mask = NoMask /\ pe.pmr = ns_mask
    BY <1>2, IdleData, Zenon
<1>4. /\ r \in PeData /\ r.stop = "no" /\ r.ns_pri_mask = ns_mask
      /\ r.run = {} /\ r.active_pri_bits = {}
    BY <1>2, <1>3, Exited
<1> HIDE DEF r
<1>5. /\ pe' \in PeData /\ pe'.stop = "no" /\ pe'.ns_pri_mask = NoMask /\ pe'.pmr = ns_mask
      /\ pe'.run = {} /\ pe'.active_pri_bits = {}
    BY <1>1, <1>2, <1>4, Allowed
<1>6. /\ stack' \in Seq(Frames) /\ StackOk(stack') /\ ~FastBelow(stack')
      /\ PrisOf(stack', {"interrupt"}) = {} /\ PrisOf(stack', {"explicit", "mm"}) = {}
    BY <1>1, SecureCallStack, Zenon
<1>7. Consistent(pe', stack', ns_mask)
    BY <1>5, <1>6, Zenon DEF Consistent, BaseMask
<1> QED BY <1>1, <1>2, <1>5, <1>6, <1>7, Zenon DEF IInv, TypeInv

(* A fast or a yielding SMC returns, or is preempted.                      *)
LEMMA SecureReturnsStep ==
    ASSUME IInv, pe.stop = "no", SecureReturns
    PROVE  IInv'
<1>1. /\ Top.kind \in {"fast", "yield"} /\ pe' = ehf_entering_normal_world(pe)
      /\ ns_mask' = ns_mask /\ stack' = Front(stack)
    BY Zenon DEF SecureReturns, Rest, Front
<1>2. /\ pe \in PeData /\ ns_mask \in NsMasks /\ stack \in Seq(Frames)
      /\ Consistent(pe, stack, ns_mask)
    BY Zenon DEF IInv, TypeInv
<1>3. stack # <<>> /\ Last(stack).kind \in {"fast", "yield"}
    BY <1>1, TopFrame
<1>4. stack' = <<>>
    BY <1>1, <1>2, <1>3, SecureCall
<1>5. pe' \in PeData /\ pe'.stop = "no" /\ Consistent(pe', <<>>, ns_mask)
    BY <1>1, <1>2, <1>3, ReturnedOk
<1> QED BY <1>1, <1>2, <1>4, <1>5, Nothing, Zenon DEF IInv, TypeInv

(* A frame for a delegation.                                               *)
LEMMA NewFrame ==
    ASSUME NEW m \in NsMasks, NEW k, NEW p,
           \/ k = "mm" /\ p = SpPri
           \/ k \in {"interrupt", "explicit"} /\ p \in SdeiPris
    PROVE  /\ Frame(k, p) \in Frames /\ FrameOk(Frame(k, p)) /\ p \in Pris
           /\ Frame(k, p).kind = k /\ Frame(k, p).pri = p
<1>1. k \in Kinds /\ p \in Pris
    BY Priorities DEF Kinds, SecureKinds
<1>2. Frame(k, p) \in Frames /\ Frame(k, p).kind = k /\ Frame(k, p).pri = p
    BY <1>1, Zenon DEF Frame, Frames
<1>3. k # "fast" /\ k # "yield" /\ (k = "mm" => p = SpPri)
      /\ (k \in {"interrupt", "explicit"} => p \in SdeiPris)
    OBVIOUS
<1> QED BY <1>1, <1>2, <1>3, Zenon DEF FrameOk

(* MM_COMMUNICATE enters the secure partition.                             *)
LEMMA MmCommunicateStep ==
    ASSUME IInv, pe.stop = "no", mm_communicate
    PROVE  IInv'
<1> DEFINE r == ehf_activate_priority(pe, SpPri)
           f == Frame("mm", SpPri)
<1>1. pe' = ehf_exited_normal_world(r) /\ ns_mask' = ns_mask /\ stack' = Append(stack, f)
    BY Zenon DEF mm_communicate
<1>2. /\ pe \in PeData /\ ns_mask \in NsMasks /\ stack \in Seq(Frames)
      /\ Consistent(pe, stack, ns_mask)
    BY Zenon DEF IInv, TypeInv
<1>3. f \in Frames /\ FrameOk(f) /\ f.kind = "mm" /\ f.pri = SpPri /\ SpPri \in Pris
    BY <1>2, NewFrame
<1>4. r = ehf_activate_priority(pe, SpPri)
    OBVIOUS
<1> HIDE DEF r, f
<1>5. r.stop = "no" => r.active_pri_bits = pe.active_pri_bits \cup {SpPri}
    BY <1>2, <1>3, <1>4, Activation
<1>6. pe' = r
    <2>1. CASE r.stop = "no"
        <3>1. r.active_pri_bits # {}
            BY <1>5, <2>1, Zenon
        <3> QED BY <1>1, <3>1, Zenon DEF ehf_exited_normal_world
    <2>2. CASE r.stop # "no"
        BY <1>1, <2>2, Zenon DEF ehf_exited_normal_world
    <2> QED BY <2>1, <2>2, Zenon
<1>7. /\ pe' \in PeData /\ pe'.stop # "assert" /\ stack' \in Seq(Frames)
      /\ pe'.stop = "no" => Consistent(pe', stack', ns_mask)
    <2>1. f.kind \in {"explicit", "mm"} /\ f.pri \in Pris /\ pe' = ehf_activate_priority(pe, f.pri)
        BY <1>3, <1>4, <1>6, Zenon
    <2> QED BY <1>1, <1>2, <1>3, <2>1, ActivatedOk, Zenon
<1> QED BY <1>1, <1>2, <1>7, Zenon DEF IInv, TypeInv

(* The secure partition returns.                                           *)
LEMMA MmCommunicateReturnsStep ==
    ASSUME IInv, pe.stop = "no", mm_communicate_returns
    PROVE  IInv'
<1> DEFINE f == Last(stack)
           r == ehf_entering_normal_world(pe)
<1>1. /\ Top.kind = "mm" /\ pe' = ehf_deactivate_priority(r, SpPri)
      /\ ns_mask' = ns_mask /\ stack' = Front(stack)
    BY Zenon DEF mm_communicate_returns, Rest, Front
<1>2. /\ pe \in PeData /\ ns_mask \in NsMasks /\ stack \in Seq(Frames)
      /\ Consistent(pe, stack, ns_mask)
    BY Zenon DEF IInv, TypeInv
<1>3. stack # <<>> /\ f.kind = "mm"
    BY <1>1, TopFrame
<1>4. FrameOk(f) /\ \A K : PrisOf(stack, K) = PrisOf(Front(stack), K) \cup (IF f.kind \in K THEN {f.pri} ELSE {})
    <2>1. StackOk(stack)
        BY <1>2, Zenon DEF Consistent
    <2> QED BY <1>2, <1>3, <2>1, PoppedOk, Popped
<1> HIDE DEF f
<1>5. f.pri = SpPri
    BY <1>3, <1>4, Zenon DEF FrameOk
<1>6. pe.active_pri_bits # {}
    <2>1. PrisOf(stack, {"explicit", "mm"}) = PrisOf(Front(stack), {"explicit", "mm"}) \cup {f.pri}
        BY <1>3, <1>4, Zenon
    <2> QED BY <1>2, <2>1, Zenon DEF Consistent
<1>7. r = pe
    BY <1>2, <1>6, Entering
<1>8. f.kind \in {"explicit", "mm"} /\ pe' = ehf_deactivate_priority(pe, f.pri) /\ f = Last(stack)
    BY <1>1, <1>3, <1>5, <1>7, Zenon DEF f
<1>9. /\ pe' \in PeData /\ pe'.stop # "assert" /\ stack' \in Seq(Frames)
      /\ pe'.stop = "no" => Consistent(pe', stack', ns_mask)
    BY <1>1, <1>2, <1>3, <1>8, DeactivatedOk
<1> QED BY <1>1, <1>2, <1>9, Zenon DEF IInv, TypeInv

(* The handler of an explicitly dispatched event completes.                *)
LEMMA ExplicitDispatchCompletesStep ==
    ASSUME IInv, pe.stop = "no", ExplicitDispatchCompletes
    PROVE  IInv'
<1> DEFINE f == Last(stack)
<1>1. /\ Top.kind = "explicit" /\ pe' = ehf_deactivate_priority(pe, Top.pri)
      /\ ns_mask' = ns_mask /\ stack' = Front(stack)
    BY Zenon DEF ExplicitDispatchCompletes, Rest, Front
<1>2. /\ pe \in PeData /\ ns_mask \in NsMasks /\ stack \in Seq(Frames)
      /\ Consistent(pe, stack, ns_mask)
    BY Zenon DEF IInv, TypeInv
<1>3. /\ stack # <<>> /\ f.kind \in {"explicit", "mm"}
      /\ pe' = ehf_deactivate_priority(pe, f.pri)
    BY <1>1, TopFrame
<1>4. f = Last(stack)
    OBVIOUS
<1> HIDE DEF f
<1>5. /\ pe' \in PeData /\ pe'.stop # "assert" /\ stack' \in Seq(Frames)
      /\ pe'.stop = "no" => Consistent(pe', stack', ns_mask)
    BY <1>1, <1>2, <1>3, <1>4, DeactivatedOk
<1> QED BY <1>1, <1>2, <1>5, Zenon DEF IInv, TypeInv

(* An interrupt is taken and delegated: its priority is above that of      *)
(* every delegation in progress.                                           *)
LEMMA InterruptStep ==
    ASSUME IInv, pe.stop = "no", NEW p \in SdeiPris, ehf_el3_interrupt_handler(p)
    PROVE  IInv'
<1> DEFINE a == pe.run \cup {p}
           d == [pe EXCEPT !.run = a]
           f == Frame("interrupt", p)
<1>1. /\ p < pe.pmr /\ p < RunPri(pe) /\ ns_mask' = ns_mask /\ stack' = Append(stack, f)
      /\ pe' = IF \E q \in {stack[i].pri : i \in Dispatches} : q <= p THEN AssertFails(d)
               ELSE IF InSecure THEN ehf_entering_normal_world(d) ELSE d
    BY Zenon DEF ehf_el3_interrupt_handler
<1>2. /\ pe \in PeData /\ ns_mask \in NsMasks /\ stack \in Seq(Frames)
      /\ Consistent(pe, stack, ns_mask)
    BY Zenon DEF IInv, TypeInv
<1>3. f \in Frames /\ FrameOk(f) /\ f.kind = "interrupt" /\ f.pri = p /\ p \in Pris
    BY <1>2, NewFrame
<1> HIDE DEF f
<1>4. /\ p \in Nat /\ pe.pmr \in Nat /\ pe.run \subseteq SdeiPris
      /\ pe.active_pri_bits \subseteq Pris /\ \A q \in Pris : q \in Nat
    BY <1>2, Priorities, PrioritiesAssumption, Zenon DEF PeData, Masks, Pris
<1>5. \A q \in pe.run : p < q
    <2>1. RunPri(pe) \in Nat /\ \A q \in pe.run : RunPri(pe) <= q /\ q \in Nat
        BY <1>2, <1>4, RunningPriority, Priorities, Zenon
    <2> QED BY <1>1, <1>4, <2>1
<1>6. \A q \in pe.active_pri_bits : p < q
    <2>1. \A q \in pe.active_pri_bits : pe.pmr <= q /\ q \in Nat
        BY <1>2, <1>4, Zenon DEF Consistent
    <2> QED BY <1>1, <1>4, <2>1
<1>7. StackOk(stack) /\ \A i \in 1 .. Len(stack) : p < stack[i].pri
    BY <1>2, <1>3, <1>5, <1>6, AboveAll, Zenon DEF Consistent
<1>8. ~\E q \in {stack[i].pri : i \in Dispatches} : q <= p
    <2> SUFFICES ASSUME NEW i \in Dispatches, stack[i].pri <= p PROVE FALSE
        BY Zenon
    <2>1. i \in 1 .. Len(stack) /\ stack[i] \in Frames
        BY <1>2 DEF Dispatches
    <2>2. stack[i].pri \in Nat
        <3>1. Pris \cup {IdlePri} \subseteq Nat
            BY <1>2, Priorities, Zenon
        <3> QED BY <2>1, <3>1, Zenon DEF Frames
    <2>3. p < stack[i].pri
        BY <1>7, <2>1, Zenon
    <2> QED BY <1>4, <2>2, <2>3
<1>9. a \in SUBSET SdeiPris /\ a # {}
    BY <1>4, Zenon
<1>10. d = [pe EXCEPT !.run = a] /\ a = pe.run \cup {p}
    OBVIOUS
<1> HIDE DEF a, d
<1>11. /\ d \in PeData /\ d.stop = "no" /\ d.run = a /\ d.active_pri_bits = pe.active_pri_bits
       /\ d.pmr = pe.pmr /\ d.ns_pri_mask = pe.ns_pri_mask /\ d.init_pri_mask = pe.init_pri_mask
    BY <1>2, <1>9, <1>10, Zenon DEF PeData
<1>12. ehf_entering_normal_world(d) = d
    BY <1>2, <1>9, <1>11, Entering
<1>13. pe' = d
    BY <1>1, <1>8, <1>12, Zenon
<1>14. stack' \in Seq(Frames)
    BY <1>1, <1>2, <1>3, Pushed
<1>15. StackOk(stack') /\ (FastBelow(stack') <=> FastBelow(stack))
    <2>1. f.kind # "fast" /\ f.kind # "yield"
        BY <1>3
    <2> QED BY <1>1, <1>2, <1>3, <1>7, <2>1, PushedOk, Zenon
<1>16. /\ PrisOf(stack', {"interrupt"}) = PrisOf(stack, {"interrupt"}) \cup {p}
       /\ PrisOf(stack', {"explicit", "mm"}) = PrisOf(stack, {"explicit", "mm"})
    <2> DEFINE I == {"interrupt"}
               E == {"explicit", "mm"}
    <2>1. f.kind \in I /\ f.kind \notin E
        BY <1>3
    <2> HIDE DEF I, E
    <2>2. PrisOf(Append(stack, f), I) = PrisOf(stack, I) \cup {f.pri}
        BY <1>2, <1>3, <2>1, PushedPris, Zenon
    <2>3. PrisOf(Append(stack, f), E) = PrisOf(stack, E)
        BY <1>2, <1>3, <2>1, PushedPris, Zenon
    <2> QED BY <1>1, <1>3, <2>2, <2>3, Zenon DEF I, E
<1>17. Consistent(pe', stack', ns_mask)
    <2>1. BaseMask(stack', ns_mask) = BaseMask(stack, ns_mask)
        BY <1>15, Zenon DEF BaseMask
    <2>2. d.run = PrisOf(stack', {"interrupt"}) /\ d.active_pri_bits = PrisOf(stack', {"explicit", "mm"})
        BY <1>2, <1>10, <1>11, <1>16, Zenon DEF Consistent
    <2> QED BY <1>2, <1>11, <1>13, <1>15, <2>1, <2>2, Zenon DEF Consistent
<1> QED BY <1>1, <1>2, <1>11, <1>13, <1>14, <1>17, Zenon DEF IInv, TypeInv

(* The handler of an event dispatched by an interrupt completes.           *)
LEMMA InterruptDispatchCompletesStep ==
    ASSUME IInv, pe.stop = "no", InterruptDispatchCompletes
    PROVE  IInv'
<1> DEFINE f == Last(stack)
           t == Front(stack)
           a == pe.run \ {f.pri}
<1>1. Top.kind = "interrupt" /\ ns_mask' = ns_mask /\ stack' = t /\ pe' = [pe EXCEPT !.run = @ \ {Top.pri}]
    BY Zenon DEF InterruptDispatchCompletes, Rest, Front
<1>2. /\ pe \in PeData /\ ns_mask \in NsMasks /\ stack \in Seq(Frames)
      /\ Consistent(pe, stack, ns_mask) /\ StackOk(stack)
    BY Zenon DEF IInv, TypeInv, Consistent
<1>3. stack # <<>> /\ f.kind = "interrupt" /\ pe' = [pe EXCEPT !.run = a]
    BY <1>1, TopFrame, Zenon
<1>4. /\ StackOk(t) /\ (f.kind # "fast" => (FastBelow(t) <=> FastBelow(stack)))
      /\ \A K : PrisOf(t, K) = IF f.kind \in K THEN PrisOf(stack, K) \ {f.pri} ELSE PrisOf(stack, K)
    BY <1>2, <1>3, PoppedOk
<1>5. t \in Seq(Frames)
    BY <1>2, <1>3, Popped
<1>6. a \in SUBSET SdeiPris /\ a = pe.run \ {f.pri}
    BY <1>2, Zenon DEF PeData
<1> HIDE DEF f, t, a
<1>7. /\ pe' \in PeData /\ pe'.stop = "no" /\ pe'.run = a
      /\ pe'.active_pri_bits = pe.active_pri_bits /\ pe'.pmr = pe.pmr
      /\ pe'.ns_pri_mask = pe.ns_pri_mask /\ pe'.init_pri_mask = pe.init_pri_mask
    BY <1>2, <1>3, <1>6, Zenon DEF PeData
<1>8. FastBelow(t) <=> FastBelow(stack)
    BY <1>3, <1>4
<1>9. /\ PrisOf(t, {"interrupt"}) = PrisOf(stack, {"interrupt"}) \ {f.pri}
      /\ PrisOf(t, {"explicit", "mm"}) = PrisOf(stack, {"explicit", "mm"})
    <2>1. f.kind \in {"interrupt"} /\ f.kind \notin {"explicit", "mm"}
        BY <1>3
    <2> QED BY <1>4, <2>1, Zenon
<1>10. Consistent(pe', t, ns_mask)
    <2>1. BaseMask(t, ns_mask) = BaseMask(stack, ns_mask)
        BY <1>8, Zenon DEF BaseMask
    <2>2. pe'.run = PrisOf(t, {"interrupt"}) /\ pe'.active_pri_bits = PrisOf(t, {"explicit", "mm"})
        BY <1>2, <1>6, <1>7, <1>9, Zenon DEF Consistent
    <2> QED BY <1>2, <1>4, <1>7, <1>8, <2>1, <2>2, Zenon DEF Consistent
<1> QED BY <1>1, <1>2, <1>5, <1>7, <1>10, Zenon DEF IInv, TypeInv

(* Returning to a normal-world client from EL3 leaves the data alone.      *)
LEMMA ClientData ==
    ASSUME NEW m \in NsMasks, NEW d \in PeData, d.stop = "no",
           NEW s \in Seq(Frames), Consistent(d, s, m),
           s = <<>> \/ Last(s).kind \in {"interrupt", "explicit", "mm"}
    PROVE  /\ ehf_entering_normal_world(d) = d
           /\ s # <<>> /\ Last(s).kind \in {"explicit", "mm"} => Last(s).pri \in d.active_pri_bits
<1>1. CASE s = <<>>
    <2>1. d.ns_pri_mask = NoMask
        BY <1>1, IdleData, Zenon
    <2> QED BY <1>1, <2>1, Entering
<1>2. CASE s # <<>>
    <2> DEFINE f == Last(s)
               t == Front(s)
    <2>1. \A K : PrisOf(s, K) = PrisOf(t, K) \cup (IF f.kind \in K THEN {f.pri} ELSE {})
        BY <1>2, Popped
    <2> HIDE DEF f, t
    <2>2. f.kind \in {"explicit", "mm"} => f.pri \in d.active_pri_bits
        <3>1. f.kind \in {"explicit", "mm"} =>
                PrisOf(s, {"explicit", "mm"}) = PrisOf(t, {"explicit", "mm"}) \cup {f.pri}
            BY <2>1, Zenon
        <3> QED BY <3>1, Zenon DEF Consistent
    <2>3. f.kind \in {"interrupt"} => f.pri \in d.run
        <3>1. f.kind \in {"interrupt"} =>
                PrisOf(s, {"interrupt"}) = PrisOf(t, {"interrupt"}) \cup {f.pri}
            BY <2>1, Zenon
        <3> QED BY <3>1, Zenon DEF Consistent
    <2>4. d.run # {} \/ d.active_pri_bits # {}
        <3>1. f.kind \in {"interrupt"} \/ f.kind \in {"explicit", "mm"}
            BY <1>2 DEF f
        <3> QED BY <2>2, <2>3, <3>1, Zenon
    <2>5. ehf_entering_normal_world(d) = d
        BY <2>4, Entering
    <2> QED BY <2>2, <2>5, Zenon DEF f
<1> QED BY <1>1, <1>2, Zenon

(* An exception makes EL3 dispatch an event explicitly.                    *)
LEMMA SdeiDispatchEventStep ==
    ASSUME IInv, pe.stop = "no", NEW p \in SdeiPris, sdei_dispatch_event(p)
    PROVE  IInv'
<1> DEFINE f == Frame("explicit", p)
           d == ehf_entering_normal_world(pe)
           s == IF InSecure THEN Front(stack) ELSE stack
<1>1. /\ \A q \in pe.active_pri_bits : p < q
      /\ pe' = ehf_activate_priority(d, p) /\ ns_mask' = ns_mask /\ stack' = Append(s, f)
    BY Zenon DEF sdei_dispatch_event, Rest, Front
<1>2. /\ pe \in PeData /\ ns_mask \in NsMasks /\ stack \in Seq(Frames)
      /\ Consistent(pe, stack, ns_mask) /\ StackOk(stack)
    BY Zenon DEF IInv, TypeInv, Consistent
<1>3. f \in Frames /\ FrameOk(f) /\ f.kind = "explicit" /\ f.pri = p /\ p \in Pris
    BY <1>2, NewFrame
<1> HIDE DEF f
<1>4. d \in PeData /\ d.stop = "no" /\ s \in Seq(Frames) /\ Consistent(d, s, ns_mask)
    <2>1. CASE stack = <<>>
        <3>1. ~InSecure
            BY <2>1 DEF InSecure, Top, NoFrame, SecureKinds
        <3>2. d = pe
            BY <1>2, <2>1, ClientData, Zenon
        <3> QED BY <1>2, <3>1, <3>2, Zenon
    <2>2. CASE stack # <<>> /\ Last(stack).kind \in {"fast", "yield"}
        <3>1. InSecure
            BY <2>2 DEF InSecure, Top, Last, SecureKinds
        <3>2. s = <<>>
            BY <1>2, <2>2, <3>1, SecureCall
        <3>3. d \in PeData /\ d.stop = "no" /\ Consistent(d, <<>>, ns_mask)
            BY <1>2, <2>2, ReturnedOk
        <3> QED BY <3>2, <3>3, Nothing, Zenon
    <2>3. CASE stack # <<>> /\ Last(stack).kind = "mm"
        <3>1. Last(stack).pri \in pe.active_pri_bits
            BY <1>2, <2>3, ClientData
        <3>2. Last(stack).pri = SpPri
            <4>1. FrameOk(Last(stack))
                BY <1>2, <2>3, PoppedOk
            <4> QED BY <2>3, <4>1, Zenon DEF FrameOk
        <3>3. p < SpPri /\ SpPri < p /\ p \in Nat /\ SpPri \in Nat
            BY <1>1, <1>2, <3>1, <3>2, Priorities, Zenon
        <3> QED BY <3>3
    <2>4. CASE stack # <<>> /\ Last(stack).kind \in {"interrupt", "explicit"}
        <3>1. ~InSecure
            BY <2>4 DEF InSecure, Top, Last, SecureKinds
        <3>2. d = pe
            BY <1>2, <2>4, ClientData
        <3> QED BY <1>2, <3>1, <3>2, Zenon
    <2>5. stack # <<>> => Last(stack) \in Frames
        BY <1>2, Popped
    <2>6. stack # <<>> => \/ Last(stack).kind \in {"fast", "yield"} \/ Last(stack).kind = "mm"
                         \/ Last(stack).kind \in {"interrupt", "explicit"}
        BY <2>5, Zenon DEF Frames, Kinds, SecureKinds
    <2> QED BY <2>1, <2>2, <2>3, <2>4, <2>6, Zenon
<1> HIDE DEF d, s
<1>5. /\ ns_mask \in NsMasks /\ f \in Frames /\ FrameOk(f)
      /\ f.kind \in {"explicit", "mm"} /\ f.pri \in Pris
      /\ pe' = ehf_activate_priority(d, f.pri) /\ stack' = Append(s, f)
    BY <1>1, <1>2, <1>3, Zenon
<1>6. /\ pe' \in PeData /\ pe'.stop # "assert" /\ stack' \in Seq(Frames)
      /\ pe'.stop = "no" => Consistent(pe', stack', ns_mask)
    BY <1>4, <1>5, ActivatedOk, Zenon
<1> QED BY <1>1, <1>2, <1>6, Zenon DEF IInv, TypeInv

-----------------------------------------------------------------------------
(* The inductive invariant holds at the start.                             *)
LEMMA InitIInv == Init => IInv
<1> SUFFICES ASSUME Init PROVE IInv
    OBVIOUS
<1>1. /\ ns_mask \in NsMasks /\ stack = <<>>
      /\ pe = [active_pri_bits |-> {}, init_pri_mask |-> NoMask,
               ns_pri_mask |-> NoMask, pmr |-> ns_mask, run |-> {}, stop |-> "no"]
    BY Zenon DEF Init
<1>2. pe \in PeData /\ pe.stop = "no"
    BY <1>1 DEF PeData, Masks
<1>3. Consistent(pe, <<>>, ns_mask)
    BY <1>1, Nothing, Zenon DEF Consistent, BaseMask
<1> QED BY <1>1, <1>2, <1>3, Nothing, Zenon DEF IInv, TypeInv

(* Every step keeps it.                                                    *)
LEMMA NextIInv == IInv /\ [Next]_ehf_vars => IInv'
<1> SUFFICES ASSUME IInv, [Next]_ehf_vars PROVE IInv'
    OBVIOUS
<1>1. CASE UNCHANGED ehf_vars
    BY <1>1, Zenon DEF ehf_vars, IInv, TypeInv
<1>2. CASE Next
    <2>1. pe.stop = "no"
        BY <1>2, Zenon DEF Next
    <2>2. ASSUME NEW m \in NsMasks, NsWritesMask(m) PROVE IInv'
        BY <2>1, <2>2, NsWritesMaskStep, Zenon
    <2>3. CASE FastSmc
        BY <2>1, <2>3, FastSmcStep, Zenon
    <2>4. CASE YieldSmc
        BY <2>1, <2>4, YieldSmcStep, Zenon
    <2>5. CASE SecureReturns
        BY <2>1, <2>5, SecureReturnsStep, Zenon
    <2>6. CASE mm_communicate
        BY <2>1, <2>6, MmCommunicateStep, Zenon
    <2>7. CASE mm_communicate_returns
        BY <2>1, <2>7, MmCommunicateReturnsStep, Zenon
    <2>8. ASSUME NEW p \in SdeiPris, ehf_el3_interrupt_handler(p) PROVE IInv'
        BY <2>1, <2>8, InterruptStep, Zenon
    <2>9. ASSUME NEW p \in SdeiPris, sdei_dispatch_event(p) PROVE IInv'
        BY <2>1, <2>9, SdeiDispatchEventStep, Zenon
    <2>10. CASE InterruptDispatchCompletes
        BY <2>1, <2>10, InterruptDispatchCompletesStep, Zenon
    <2>11. CASE ExplicitDispatchCompletes
        BY <2>1, <2>11, ExplicitDispatchCompletesStep, Zenon
    <2> QED
        BY <1>2, <2>2, <2>3, <2>4, <2>5, <2>6, <2>7, <2>8, <2>9, <2>10, <2>11, Zenon DEF Next, Dispatch
<1> QED BY <1>1, <1>2, Zenon

(* The per-PE data of ehf.c belong to the delegations in progress.         *)
THEOREM DataMatchDelegations == Spec => []IInv
BY InitIInv, NextIInv, PTL DEF Spec

(* For every set of priorities and every nesting of delegations, an        *)
(* activated priority keeps interrupts of that and of lower priorities out *)
(* until it is deactivated.                                                *)
THEOREM NoLowerPriorityPreemptsHolds == Spec => []NoLowerPriorityPreempts
<1>1. IInv => NoLowerPriorityPreempts
    BY Zenon DEF IInv, Consistent, PrisOf, NoLowerPriorityPreempts
<1> QED BY <1>1, DataMatchDelegations, PTL

(* The normal world gets its mask back when the last delegation ends, and  *)
(* no assertion on the way fails.                                          *)
THEOREM NsMaskRestoredHolds == Spec => []NsMaskRestored
<1>1. IInv => NsMaskRestored
    <2> SUFFICES ASSUME IInv, pe.stop = "no", stack = <<>>
                 PROVE  /\ pe.pmr = ns_mask /\ pe.ns_pri_mask = NoMask
                        /\ pe.active_pri_bits = {} /\ pe.run = {}
        BY Zenon DEF NsMaskRestored, IInv
    <2>1. ns_mask \in NsMasks /\ Consistent(pe, <<>>, ns_mask)
        BY Zenon DEF IInv, TypeInv
    <2> QED BY <2>1, IdleData, Zenon
<1> QED BY <1>1, DataMatchDelegations, PTL

(* Non-secure interrupts preempt Secure execution exactly while it serves  *)
(* a yielding SMC.                                                         *)
THEOREM SecureNotPreemptedHolds == Spec => []SecureNotPreempted
<1>1. IInv => SecureNotPreempted
    <2> SUFFICES ASSUME IInv, pe.stop = "no", InSecure
                 PROVE  /\ Top.kind = "yield" => pe.pmr = ns_mask
                        /\ Top.kind # "yield" => pe.pmr <= HighestNs
                        /\ ehf_is_ns_preemption_allowed(pe) <=> (Top.kind = "yield")
        BY Zenon DEF SecureNotPreempted
    <2>1. /\ pe \in PeData /\ ns_mask \in NsMasks /\ stack \in Seq(Frames)
          /\ Consistent(pe, stack, ns_mask) /\ StackOk(stack)
        BY Zenon DEF IInv, TypeInv, Consistent
    <2>2. Top.kind \in SecureKinds /\ stack # <<>> /\ Top = Last(stack)
        <3>1. Top.kind \in SecureKinds /\ Top.kind # "ns"
            BY DEF InSecure, SecureKinds
        <3> QED BY <3>1, TopFrame, Zenon
    <2>3. IS_PRI_SECURE(RunPri(pe)) <=> pe.run # {}
        <3>1. pe.run \subseteq SdeiPris
            BY <2>1, Zenon DEF PeData
        <3> QED BY <2>1, <3>1, RunningPriority, Zenon
    <2>4. HighestNs \in Nat /\ ns_mask # NoMask
        BY <2>1, Priorities, Zenon
    <2>5. CASE Top.kind = "yield"
        <3>1. pe.run = {} /\ pe.active_pri_bits = {} /\ pe.ns_pri_mask = NoMask /\ pe.pmr = ns_mask
            BY <2>1, <2>2, <2>5, SecureCall
        <3> QED BY <2>3, <2>5, <3>1, Zenon DEF ehf_is_ns_preemption_allowed
    <2>6. CASE Top.kind = "fast"
        <3>1. pe.ns_pri_mask = ns_mask /\ pe.pmr = HighestNs
            BY <2>1, <2>2, <2>6, SecureCall
        <3>2. pe.pmr <= HighestNs
            BY <2>4, <3>1
        <3> QED BY <2>4, <2>6, <3>1, <3>2 DEF ehf_is_ns_preemption_allowed
    <2>7. CASE Top.kind = "mm"
        <3>1. Last(stack).pri \in pe.active_pri_bits
            BY <2>1, <2>2, <2>7, ClientData
        <3>2. pe.pmr <= Last(stack).pri /\ Last(stack).pri \in Pris
            BY <2>1, <3>1, Zenon DEF Consistent, PeData
        <3>3. pe.pmr \in Nat
            BY <2>1, Priorities, Zenon DEF PeData, Masks
        <3>4. Last(stack).pri \in Nat /\ Last(stack).pri < HighestNs
            BY <2>1, <3>2, Priorities, Zenon
        <3>5. pe.pmr <= HighestNs
            BY <2>4, <3>2, <3>3, <3>4
        <3> QED BY <2>7, <3>1, <3>5 DEF ehf_is_ns_preemption_allowed
    <2> QED BY <2>2, <2>5, <2>6, <2>7, Zenon DEF SecureKinds
<1> QED BY <1>1, DataMatchDelegations, PTL

=============================================================================
