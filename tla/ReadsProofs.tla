---------------------------- MODULE ReadsProofs -----------------------------
(***************************************************************************)
(* Reads of what others replace, and the descriptors calls hand back.  The *)
(* size-probe loops return whole, consistent objects and report ERANGE     *)
(* only when the object outgrew every fill; mount_get_policy pairs a       *)
(* template with its own policy; every descriptor has one owner; a guarded *)
(* SetValue loses no update, a watch keeps a copy fresh and a walk over a  *)
(* key's values gives each that stays: for every set of sizes, tables,     *)
(* clients and names, and every pattern of concurrent replacement.         *)
(***************************************************************************)
EXTENDS SizeProbe, MountPolicy, Descriptors, RegistryValues, CommonLemmas,
        SequenceTheorems, TLAPS

-----------------------------------------------------------------------------
(* The types hold: no loop makes more fills than it allows itself. *)
THEOREM ProbeTypeCorrect == Spec => []TypeOK
<1>1. Init => TypeOK
  BY SizeProbeAssumption DEF Init, TypeOK, Kinds, Attempts
<1>2. TypeOK /\ [Next]_vars => TypeOK'
  <2> SUFFICES ASSUME TypeOK, [Next]_vars PROVE TypeOK'
    OBVIOUS
  <2> USE DEF TypeOK, Attempts, object, history
  <2>1. CASE Change BY <2>1, SizeProbeAssumption DEF Change
  <2>2. ASSUME NEW k \in Kinds, Call(k) PROVE TypeOK'
    BY <2>2 DEF Call, Kinds
  <2>3. CASE Probe BY <2>3 DEF Probe
  <2>4. CASE Fill BY <2>4 DEF Fill, NextTurn, Done
  <2>5. CASE Reprobe BY <2>5 DEF Reprobe, NextTurn, Done
  <2>6. CASE Fail BY <2>6 DEF Fail, Done
  <2>7. CASE Return BY <2>7 DEF Return
  <2>8. CASE UNCHANGED vars BY <2>8 DEF vars
  <2>9. QED BY <2>1, <2>2, <2>3, <2>4, <2>5, <2>6, <2>7, <2>8 DEF Next
<1>3. QED BY <1>1, <1>2, PTL DEF Spec

-----------------------------------------------------------------------------
(* The counting argument: every refused fill was paid for by a             *)
(* replacement, and every size in use was one the object really had.       *)
THEOREM ProbeCorrect == Spec => []ProbeInv
<1>1. Init => ProbeInv
  BY DEF Init, ProbeInv, ReadIsSnapshot, ErangeMeansOutgrown
<1>2. TypeOK /\ ProbeInv /\ [Next]_vars => ProbeInv'
  <2> SUFFICES ASSUME TypeOK, ProbeInv, [Next]_vars PROVE ProbeInv'
    OBVIOUS
  <2> USE DEF ProbeInv, object, history, Xattr, Outgrown, ReadIsSnapshot, ErangeMeansOutgrown
  <2>1. CASE Change
    <3>1. seen \subseteq seen'
      BY <2>1 DEF Change
    <3>2. CASE pc = "idle"
      BY <2>1, <3>2 DEF Change
    <3>3. CASE pc # "idle"
      <4>1. changes' = changes + 1 /\ [ver |-> ver', len |-> len'] \in seen'
        BY <2>1, <3>3 DEF Change
      <4>2. UNCHANGED <<kind, pc, cap, tries, res, out, outVer>>
        BY <2>1 DEF Change
      <4>3. changes \in Nat /\ tries \in Nat
        BY DEF TypeOK, Attempts
      <4>4. QED BY <3>1, <3>3, <4>1, <4>2, <4>3
    <3>4. QED BY <3>2, <3>3
  <2>2. ASSUME NEW k \in Kinds, Call(k) PROVE ProbeInv'
    BY <2>2 DEF Call, TypeOK
  <2>3. CASE Probe
    BY <2>3 DEF Probe, TypeOK
  <2>4. CASE Fill
    <3> USE DEF Buffer, Needed, Nul, TypeOK, Attempts
    <3>1. CASE Xattr /\ Buffer = 0
      BY <2>4, <3>1 DEF Fill, Done
    <3>2. CASE ~(Xattr /\ Buffer = 0) /\ Needed <= Buffer
      BY <2>4, <3>2 DEF Fill, Done
    <3>3. CASE ~(Xattr /\ Buffer = 0) /\ Needed > Buffer
      <4>1. /\ tries' = tries + 1 /\ cap # len
            /\ IF Xattr THEN pc' = "reprobe" /\ UNCHANGED <<cap, res>>
               ELSE cap' = len /\ NextTurn(tries')
            /\ UNCHANGED <<object, kind, history, out, outVer>>
        BY <2>4, <3>3 DEF Fill
      <4>2. changes >= Outgrown'
        BY <2>4, <4>1 DEF Fill
      <4>3. CASE Xattr
        BY <2>4, <4>1, <4>2, <4>3 DEF Fill
      <4>4. CASE ~Xattr
        BY <2>4, <4>1, <4>2, <4>4 DEF Fill, NextTurn, Done
      <4>5. QED BY <4>3, <4>4
    <3>4. QED BY <3>1, <3>2, <3>3
  <2>5. CASE Reprobe
    BY <2>5 DEF Reprobe, NextTurn, Done, TypeOK, Attempts
  <2>6. CASE Fail BY <2>6 DEF Fail, Done
  <2>7. CASE Return BY <2>7 DEF Return
  <2>8. CASE UNCHANGED vars BY <2>8 DEF vars
  <2>9. QED BY <2>1, <2>2, <2>3, <2>4, <2>5, <2>6, <2>7, <2>8 DEF Next
<1>3. QED BY <1>1, <1>2, ProbeTypeCorrect, PTL DEF Spec

(* A buffer returned Ok is one whole content of the object. *)
THEOREM SnapshotCorrect == Spec => []ReadIsSnapshot
BY ProbeCorrect, PTL DEF ProbeInv

(* ERANGE reaches the caller only after the object outgrew every fill. *)
THEOREM ErangeCorrect == Spec => []ErangeMeansOutgrown
BY ProbeCorrect, PTL DEF ProbeInv

-----------------------------------------------------------------------------
(* The types hold, and the loop gives up at its fourth refused read. *)
THEOREM MountTypeCorrect == MountSpec => []MountTypeOK
<1>1. MountInit => MountTypeOK
  BY MountPolicyAssumption DEF MountInit, MountTypeOK, None
<1>2. MountTypeOK /\ [MountNext]_mountVars => MountTypeOK'
  <2> SUFFICES ASSUME MountTypeOK, [MountNext]_mountVars PROVE MountTypeOK'
    OBVIOUS
  <2> USE DEF MountTypeOK, sb, mountHistory
  <2>1. CASE mount_set_policy BY <2>1, MountPolicyAssumption DEF mount_set_policy
  <2>2. CASE FirstRead BY <2>2 DEF FirstRead, Finish
  <2>3. CASE Reread BY <2>3 DEF Reread, Finish
  <2>4. CASE Grow BY <2>4 DEF Grow, Finish, Max2
  <2>5. CASE MountFail BY <2>5 DEF MountFail, Finish
  <2>6. CASE MountReturn BY <2>6 DEF MountReturn
  <2>7. CASE UNCHANGED mountVars BY <2>7 DEF mountVars
  <2>8. QED BY <2>1, <2>2, <2>3, <2>4, <2>5, <2>6, <2>7 DEF MountNext
<1>3. QED BY <1>1, <1>2, PTL DEF MountSpec

-----------------------------------------------------------------------------
(* The loop's bookkeeping: each refused read was paid for by a replacement *)
(* of the policy, and the policy in force is one the call has seen.        *)
THEOREM RereadCorrect == MountSpec => []RereadInv
<1>1. MountInit => RereadInv
  BY DEF MountInit, RereadInv, TemplateBelongsToPolicy, MissingTemplateMeansRemovedOrOutgrown
<1>2. MountTypeOK /\ RereadInv /\ [MountNext]_mountVars => RereadInv'
  <2> SUFFICES ASSUME MountTypeOK, RereadInv, [MountNext]_mountVars PROVE RereadInv'
    OBVIOUS
  <2> USE DEF MountTypeOK, RereadInv, TemplateBelongsToPolicy,
              MissingTemplateMeansRemovedOrOutgrown, sb, mountHistory
  <2>1. CASE mount_set_policy
    <3>1. UNCHANGED <<stage, reply, room, refusals, got, status>>
      BY <2>1 DEF mount_set_policy
    <3>2. CASE stage = "idle"
      BY <2>1, <3>1, <3>2 DEF mount_set_policy
    <3>3. CASE stage # "idle"
      <4>1. sets' = sets + 1 /\ policies' = policies \cup {Policy'}
        BY <2>1, <3>3 DEF mount_set_policy
      <4>2. QED BY <3>1, <3>3, <4>1
    <3>4. QED BY <3>2, <3>3
  <2>2. CASE FirstRead BY <2>2 DEF FirstRead, Finish, Policy
  <2>3. CASE Reread
    <3>1. Policy \in policies /\ UNCHANGED <<policies, sets>> /\ stage' = "done"
      BY <2>3 DEF Reread, Finish
    <3>2. CASE template_sd_len = 0
      BY <2>3, <3>1, <3>2 DEF Reread, Policy
    <3>3. CASE template_sd_len # 0
      BY <2>3, <3>1, <3>3 DEF Reread, Policy, None
    <3>4. QED BY <3>2, <3>3
  <2>4. CASE Grow
    <3>1. sets >= refusals' /\ ~(template_sd_len > room')
      BY <2>4 DEF Grow, Max2
    <3>2. QED BY <2>4, <3>1 DEF Grow, Finish, Policy
  <2>5. CASE MountFail BY <2>5 DEF MountFail, Finish
  <2>6. CASE MountReturn BY <2>6 DEF MountReturn
  <2>7. CASE UNCHANGED mountVars BY <2>7 DEF mountVars, Policy
  <2>8. QED BY <2>1, <2>2, <2>3, <2>4, <2>5, <2>6, <2>7 DEF MountNext
<1>3. QED BY <1>1, <1>2, MountTypeCorrect, PTL DEF MountSpec

(* A returned template belongs to the policy it is returned with. *)
THEOREM TemplateCorrect == MountSpec => []TemplateBelongsToPolicy
BY RereadCorrect, PTL DEF RereadInv

(* A template is missing only if it was removed, or outgrew all four reads. *)
THEOREM MissingTemplateCorrect == MountSpec => []MissingTemplateMeansRemovedOrOutgrown
BY RereadCorrect, PTL DEF RereadInv

-----------------------------------------------------------------------------
(* Descriptors.  What the process may have open, and what is sent.         *)
Objects == Files \cup Tokens \cup {"peer"}
Message == [token : Tokens \cup {NoObject}, objects : Seq(Objects)]

WireTyped == wire \in Seq(Message)

(* A value's numbers are open, name what it stands for, and are its alone; *)
(* and every open number is some value's.                                  *)
Stands(v) == /\ v.fds \in Seq(Fds) /\ IsInjective(v.fds)
             /\ \A i \in DOMAIN v.fds :
                  v.fds[i] \in DOMAIN table /\ table[v.fds[i]] = v.names[i]
Owns(v, n) == n \in ToSet(v.fds)

OwnInv ==
  /\ DOMAIN table \subseteq Fds
  /\ \A n \in DOMAIN table : table[n] \in Objects
  /\ \A v \in values : Stands(v)
  /\ \A n \in DOMAIN table : \E v \in values : Owns(v, n)
  /\ \A v, w \in values : \A n \in DOMAIN table : Owns(v, n) /\ Owns(w, n) => v = w

(* The kernel hands out numbers that are free, each once.                  *)
LEMMA NumbersFree ==
  ASSUME NEW k \in 0 .. Cardinality(Free)
  PROVE  /\ Numbers(k) \in Seq(Free) /\ Len(Numbers(k)) = k /\ IsInjective(Numbers(k))
         /\ DOMAIN Numbers(k) = 1..k
         /\ IsFiniteSet(Free) /\ Cardinality(Free) \in Nat /\ k \in Nat
<1>1. IsFiniteSet(Free) /\ Cardinality(Free) \in Nat /\ Orders(Below(Fds), Free)
  <2>1. Free \in SUBSET Fds /\ IsFiniteSet(Fds) /\ Fds \subseteq Int
    BY DescriptorAssumption DEF Free
  <2>2. QED BY <2>1, FS_Subset, FS_CardinalityType, BelowOrders
<1>2. ASSUME NEW i \in 1..k
      PROVE  /\ Numbers(k)[i] \in Free
             /\ Position(Free, Below(Fds), Numbers(k)[i]) = i - 1
  <2>1. i - 1 \in 0 .. Cardinality(Free) - 1
    BY <1>1
  <2>2. Numbers(k)[i] = Nth(Free, Below(Fds), i - 1)
    BY DEF Numbers
  <2>3. QED BY <1>1, <2>1, <2>2, NthAtPosition
<1>3. k \in Nat /\ DOMAIN Numbers(k) = 1..k
  BY <1>1 DEF Numbers
<1>4. Numbers(k) \in Seq(Free)
  <2>1. Numbers(k) = [i \in 1..k |-> Numbers(k)[i]]
    BY DEF Numbers
  <2>2. Numbers(k) \in [1..k -> Free]
    BY <1>2, <2>1
  <2>3. QED BY <1>3, <2>2, SeqDef
<1>5. Len(Numbers(k)) = k
  BY <1>3, <1>4, LenProperties
<1>6. IsInjective(Numbers(k))
  <2> SUFFICES ASSUME NEW i \in 1..k, NEW j \in 1..k, Numbers(k)[i] = Numbers(k)[j]
               PROVE  i = j
    BY <1>3 DEF IsInjective
  <2>1. i - 1 = j - 1 /\ i \in Int /\ j \in Int
    BY <1>2
  <2>2. QED BY <2>1
<1>7. QED BY <1>1, <1>3, <1>4, <1>5, <1>6

(* What is opened for new numbers and wrapped into one value is owned.     *)
LEMMA OpenedIsOwned ==
  ASSUME OwnInv, NEW objects \in Seq(Objects), Len(objects) \in 0 .. Cardinality(Free),
         Opened(Numbers(Len(objects)), objects), Owning(Numbers(Len(objects)), objects)
  PROVE  OwnInv'
<1> SUFFICES ASSUME NEW k, k = Len(objects), NEW fds, fds = Numbers(k),
                    NEW u, u = [fds |-> fds, names |-> objects]
             PROVE  OwnInv'
  OBVIOUS
<1>1. fds \in Seq(Free) /\ IsInjective(fds) /\ DOMAIN fds = 1..k /\ k \in Nat
  BY NumbersFree
<1>2. \A i \in 1..k : fds[i] \in Free
  BY <1>1, ElementOfSeq, LenProperties
<1>3. ToSet(fds) = {fds[i] : i \in 1..k}
  BY <1>1 DEF ToSet
<1>4. ToSet(fds) \cap DOMAIN table = {} /\ ToSet(fds) \subseteq Fds
  BY <1>2, <1>3 DEF Free
<1>5. table' = [n \in DOMAIN table \cup ToSet(fds) |->
                  IF n \in ToSet(fds) THEN objects[CHOOSE i \in DOMAIN fds : fds[i] = n]
                  ELSE table[n]]
  BY DEF Opened
<1>6. values' = values \cup {u}
  BY DEF Owning
<1>7. ASSUME NEW i \in 1..k
      PROVE  fds[i] \in DOMAIN table' /\ table'[fds[i]] = objects[i]
  <2>1. \A j \in DOMAIN fds : fds[j] = fds[i] => j = i
    BY <1>1 DEF IsInjective
  <2>2. (CHOOSE j \in DOMAIN fds : fds[j] = fds[i]) = i
    BY <1>1, <2>1
  <2>3. fds[i] \in ToSet(fds)
    BY <1>3
  <2>4. QED BY <1>5, <2>2, <2>3
<1>8. ASSUME NEW n \in DOMAIN table PROVE n \in DOMAIN table' /\ table'[n] = table[n]
  BY <1>4, <1>5
<1>9. DOMAIN table' = DOMAIN table \cup ToSet(fds)
  BY <1>5
<1>10. \A i \in 1..k : objects[i] \in Objects
  BY ElementOfSeq
<1>11. \A n \in DOMAIN table' : table'[n] \in Objects
  <2> SUFFICES ASSUME NEW n \in DOMAIN table' PROVE table'[n] \in Objects
    OBVIOUS
  <2>1. CASE n \in DOMAIN table
    BY <1>8, <2>1 DEF OwnInv
  <2>2. CASE n \in ToSet(fds)
    <3>1. PICK i \in 1..k : n = fds[i]
      BY <1>3, <2>2
    <3>2. QED BY <1>7, <1>10, <3>1
  <2>3. QED BY <1>9, <2>1, <2>2
<1>12. Stands(u)'
  <2>1. u.fds = fds /\ u.names = objects
    OBVIOUS
  <2>2. fds \in Seq(Fds)
    <3>1. Free \subseteq Fds
      BY DEF Free
    <3>2. QED BY <1>1, <3>1
  <2>3. QED BY <1>1, <1>7, <2>1, <2>2 DEF Stands
<1>13. ASSUME NEW v \in values PROVE Stands(v)'
  BY <1>8 DEF OwnInv, Stands
<1>14. ASSUME NEW v \in values, NEW n, Owns(v, n) PROVE n \in DOMAIN table
  BY <1>14 DEF OwnInv, Stands, Owns, ToSet
<1>15. \A n : Owns(u, n) <=> n \in ToSet(fds)
  BY DEF Owns
<1>16. \A n \in DOMAIN table' : \E v \in values' : Owns(v, n)
  BY <1>6, <1>9, <1>15 DEF OwnInv
<1>17. ASSUME NEW v \in values', NEW w \in values', NEW n, Owns(v, n), Owns(w, n)
       PROVE  v = w
  BY <1>4, <1>6, <1>14, <1>15, <1>17 DEF OwnInv
<1>18. DOMAIN table' \subseteq Fds
  BY <1>4, <1>9 DEF OwnInv
<1>19. \A v \in values' : Stands(v)'
  BY <1>6, <1>12, <1>13
<1>20. QED BY <1>11, <1>16, <1>17, <1>18, <1>19 DEF OwnInv, Owns

(* What the kernel delivers of a message finds a number for each of its    *)
(* descriptors.                                                            *)
LEMMA DeliveredFits ==
  ASSUME NEW m \in Message, NEW max_fds \in Nat
  PROVE  /\ Delivered(m, max_fds) \in Seq(Objects)
         /\ Len(Delivered(m, max_fds)) \in 0 .. Cardinality(Free)
<1> SUFFICES ASSUME NEW free, free = Cardinality(Free), NEW n, n = Len(m.objects),
                    NEW t, t = IF TokenFits(m) THEN <<m.token>> ELSE <<>>,
                    NEW f, f = Fitting(m, max_fds)
             PROVE  /\ Delivered(m, max_fds) \in Seq(Objects)
                    /\ Len(Delivered(m, max_fds)) \in 0 .. free
  OBVIOUS
<1>1. free \in Nat /\ (Free # {} => free > 0)
  <2>1. Free \in SUBSET Fds /\ IsFiniteSet(Fds)
    BY DescriptorAssumption DEF Free
  <2>2. IsFiniteSet(Free)
    BY <2>1, FS_Subset
  <2>3. QED BY <2>2, FS_CardinalityType, FS_EmptySet
<1>2. m.objects \in Seq(Objects) /\ n \in Nat /\ m.token \in Tokens \cup {NoObject}
  BY LenProperties DEF Message
<1>3. /\ t \in Seq(Objects) /\ Len(t) \in {0, 1} /\ Len(t) <= free
      /\ Len(t) = IF TokenFits(m) THEN 1 ELSE 0
  <2>1. CASE TokenFits(m)
    <3>1. m.token \in Objects /\ free >= 1
      BY <1>1, <1>2, <2>1 DEF TokenFits, Objects
    <3>2. <<m.token>> \in Seq(Objects) /\ Len(<<m.token>>) = 1
      BY <3>1
    <3>3. QED BY <2>1, <3>1, <3>2
  <2>2. CASE ~TokenFits(m)
    <3>1. <<>> \in Seq(Objects) /\ Len(<<>>) = 0
      BY EmptySeq
    <3>2. QED BY <1>1, <2>2, <3>1
  <2>3. QED BY <2>1, <2>2
<1>4. f \in 0 .. n /\ f <= free - Len(t)
  <2> DEFINE left == free - Len(t)
  <2>1. left \in Nat
    BY <1>1, <1>3
  <2>2. f = Min({max_fds, n, left})
    BY <1>3 DEF Fitting
  <2> HIDE DEF left
  <2>3. \E x \in {max_fds, n, left} : \A y \in {max_fds, n, left} : x =< y
    BY <1>2, <2>1
  <2>4. f \in {max_fds, n, left} /\ \A y \in {max_fds, n, left} : f =< y
    BY <2>2, <2>3 DEF Min
  <2>5. f \in Nat /\ f <= n /\ f <= left
    BY <1>2, <2>1, <2>4
  <2>6. QED BY <1>2, <2>5 DEF left
<1>5. SubSeq(m.objects, 1, f) \in Seq(Objects) /\ Len(SubSeq(m.objects, 1, f)) = f
  BY <1>2, <1>4, SubSeqProperties
<1>6. /\ t \o SubSeq(m.objects, 1, f) \in Seq(Objects)
      /\ Len(t \o SubSeq(m.objects, 1, f)) = Len(t) + f
  BY <1>3, <1>5, ConcatProperties
<1>7. Delivered(m, max_fds) = t \o SubSeq(m.objects, 1, f)
  BY DEF Delivered
<1>8. QED BY <1>1, <1>3, <1>4, <1>6, <1>7

\* One descriptor is opened only when a number is free.
LEMMA OneFits ==
  ASSUME Free # {}, NEW o \in Objects
  PROVE  <<o>> \in Seq(Objects) /\ Len(<<o>>) = 1 /\ 1 \in 0 .. Cardinality(Free)
<1>1. Free \in SUBSET Fds /\ IsFiniteSet(Fds)
  BY DescriptorAssumption DEF Free
<1>2. IsFiniteSet(Free)
  BY <1>1, FS_Subset
<1>3. Cardinality(Free) \in Nat /\ Cardinality(Free) # 0
  BY <1>2, FS_CardinalityType, FS_EmptySet
<1>4. QED BY <1>3

\* Every step keeps what is sent well typed.
LEMMA WireKept == WireTyped /\ OwnInv /\ [FdNext]_fdVars => WireTyped'
<1> SUFFICES ASSUME wire \in Seq(Message), OwnInv, [FdNext]_fdVars PROVE wire' \in Seq(Message)
  BY DEF WireTyped
<1>1. ASSUME NEW t \in Tokens \cup {NoObject}, NEW o \in Seq(Objects),
             wire' = Append(wire, [token |-> t, objects |-> o])
      PROVE  wire' \in Seq(Message)
  <2>1. [token |-> t, objects |-> o] \in Message
    BY DEF Message
  <2>2. QED BY <1>1, <2>1, AppendProperties
<1>2. ASSUME NEW fds \in Borrowed, NEW r \in BOOLEAN, send_message(NoObject, fds, r)
      PROVE  wire' \in Seq(Message)
  <2>1. fds \in Seq(DOMAIN table)
    <3>1. ASSUME NEW n \in DOMAIN table
          PROVE  <<n>> \in Seq(DOMAIN table) /\ <<n, n>> \in Seq(DOMAIN table)
      OBVIOUS
    <3>2. <<>> \in Seq(DOMAIN table)
      BY EmptySeq
    <3>3. QED BY <3>1, <3>2 DEF Borrowed
  <2>2. Len(fds) \in Nat /\ DOMAIN fds = 1..Len(fds) /\ \A i \in 1..Len(fds) : fds[i] \in DOMAIN table
    BY <2>1, LenProperties, ElementOfSeq
  <2> DEFINE o == [i \in DOMAIN fds |-> table[fds[i]]]
  <2>3. o \in [1..Len(fds) -> Objects]
    BY <2>2 DEF OwnInv
  <2>4. o \in Seq(Objects)
    BY <2>2, <2>3, SeqDef
  <2>5. wire' = wire \/ wire' = Append(wire, [token |-> NoObject, objects |-> o])
    BY <1>2 DEF send_message
  <2> HIDE DEF o
  <2>6. QED BY <1>1, <2>4, <2>5
<1>3. ASSUME NEW t \in Tokens \cup {NoObject}, NEW f \in Files,
             PeerSends(t, <<>>) \/ PeerSends(t, <<f>>) \/ PeerSends(t, <<f, f>>)
      PROVE  wire' \in Seq(Message)
  <2>1. <<>> \in Seq(Objects) /\ <<f>> \in Seq(Objects) /\ <<f, f>> \in Seq(Objects)
    BY DEF Objects
  <2>2. QED BY <1>1, <1>3, <2>1 DEF PeerSends
<1>4. ASSUME NEW max_fds \in 0 .. CountLimit, recv_message(max_fds) PROVE wire' \in Seq(Message)
  BY <1>4, HeadTailProperties DEF recv_message
<1>5. CASE wire' = wire
  BY <1>5
<1>6. QED
  BY <1>2, <1>3, <1>4, <1>5
  DEF FdNext, ReceiveFails, create, CreateFails, peer_pidfd, Drop, fdVars

\* Every step leaves every open descriptor with one owner.
LEMMA OwnKept == WireTyped /\ OwnInv /\ [FdNext]_fdVars => OwnInv'
<1> SUFFICES ASSUME WireTyped, OwnInv, [FdNext]_fdVars PROVE OwnInv'
  OBVIOUS
<1>1. CASE UNCHANGED <<table, values>>
  BY <1>1 DEF OwnInv, Stands
<1>2. ASSUME NEW max_fds \in 0 .. CountLimit, recv_message(max_fds) PROVE OwnInv'
  <2>1. Head(wire) \in Message /\ max_fds \in Nat
    BY <1>2, HeadTailProperties, DescriptorAssumption DEF WireTyped, recv_message
  <2> DEFINE o == Delivered(Head(wire), max_fds)
  <2>2. o \in Seq(Objects) /\ Len(o) \in 0 .. Cardinality(Free)
    BY <2>1, DeliveredFits
  <2>3. Opened(Numbers(Len(o)), o) /\ Owning(Numbers(Len(o)), o)
    BY <1>2 DEF recv_message
  <2> HIDE DEF o
  <2>4. QED BY <2>2, <2>3, OpenedIsOwned
<1>3. ASSUME NEW o \in Objects, Free # {}, Opened(Numbers(1), <<o>>), Owning(Numbers(1), <<o>>)
      PROVE  OwnInv'
  <2>1. <<o>> \in Seq(Objects) /\ Len(<<o>>) = 1 /\ 1 \in 0 .. Cardinality(Free)
    BY <1>3, OneFits
  <2>2. QED BY <1>3, <2>1, OpenedIsOwned
<1>4. ASSUME NEW f \in Files, NEW d \in Dispositions, create(f, d) PROVE OwnInv'
  BY <1>1, <1>3, <1>4 DEF create, Objects
<1>5. CASE peer_pidfd
  BY <1>3, <1>5 DEF peer_pidfd, Objects
<1>6. ASSUME NEW v \in values, Drop(v) PROVE OwnInv'
  <2>1. /\ values' = values \ {v}
        /\ table' = [n \in DOMAIN table \ ToSet(v.fds) |-> table[n]]
    BY <1>6 DEF Drop
  <2>2. DOMAIN table' = DOMAIN table \ ToSet(v.fds) /\ \A n \in DOMAIN table' : table'[n] = table[n]
    BY <2>1
  <2>3. ASSUME NEW w \in values' PROVE Stands(w)'
    <3>1. Stands(w) /\ w \in values /\ w # v
      BY <2>1 DEF OwnInv
    <3>2. ASSUME NEW i \in DOMAIN w.fds
          PROVE  w.fds[i] \in DOMAIN table' /\ table'[w.fds[i]] = w.names[i]
      <4>1. w.fds[i] \in DOMAIN table /\ table[w.fds[i]] = w.names[i]
        BY <3>1 DEF Stands
      <4>2. Owns(w, w.fds[i])
        BY DEF Owns, ToSet
      <4>3. ~Owns(v, w.fds[i])
        BY <3>1, <4>1, <4>2 DEF OwnInv
      <4>4. QED BY <2>2, <4>1, <4>3 DEF Owns
    <3>3. QED BY <3>1, <3>2 DEF Stands
  <2>4. ASSUME NEW n \in DOMAIN table' PROVE \E w \in values' : Owns(w, n)
    <3>1. PICK w \in values : Owns(w, n)
      BY <2>2 DEF OwnInv
    <3>2. w # v
      BY <2>2, <3>1 DEF Owns
    <3>3. QED BY <2>1, <3>1, <3>2
  <2>5. QED BY <2>1, <2>2, <2>3, <2>4 DEF OwnInv, Owns
<1>7. QED
  BY <1>1, <1>2, <1>4, <1>5, <1>6
  DEF FdNext, send_message, PeerSends, ReceiveFails, CreateFails, fdVars

(* Every descriptor of the process has one owner, for every table, every   *)
(* message and every order of calls.                                       *)
THEOREM OwnersCorrect == FdSpec => []EveryDescriptorHasOneOwner
<1>1. FdInit => WireTyped /\ OwnInv
  BY EmptySeq DEF FdInit, WireTyped, OwnInv
<1>2. OwnInv => EveryDescriptorHasOneOwner
  <2> SUFFICES ASSUME OwnInv PROVE EveryDescriptorHasOneOwner
    OBVIOUS
  <2>1. ASSUME NEW n \in DOMAIN table
        PROVE  Cardinality({v \in values : n \in ToSet(v.fds)}) = 1
    <3>1. PICK v \in values : Owns(v, n)
      BY DEF OwnInv
    <3>2. {w \in values : n \in ToSet(w.fds)} = {v}
      BY <3>1 DEF OwnInv, Owns
    <3>3. QED BY <3>2, FS_Singleton
  <2>2. QED BY <2>1 DEF OwnInv, Stands, EveryDescriptorHasOneOwner
<1>3. QED BY <1>1, <1>2, WireKept, OwnKept, PTL DEF FdSpec

-----------------------------------------------------------------------------
(* A registry key: guarded updates, a watch and a walk over its values. *)
Value == [data : SUBSET Clients, seq : Nat]
Code == DOMAIN WatchKinds \cup {"unnamed"}
Kind == {"ValueSet", "ValueDeleted", "SubkeyCreated", "SubkeyDeleted",
         "SecurityDescriptorChanged", "KeyDeleted", "Overflow", "Other"}
Raw == [type : Code, name : Names]
Record == [type : Kind, name : Names]

(* The types of what the proofs are about. *)
RegTypeOK ==
  /\ store \in [Names -> Value] /\ writes \in Nat
  /\ kept \in [Names -> SUBSET Clients]
  /\ client \in [Clients -> [step : {"idle", "read"}, name : Names, read : Value]]
  /\ queue \in Seq(Raw)
  /\ watcher \in [step : {"start", "off", "stale", "watching"},
                  copy : [Names -> Value], records : Seq(Record)]

\* from_raw answers with a kind for whatever the kernel says.
LEMMA FromRaw == ASSUME NEW raw \in Code PROVE from_raw(raw) \in Kind
<1>1. ASSUME raw \in DOMAIN WatchKinds PROVE WatchKinds[raw] \in Kind
  <2>1. \/ raw = "REG_WATCH_VALUE_SET" \/ raw = "REG_WATCH_VALUE_DELETED"
        \/ raw = "REG_WATCH_SUBKEY_CREATED" \/ raw = "REG_WATCH_SUBKEY_DELETED"
        \/ raw = "REG_WATCH_SD_CHANGED" \/ raw = "REG_WATCH_KEY_DELETED"
        \/ raw = "REG_WATCH_OVERFLOW"
    BY <1>1 DEF WatchKinds
  <2>2. QED BY <2>1 DEF WatchKinds, Kind
<1>2. QED BY <1>1 DEF from_raw, Kind

\* A name to start from, and for records that are not of a value.
LEMMA AnyIsName == AnyName \in Names
BY RegistryAssumption DEF AnyName

(* What is queued has the queue's type. *)
LEMMA QueuedType ==
  ASSUME queue \in Seq(Raw), NEW code \in Code, NEW n \in Names
  PROVE  Queued(code, n) \in Seq(Raw)
<1>1. [type |-> code, name |-> n] \in Raw /\ [type |-> "REG_WATCH_OVERFLOW", name |-> n] \in Raw
  BY DEF Raw, Code, WatchKinds
<1>2. QED BY <1>1, AppendProperties DEF Queued

\* A write keeps the types.
LEMMA PutType ==
  ASSUME RegTypeOK, NEW n \in Names, NEW data \in SUBSET Clients, Put(n, data)
  PROVE  store' \in [Names -> Value] /\ writes' \in Nat /\ queue' \in Seq(Raw)
<1>1. "REG_WATCH_VALUE_SET" \in Code
  BY DEF Code, WatchKinds
<1>2. queue' \in Seq(Raw)
  BY <1>1, QueuedType DEF Put, RegTypeOK
<1>3. QED BY <1>2 DEF Put, RegTypeOK, Value

\* The types of the store, the clients, the queue and the watcher.
THEOREM RegTypeCorrect == RegSpec => []RegTypeOK
<1>1. RegInit => RegTypeOK
  BY AnyIsName, EmptySeq DEF RegInit, RegTypeOK, Absent, Idle, Value
<1>2. RegTypeOK /\ [RegNext]_regVars => RegTypeOK'
  <2> SUFFICES ASSUME RegTypeOK, [RegNext]_regVars PROVE RegTypeOK'
    OBVIOUS
  <2>1. ASSUME NEW c \in Clients, call(c) PROVE RegTypeOK'
    <3>1. client[c].name \in Names /\ Update(c) \in SUBSET Clients
      BY DEF RegTypeOK, Update, Value
    <3>2. Put(client[c].name, Update(c)) /\ UNCHANGED watcher
      BY <2>1 DEF call, Put
    <3>3. store' \in [Names -> Value] /\ writes' \in Nat /\ queue' \in Seq(Raw)
      BY <3>1, <3>2, PutType
    <3>4. kept' \in [Names -> SUBSET Clients]
      BY <2>1, <3>1 DEF call, RegTypeOK
    <3>5. Idle \in [step : {"idle", "read"}, name : Names, read : Value]
      BY AnyIsName DEF Idle, Absent, Value
    <3>6. client' \in [Clients -> [step : {"idle", "read"}, name : Names, read : Value]]
      BY <2>1, <3>5 DEF call, RegTypeOK
    <3>7. QED BY <3>2, <3>3, <3>4, <3>6 DEF RegTypeOK
  <2>2. ASSUME NEW c \in Clients, Again(c) PROVE RegTypeOK'
    <3>1. Idle \in [step : {"idle", "read"}, name : Names, read : Value]
      BY AnyIsName DEF Idle, Absent, Value
    <3>2. QED BY <2>2, <3>1 DEF Again, RegTypeOK, keyVars
  <2>3. ASSUME NEW c \in Clients, NEW n \in Names, Query(c, n) PROVE RegTypeOK'
    BY <2>3 DEF Query, RegTypeOK, keyVars
  <2>4. ASSUME NEW n \in Names, delete_value(n) PROVE RegTypeOK'
    <3>1. queue' \in Seq(Raw)
      BY <2>4, QueuedType DEF delete_value, RegTypeOK, Code, WatchKinds
    <3>2. QED BY <2>4, <3>1 DEF delete_value, RegTypeOK, Absent, Value
  <2>5. CASE ChangeElsewhere
    <3>1. PICK code \in {"REG_WATCH_SD_CHANGED", "unnamed"} :
             queue' = Queued(code, AnyName)
      BY <2>5 DEF ChangeElsewhere
    <3>2. code \in Code
      BY DEF Code, WatchKinds
    <3>3. queue' \in Seq(Raw)
      BY <3>1, <3>2, AnyIsName, QueuedType DEF RegTypeOK
    <3>4. store' = store /\ kept' = kept /\ client' = client /\ watcher' = watcher
      BY <2>5 DEF ChangeElsewhere
    <3>5. writes' \in Nat
      BY <2>5 DEF ChangeElsewhere, RegTypeOK
    <3>6. QED BY <3>3, <3>4, <3>5, Zenon DEF RegTypeOK
  <2>6. CASE Arm
    BY <2>6 DEF Arm, RegTypeOK, keyVars
  <2>7. CASE Snapshot
    BY <2>7, EmptySeq DEF Snapshot, RegTypeOK, keyVars
  <2>8. CASE read_watch_events
    <3>1. PICK n \in 1 .. Len(queue) :
             /\ watcher' = [watcher EXCEPT !.records =
                              [i \in 1 .. n |-> [queue[i] EXCEPT !.type = from_raw(@)]]]
             /\ queue' = SubSeq(queue, n + 1, Len(queue))
      BY <2>8 DEF read_watch_events
    <3>2. \A i \in 1 .. Len(queue) : queue[i] \in Raw
      BY DEF RegTypeOK
    <3>3. queue' \in Seq(Raw)
      BY <3>1, <3>2, SubSeqProperties DEF RegTypeOK
    <3>4. \A i \in 1 .. n : [queue[i] EXCEPT !.type = from_raw(@)] \in Record
      BY <3>2, FromRaw DEF Raw, Record
    <3>5. [i \in 1 .. n |-> [queue[i] EXCEPT !.type = from_raw(@)]] \in Seq(Record)
      <4> DEFINE rec(i) == [queue[i] EXCEPT !.type = from_raw(@)]
      <4>1. \A i \in 1 .. n : rec(i) \in Record
        BY <3>4
      <4> HIDE DEF rec
      <4>2. [i \in 1 .. n |-> rec(i)] \in [1 .. n -> Record]
        BY <4>1
      <4>3. n \in Nat
        BY LenProperties DEF RegTypeOK
      <4>4. [i \in 1 .. n |-> rec(i)] \in Seq(Record)
        BY <4>2, <4>3
      <4>5. QED BY <4>4 DEF rec
    <3>6. QED BY <2>8, <3>1, <3>3, <3>5 DEF read_watch_events, RegTypeOK, keyVars
  <2>9. CASE ReadFails
    <3>1. PICK n \in 1 .. Len(queue) : queue' = SubSeq(queue, n + 1, Len(queue))
      BY <2>9 DEF ReadFails
    <3>2. \A i \in 1 .. Len(queue) : queue[i] \in Raw
      BY DEF RegTypeOK
    <3>3. queue' \in Seq(Raw)
      BY <3>1, <3>2, SubSeqProperties DEF RegTypeOK
    <3>4. QED BY <2>9, <3>3 DEF ReadFails, RegTypeOK, keyVars
  <2>10. CASE Apply
    <3>1. Tail(watcher.records) \in Seq(Record) /\ Head(watcher.records) \in Record
      BY <2>10, HeadTailProperties DEF Apply, RegTypeOK
    <3>2. QED BY <2>10, <3>1 DEF Apply, RegTypeOK, keyVars, Record
  <2>11. CASE next \/ UNCHANGED regVars
    BY <2>11 DEF next, regVars, RegTypeOK, keyVars
  <2>12. QED
    BY <2>1, <2>2, <2>3, <2>4, <2>5, <2>6, <2>7, <2>8, <2>9, <2>10, <2>11 DEF RegNext
<1>3. QED BY <1>1, <1>2, PTL DEF RegSpec

-----------------------------------------------------------------------------
(* What a client has read is what the value still holds as long as its     *)
(* sequence number says so; 0 is the number of a value that is not there.  *)
GuardInv ==
  /\ \A n \in Names : store[n].seq <= writes /\ (store[n].seq = 0 => store[n].data = {})
  /\ \A c \in Clients : client[c].step = "read" =>
       LET r == client[c].read  now == store[client[c].name] IN
       /\ r.seq <= writes
       /\ r.seq = 0 => r.data = {}
       /\ r.seq # 0 /\ r.seq = now.seq => r.data = now.data

(* The value holds the mark of every update that was not overwritten blind *)
(* and not deleted.                                                        *)
THEOREM UpdatesCorrect == RegSpec => []NoLostUpdate
<1>1. RegInit => GuardInv /\ NoLostUpdate
  BY AnyIsName DEF RegInit, GuardInv, NoLostUpdate, Absent, Idle
<1>2. RegTypeOK /\ GuardInv /\ NoLostUpdate /\ [RegNext]_regVars => GuardInv' /\ NoLostUpdate'
  <2> SUFFICES ASSUME RegTypeOK, GuardInv, NoLostUpdate, [RegNext]_regVars
               PROVE  GuardInv' /\ NoLostUpdate'
    OBVIOUS
  <2>1. ASSUME NEW c \in Clients, call(c) PROVE GuardInv' /\ NoLostUpdate'
    <3> DEFINE n == client[c].name
               seq == client[c].read.seq
    <3>1. /\ n \in Names /\ writes' = writes + 1
          /\ client[c].step = "read" /\ seq \in {0, store[n].seq}
          /\ store' = [store EXCEPT ![n] = [data |-> Update(c), seq |-> writes + 1]]
          /\ kept' = [kept EXCEPT ![n] = IF seq = 0 THEN {c} ELSE @ \cup {c}]
          /\ client' = [client EXCEPT ![c] = Idle]
      BY <2>1 DEF call, Put, RegTypeOK
    <3>2. Update(c) = IF seq = 0 THEN {c} ELSE kept[n] \cup {c}
      BY <3>1 DEF Update, GuardInv, NoLostUpdate
    <3>3. NoLostUpdate'
      BY <3>1, <3>2 DEF NoLostUpdate, RegTypeOK
    <3>4. GuardInv'
      BY <3>1 DEF GuardInv, RegTypeOK, Idle, Value
    <3>5. QED BY <3>3, <3>4
  <2>2. ASSUME NEW c \in Clients, Again(c) PROVE GuardInv' /\ NoLostUpdate'
    BY <2>2 DEF Again, GuardInv, NoLostUpdate, RegTypeOK, keyVars, Idle
  <2>3. ASSUME NEW c \in Clients, NEW n \in Names, Query(c, n) PROVE GuardInv' /\ NoLostUpdate'
    BY <2>3 DEF Query, GuardInv, NoLostUpdate, RegTypeOK, keyVars, Value
  <2>4. ASSUME NEW n \in Names, delete_value(n) PROVE GuardInv' /\ NoLostUpdate'
    BY <2>4 DEF delete_value, GuardInv, NoLostUpdate, RegTypeOK, Absent, Value
  <2>5. CASE ChangeElsewhere
    <3>1. UNCHANGED <<store, kept, client>> /\ writes' = writes + 1
      BY <2>5 DEF ChangeElsewhere
    <3>2. /\ \A n \in Names : store[n].seq \in Nat
          /\ \A c \in Clients : client[c].read.seq \in Nat
      BY DEF RegTypeOK, Value
    <3>3. QED BY <3>1, <3>2 DEF GuardInv, NoLostUpdate, RegTypeOK
  <2>6. CASE UNCHANGED <<store, writes, kept, client>>
    BY <2>6 DEF GuardInv, NoLostUpdate
  <2>7. QED
    BY <2>1, <2>2, <2>3, <2>4, <2>5, <2>6
    DEF RegNext, Arm, Snapshot, read_watch_events, ReadFails, Apply, next, regVars, keyVars
<1>3. QED BY <1>1, <1>2, RegTypeCorrect, PTL DEF RegSpec

-----------------------------------------------------------------------------
(* A record, read or still queued, that will make the program look at n's  *)
(* value again: one for the value itself, or the Overflow record.          *)
Renews(watchKind, name, n) == watchKind = "Overflow" \/ (watchKind \in {"ValueSet", "ValueDeleted"} /\ name = n)
Read(n) == \E i \in 1 .. Len(watcher.records) :
              Renews(watcher.records[i].type, watcher.records[i].name, n)
Waiting(n) == \E i \in 1 .. Len(queue) : Renews(from_raw(queue[i].type), queue[i].name, n)

(* A full queue ends in the Overflow record; a value of the copy that is   *)
(* not the key's has a record on its way.                                  *)
FullInv == /\ Len(queue) <= QueueLength
           /\ Len(queue) = QueueLength => queue[QueueLength].type = "REG_WATCH_OVERFLOW"
WatchInv == watcher.step = "watching" =>
    \A n \in Names : watcher.copy[n] = store[n] \/ Read(n) \/ Waiting(n)

\* The Overflow record is recognised.
LEMMA OverflowIsOverflow == from_raw("REG_WATCH_OVERFLOW") = "Overflow"
BY DEF from_raw, WatchKinds

\* A value's records are recognised.
LEMMA ValueKinds == /\ from_raw("REG_WATCH_VALUE_SET") = "ValueSet"
                    /\ from_raw("REG_WATCH_VALUE_DELETED") = "ValueDeleted"
BY DEF from_raw, WatchKinds

(* Queueing keeps the records there are, and a change of n's value that    *)
(* finds the watch armed is told by the queue.                             *)
LEMMA QueuedTells ==
  ASSUME RegTypeOK, FullInv, NEW code \in Code, NEW n \in Names, queue' = Queued(code, n),
         watcher' = watcher
  PROVE  /\ FullInv'
         /\ \A m \in Names : Waiting(m) => Waiting(m)'
         /\ /\ watcher.step = "watching"
            /\ code \in {"REG_WATCH_VALUE_SET", "REG_WATCH_VALUE_DELETED"}
            => Waiting(n)'
<1> USE OverflowIsOverflow, ValueKinds, RegistryAssumption
<1>0. queue \in Seq(Raw) /\ Len(queue) \in Nat
  BY LenProperties DEF RegTypeOK
<1>1. CASE watcher.step \in {"start", "off"}
  <2>1. queue' = queue
    BY <1>1 DEF Queued
  <2>2. QED BY <1>1, <2>1 DEF FullInv, Waiting
<1>2. CASE watcher.step \notin {"start", "off"} /\ Len(queue) = QueueLength
  <2>1. queue' = queue
    BY <1>2 DEF Queued
  <2>2. Waiting(n)
    BY <1>0, <1>2 DEF FullInv, Waiting, Renews
  <2>3. QED BY <2>1, <2>2 DEF FullInv, Waiting
<1>3. CASE watcher.step \notin {"start", "off"} /\ Len(queue) # QueueLength
  <2> DEFINE watchKind == IF Len(queue) = QueueLength - 1 THEN "REG_WATCH_OVERFLOW" ELSE code
             e == [type |-> watchKind, name |-> n]
  <2>1. queue' = Append(queue, e) /\ e \in Raw
    BY <1>3 DEF Queued, Raw, Code, WatchKinds
  <2>2. e.type = watchKind /\ e.name = n
    OBVIOUS
  <2>3. watchKind = "REG_WATCH_OVERFLOW" \/ watchKind = code
    OBVIOUS
  <2>4. Len(queue) = QueueLength - 1 => watchKind = "REG_WATCH_OVERFLOW"
    OBVIOUS
  <2> HIDE DEF e, watchKind
  <2>5. /\ Len(queue') = Len(queue) + 1 /\ queue'[Len(queue) + 1] = e
        /\ \A i \in 1 .. Len(queue) : queue'[i] = queue[i]
    BY <1>0, <2>1, AppendProperties
  <2>6. FullInv'
    BY <1>0, <1>3, <2>2, <2>4, <2>5 DEF FullInv
  <2>7. \A m \in Names : Waiting(m) => Waiting(m)'
    BY <1>0, <2>5 DEF Waiting
  <2>8. code \in {"REG_WATCH_VALUE_SET", "REG_WATCH_VALUE_DELETED"}
          => Renews(from_raw(queue'[Len(queue) + 1].type), queue'[Len(queue) + 1].name, n)
    BY <2>2, <2>3, <2>5 DEF Renews
  <2>9. code \in {"REG_WATCH_VALUE_SET", "REG_WATCH_VALUE_DELETED"} => Waiting(n)'
    BY <1>0, <2>5, <2>8 DEF Waiting
  <2>10. QED BY <2>6, <2>7, <2>9
<1>4. QED BY <1>1, <1>2, <1>3

(* When the program has nothing left to read, its copy is the key.         *)
THEOREM CopyCorrect == RegSpec => []CopyIsFresh
<1>1. RegInit => FullInv /\ WatchInv
  BY RegistryAssumption, EmptySeq DEF RegInit, FullInv, WatchInv
<1>2. RegTypeOK /\ FullInv /\ WatchInv /\ [RegNext]_regVars => FullInv' /\ WatchInv'
  <2> SUFFICES ASSUME RegTypeOK, FullInv, WatchInv, [RegNext]_regVars
               PROVE  FullInv' /\ WatchInv'
    OBVIOUS
  <2>1. ASSUME NEW n \in Names, NEW code \in {"REG_WATCH_VALUE_SET", "REG_WATCH_VALUE_DELETED"},
               queue' = Queued(code, n), watcher' = watcher,
               \A m \in Names \ {n} : store'[m] = store[m]
        PROVE  FullInv' /\ WatchInv'
    <3>1. code \in Code
      BY DEF Code, WatchKinds
    <3>2. /\ FullInv' /\ \A m \in Names : Waiting(m) => Waiting(m)'
          /\ watcher.step = "watching" => Waiting(n)'
      BY <2>1, <3>1, QueuedTells
    <3>3. \A m \in Names : Read(m) => Read(m)'
      BY <2>1 DEF Read
    <3>4. QED BY <2>1, <3>2, <3>3 DEF WatchInv
  <2>2. ASSUME NEW c \in Clients, call(c) PROVE FullInv' /\ WatchInv'
    BY <2>1, <2>2 DEF call, Put, RegTypeOK
  <2>3. ASSUME NEW n \in Names, delete_value(n) PROVE FullInv' /\ WatchInv'
    BY <2>1, <2>3 DEF delete_value, RegTypeOK
  <2>4. CASE ChangeElsewhere
    <3>1. PICK code \in {"REG_WATCH_SD_CHANGED", "unnamed"} :
             queue' = Queued(code, AnyName)
      BY <2>4 DEF ChangeElsewhere
    <3>2. code \in Code
      BY DEF Code, WatchKinds
    <3>3. store' = store /\ watcher' = watcher
      BY <2>4 DEF ChangeElsewhere
    <3>4. FullInv' /\ \A m \in Names : Waiting(m) => Waiting(m)'
      BY <3>1, <3>2, <3>3, AnyIsName, QueuedTells
    <3>5. \A m \in Names : Read(m) => Read(m)'
      BY <3>3 DEF Read
    <3>6. QED BY <3>3, <3>4, <3>5 DEF WatchInv
  <2>5. CASE Arm
    BY <2>5 DEF Arm, FullInv, WatchInv, RegTypeOK
  <2>6. CASE Snapshot
    BY <2>6 DEF Snapshot, FullInv, WatchInv, keyVars
  <2>7. CASE read_watch_events
    <3>1. PICK k \in 1 .. Len(queue) :
             /\ watcher' = [watcher EXCEPT !.records =
                              [i \in 1 .. k |-> [queue[i] EXCEPT !.type = from_raw(@)]]]
             /\ queue' = SubSeq(queue, k + 1, Len(queue))
      BY <2>7 DEF read_watch_events
    <3>2. store' = store /\ watcher.step = "watching" /\ Len(watcher.records) = 0
      BY <2>7, EmptySeq DEF read_watch_events, keyVars
    <3>3. /\ queue \in Seq(Raw) /\ Len(queue) \in Nat /\ k \in Nat
          /\ \A i \in 1 .. Len(queue) : queue[i] \in Raw
      BY LenProperties DEF RegTypeOK
    <3>4. /\ Len(queue') = Len(queue) - k
          /\ \A i \in 1 .. Len(queue) - k : queue'[i] = queue[k + i]
      BY <3>1, <3>3, SubSeqProperties
    <3>5. /\ watcher'.copy = watcher.copy /\ Len(watcher'.records) = k
          /\ \A i \in 1 .. k : /\ watcher'.records[i].type = from_raw(queue[i].type)
                               /\ watcher'.records[i].name = queue[i].name
      <4> DEFINE rec(i) == [queue[i] EXCEPT !.type = from_raw(@)]
      <4>1. \A i \in 1 .. k : rec(i).type = from_raw(queue[i].type) /\ rec(i).name = queue[i].name
        BY <3>3 DEF Raw
      <4> HIDE DEF rec
      <4>2. watcher'.copy = watcher.copy /\ watcher'.records = [i \in 1 .. k |-> rec(i)]
        BY <3>1 DEF RegTypeOK, rec
      <4>3. Len(watcher'.records) = k
        BY <3>3, <4>2
      <4>4. QED BY <4>1, <4>2, <4>3
    <3>6. FullInv'
      BY <3>3, <3>4, RegistryAssumption DEF FullInv
    <3>7. ASSUME NEW m \in Names, Waiting(m) PROVE Read(m)' \/ Waiting(m)'
      <4>1. PICK i \in 1 .. Len(queue) : Renews(from_raw(queue[i].type), queue[i].name, m)
        BY <3>7 DEF Waiting
      <4>2. CASE i \in 1 .. k
        BY <3>5, <4>1, <4>2 DEF Read
      <4>3. CASE i \notin 1 .. k
        <5>1. i - k \in 1 .. Len(queue) - k /\ k + (i - k) = i
          BY <3>3, <4>3
        <5>2. queue'[i - k] = queue[i] /\ i - k \in 1 .. Len(queue')
          BY <3>4, <5>1
        <5>3. QED BY <4>1, <5>2 DEF Waiting
      <4>4. QED BY <4>2, <4>3
    <3>8. \A m \in Names : ~Read(m)
      BY <3>2 DEF Read
    <3>9. QED BY <3>2, <3>5, <3>6, <3>7, <3>8 DEF WatchInv
  <2>8. CASE ReadFails
    <3>1. PICK k \in 1 .. Len(queue) : queue' = SubSeq(queue, k + 1, Len(queue))
      BY <2>8 DEF ReadFails
    <3>2. /\ queue \in Seq(Raw) /\ Len(queue) \in Nat /\ k \in Nat
          /\ \A i \in 1 .. Len(queue) : queue[i] \in Raw
      BY LenProperties DEF RegTypeOK
    <3>3. Len(queue') = Len(queue) - k
      BY <3>1, <3>2, SubSeqProperties
    <3>4. FullInv'
      BY <3>2, <3>3, RegistryAssumption DEF FullInv
    <3>5. watcher'.step = "stale"
      BY <2>8 DEF ReadFails, RegTypeOK
    <3>6. QED BY <3>4, <3>5 DEF WatchInv
  <2>9. CASE Apply
    <3> DEFINE r == Head(watcher.records)
    <3>1. /\ watcher.step = "watching" /\ watcher.records # <<>>
          /\ store' = store /\ queue' = queue
      BY <2>9 DEF Apply, keyVars
    <3>2. /\ watcher.records \in Seq(Record) /\ r = watcher.records[1] /\ r \in Record
          /\ Len(watcher.records) \in Nat /\ Len(watcher.records) > 0
          /\ Len(Tail(watcher.records)) = Len(watcher.records) - 1
          /\ \A i \in 1 .. Len(Tail(watcher.records)) :
                Tail(watcher.records)[i] = watcher.records[i + 1]
      BY <3>1, HeadTailProperties, LenProperties, ElementOfSeq DEF RegTypeOK
    <3>3. FullInv' /\ \A m \in Names : Waiting(m) => Waiting(m)'
      BY <3>1 DEF FullInv, Waiting
    <3>4. CASE r.type = "Overflow"
      BY <2>9, <3>3, <3>4 DEF Apply, WatchInv, RegTypeOK
    <3>5. ASSUME watcher'.records = Tail(watcher.records), NEW m \in Names, Read(m),
                 ~Renews(r.type, r.name, m)
          PROVE  Read(m)'
      <4>1. PICK i \in 1 .. Len(watcher.records) :
               Renews(watcher.records[i].type, watcher.records[i].name, m)
        BY <3>5 DEF Read
      <4>2. i # 1
        BY <3>2, <3>5, <4>1
      <4>3. i - 1 \in 1 .. Len(Tail(watcher.records)) /\ (i - 1) + 1 = i
        BY <3>2, <4>2
      <4>4. Tail(watcher.records)[i - 1] = watcher.records[i]
        BY <3>2, <4>3
      <4>5. QED BY <3>5, <4>1, <4>3, <4>4 DEF Read
    <3>6. CASE r.type \in {"ValueSet", "ValueDeleted"}
      <4>1. /\ watcher'.records = Tail(watcher.records)
            /\ watcher'.copy = [watcher.copy EXCEPT ![r.name] = store[r.name]]
        BY <2>9, <3>6 DEF Apply, RegTypeOK
      <4>2. ASSUME NEW m \in Names
            PROVE  watcher'.copy[m] = store'[m] \/ Read(m)' \/ Waiting(m)'
        <5>1. CASE m = r.name
          BY <3>1, <4>1, <5>1 DEF RegTypeOK
        <5>2. CASE m # r.name
          <6>1. watcher'.copy[m] = watcher.copy[m] /\ ~Renews(r.type, r.name, m)
            BY <3>6, <4>1, <5>2 DEF RegTypeOK, Renews
          <6>2. QED BY <3>1, <3>3, <3>5, <4>1, <6>1 DEF WatchInv
        <5>3. QED BY <5>1, <5>2
      <4>3. QED BY <3>3, <4>2 DEF WatchInv
    <3>7. CASE r.type \notin {"Overflow", "ValueSet", "ValueDeleted"}
      <4>1. watcher'.records = Tail(watcher.records) /\ watcher'.copy = watcher.copy
        BY <2>9, <3>7 DEF Apply, RegTypeOK
      <4>2. \A m \in Names : ~Renews(r.type, r.name, m)
        BY <3>7 DEF Renews
      <4>3. QED BY <3>1, <3>3, <3>5, <4>1, <4>2 DEF WatchInv
    <3>8. QED BY <3>4, <3>6, <3>7
  <2>10. CASE UNCHANGED <<store, queue, watcher>>
    <3>1. \A m \in Names : (Read(m)' <=> Read(m)) /\ (Waiting(m)' <=> Waiting(m))
      BY <2>10 DEF Read, Waiting
    <3>2. QED BY <2>10, <3>1 DEF FullInv, WatchInv
  <2>11. QED
    BY <2>2, <2>3, <2>4, <2>5, <2>6, <2>7, <2>8, <2>9, <2>10
    DEF RegNext, Again, Query, next, regVars, keyVars
<1>3. RegTypeOK /\ WatchInv => CopyIsFresh
  <2> SUFFICES ASSUME RegTypeOK, WatchInv, watcher.step = "watching",
                      watcher.records = <<>>, queue = <<>>
               PROVE  watcher.copy = store
    BY DEF CopyIsFresh
  <2>1. \A n \in Names : ~Read(n) /\ ~Waiting(n)
    BY EmptySeq DEF Read, Waiting
  <2>2. \A n \in Names : watcher.copy[n] = store[n]
    BY <2>1 DEF WatchInv
  <2>3. QED BY <2>2 DEF RegTypeOK
<1>4. QED BY <1>1, <1>2, <1>3, RegTypeCorrect, PTL DEF RegSpec

-----------------------------------------------------------------------------
(* A walk by dense position.  What was there when it began is given or     *)
(* still ahead, as long as nothing is removed; what was given is behind,   *)
(* as long as nothing is added.                                            *)
WalkType ==
  /\ walk \in [index : Nat, done : BOOLEAN, gave : Seq(Names), failed : BOOLEAN]
  /\ walk.index = Len(walk.gave)
  /\ through \subseteq There

HasGiven(x) == \E i \in 1..walk.index : walk.gave[i] = x
Open == ~walk.done \/ walk.failed
Before(x) == Position(There, Below(Names), x)

WalkInv ==
  /\ ~removed => \A x \in through : HasGiven(x) \/ (Open /\ Before(x) >= walk.index)
  /\ ~added => /\ \A i \in 1..walk.index : Before(walk.gave[i]) < walk.index
               /\ \A i, j \in 1..walk.index : i < j => walk.gave[i] < walk.gave[j]

\* The values that are there can be numbered.
LEMMA ThereFinite ==
  /\ There \subseteq Names /\ IsFiniteSet(There) /\ Cardinality(There) \in Nat
  /\ Orders(Below(Names), There) /\ Names \subseteq Int
<1>1. There \in SUBSET Names /\ IsFiniteSet(Names) /\ Names \subseteq Int
  BY RegistryAssumption DEF There
<1>2. IsFiniteSet(There)
  BY <1>1, FS_Subset
<1>3. QED BY <1>1, <1>2, FS_CardinalityType, BelowOrders

\* Fewer values, fewer before any.
LEMMA FewerBefore ==
  ASSUME NEW S, NEW T, IsFiniteSet(T), S \subseteq T, NEW x
  PROVE  /\ Position(S, Below(Names), x) \in Nat /\ Position(T, Below(Names), x) \in Nat
         /\ Position(S, Below(Names), x) <= Position(T, Below(Names), x)
<1>1. /\ Preceding(S, Below(Names), x) \in SUBSET Preceding(T, Below(Names), x)
      /\ Preceding(T, Below(Names), x) \in SUBSET T
  BY DEF Preceding
<1>2. IsFiniteSet(Preceding(T, Below(Names), x))
  BY <1>1, FS_Subset
<1>3. QED BY <1>1, <1>2, FS_Subset, FS_CardinalityType DEF Position

(* A change of the key that adds nothing, or that removes nothing.         *)
LEMMA WalkSurvives ==
  ASSUME RegTypeOK, WalkType, WalkInv, UNCHANGED walk,
         through' \subseteq through, through' \subseteq There',
         There' \subseteq There \/ added',
         There \subseteq There' \/ removed',
         added => added', removed => removed'
  PROVE  WalkType' /\ WalkInv'
<1>1. /\ IsFiniteSet(There) /\ There \subseteq Names
  BY ThereFinite
<1>2. There' \subseteq Names /\ IsFiniteSet(There')
  <2>1. There' \in SUBSET Names /\ IsFiniteSet(Names)
    BY RegistryAssumption DEF There
  <2>2. QED BY <2>1, FS_Subset
<1>3. WalkType'
  BY DEF WalkType
<1> SUFFICES WalkInv'
  BY <1>3
<1>4. walk.index \in Nat
  BY DEF WalkType
<1>5. ASSUME ~removed', NEW x \in through'
      PROVE  HasGiven(x)' \/ (Open /\ Before(x)' >= walk.index)
  <2>1. HasGiven(x) \/ (Open /\ Before(x) >= walk.index)
    BY <1>5 DEF WalkInv
  <2>2. /\ Before(x) \in Nat /\ Position(There', Below(Names), x) \in Nat
        /\ Before(x) <= Position(There', Below(Names), x)
    BY <1>2, <1>5, FewerBefore DEF Before
  <2>3. QED BY <1>4, <2>1, <2>2 DEF HasGiven, Before
<1>6. ASSUME ~added', NEW i \in 1..walk.index PROVE Before(walk.gave[i])' < walk.index
  <2>1. Before(walk.gave[i]) < walk.index
    BY <1>6 DEF WalkInv
  <2>2. /\ Before(walk.gave[i]) \in Nat /\ Position(There', Below(Names), walk.gave[i]) \in Nat
        /\ Position(There', Below(Names), walk.gave[i]) <= Before(walk.gave[i])
    BY <1>1, <1>6, FewerBefore DEF Before
  <2>3. QED BY <1>4, <2>1, <2>2 DEF Before
<1>7. ~added' => \A i, j \in 1..walk.index : i < j => walk.gave[i] < walk.gave[j]
  BY DEF WalkInv
<1>8. QED BY <1>5, <1>6, <1>7 DEF WalkInv, Open

\* The store, as a walk sees it, is what it was when nothing was written.
LEMMA WalkUntouched ==
  ASSUME WalkType, WalkInv, UNCHANGED <<store, walk, through, removed, added>>
  PROVE  WalkType' /\ WalkInv'
BY DEF WalkType, WalkInv, There, HasGiven, Open, Before

\* Of two values, the one with fewer before it is the lesser.
LEMMA LessBefore ==
  ASSUME NEW x \in Names, NEW y \in Names, Before(y) < Before(x)
  PROVE  y < x
<1>1. Before(x) \in Nat /\ Before(y) \in Nat
  BY ThereFinite, FewerBefore DEF Before
<1>2. ~(x <= y)
  <2> SUFFICES ASSUME x <= y PROVE FALSE
    OBVIOUS
  <2>1. Preceding(There, Below(Names), x) \in SUBSET Preceding(There, Below(Names), y)
    <3> SUFFICES ASSUME NEW z \in There, <<z, x>> \in Below(Names)
                 PROVE  <<z, y>> \in Below(Names)
      BY DEF Preceding
    <3>1. z \in Names /\ z < x
      BY DEF Below
    <3>2. z \in Int /\ x \in Int /\ y \in Int
      BY <3>1, ThereFinite
    <3>3. z < y
      BY <3>1, <3>2
    <3>4. QED BY <3>1, <3>3 DEF Below
  <2>2. Preceding(There, Below(Names), y) \in SUBSET There
    BY DEF Preceding
  <2>3. IsFiniteSet(Preceding(There, Below(Names), y))
    BY <2>2, ThereFinite, FS_Subset
  <2>4. Before(x) <= Before(y)
    BY <2>1, <2>3, FS_Subset DEF Before, Position
  <2>5. QED BY <1>1, <2>4
<1>3. x \in Int /\ y \in Int
  BY ThereFinite
<1>4. QED BY <1>2, <1>3

(* A call of the iterator gives the value at its position, and what was    *)
(* ahead of that is ahead of the next.                                     *)
LEMMA WalkGives ==
  ASSUME RegTypeOK, WalkType, WalkInv, next
  PROVE  WalkType' /\ WalkInv'
<1> DEFINE n == walk.index
           x == Nth(There, Below(Names), n)
<1>0. /\ walk \in [index : Nat, done : BOOLEAN, gave : Seq(Names), failed : BOOLEAN]
      /\ n \in Nat /\ n = Len(walk.gave) /\ ~walk.done
      /\ \A i \in 1..n : walk.gave[i] \in Names
  BY LenProperties, ElementOfSeq DEF WalkType, next
<1>1. There' = There /\ \A y : Before(y)' = Before(y)
  BY DEF next, keyVars, There, Before
<1>2. \A y : Before(y) \in Nat
  BY ThereFinite, FewerBefore DEF Before
<1>3. /\ through' \subseteq There /\ (removed' = removed \/ n = 0) /\ (added' = added \/ n = 0)
      /\ n # 0 => through' = through
  BY DEF next, Begin, WalkType
<1>4. n # 0 => /\ ~removed' => \A y \in through' : HasGiven(y) \/ Before(y) >= n
               /\ ~added' => /\ \A i \in 1..n : Before(walk.gave[i]) < n
                             /\ \A i, j \in 1..n : i < j => walk.gave[i] < walk.gave[j]
  BY <1>3 DEF WalkInv
<1>5. /\ ~removed' => \A y \in through' : HasGiven(y) \/ Before(y) >= n
      /\ ~added' => /\ \A i \in 1..n : Before(walk.gave[i]) < n
                    /\ \A i, j \in 1..n : i < j => walk.gave[i] < walk.gave[j]
  <2>1. CASE n = 0
    BY <1>2, <2>1
  <2>2. CASE n # 0
    BY <1>4, <2>2
  <2>3. QED BY <2>1, <2>2
<1>6. CASE /\ n < Cardinality(There)
           /\ walk' = [walk EXCEPT !.gave = Append(@, x), !.index = @ + 1]
  <2>1. x \in There /\ Before(x) = n /\ x \in Names
    <3>1. n \in 0 .. Cardinality(There) - 1
      BY <1>0, <1>6, ThereFinite
    <3>2. QED BY <3>1, ThereFinite, NthAtPosition DEF Before
  <2>2. ASSUME NEW y \in There, Before(y) = n PROVE y = x
    <3>1. y \in Names /\ (y = x \/ <<y, x>> \in Below(Names) \/ <<x, y>> \in Below(Names))
      BY <2>1, ThereFinite DEF Orders
    <3>2. /\ <<y, x>> \in Below(Names) => Before(y) < Before(x)
          /\ <<x, y>> \in Below(Names) => Before(x) < Before(y)
      BY <2>1, ThereFinite, PositionsOrdered DEF Before
    <3>3. QED BY <1>0, <2>1, <2>2, <3>1, <3>2
  <2>3. walk' = [walk EXCEPT !.gave = Append(@, x), !.index = @ + 1]
    BY <1>6
  <2> HIDE DEF x
  <2>4. /\ Append(walk.gave, x) \in Seq(Names) /\ Len(Append(walk.gave, x)) = n + 1
        /\ Append(walk.gave, x)[n + 1] = x
        /\ \A i \in 1..n : Append(walk.gave, x)[i] = walk.gave[i]
    BY <1>0, <2>1, AppendProperties
  <2>5. /\ walk'.gave = Append(walk.gave, x) /\ walk'.index = n + 1 /\ walk'.done = FALSE
        /\ walk' \in [index : Nat, done : BOOLEAN, gave : Seq(Names), failed : BOOLEAN]
    <3>1. ASSUME NEW s \in Seq(Names), NEW m \in Nat, walk' = [walk EXCEPT !.gave = s, !.index = m]
          PROVE  /\ walk'.gave = s /\ walk'.index = m /\ walk'.done = FALSE
                 /\ walk' \in [index : Nat, done : BOOLEAN, gave : Seq(Names), failed : BOOLEAN]
      BY <1>0, <3>1
    <3>2. n + 1 \in Nat
      BY <1>0
    <3>3. QED BY <2>3, <2>4, <3>1, <3>2
  <2>6. WalkType'
    BY <1>1, <1>3, <2>4, <2>5 DEF WalkType
  <2>7. ASSUME ~removed', NEW y \in through' PROVE HasGiven(y)' \/ Before(y) >= n + 1
    <3>1. CASE HasGiven(y)
      BY <1>0, <2>4, <2>5, <3>1 DEF HasGiven
    <3>2. CASE Before(y) = n
      <4>1. y = x
        BY <1>3, <2>2, <3>2
      <4>2. QED BY <1>0, <2>4, <2>5, <4>1 DEF HasGiven
    <3>3. CASE Before(y) >= n /\ Before(y) # n
      BY <1>0, <1>2, <3>3
    <3>4. QED BY <1>5, <2>7, <3>1, <3>2, <3>3
  <2>8. ASSUME ~added', NEW i \in 1 .. n + 1 PROVE Before(walk'.gave[i]) < n + 1
    <3>1. CASE i \in 1..n
      BY <1>0, <1>2, <1>5, <2>4, <2>5, <2>8, <3>1
    <3>2. CASE i = n + 1
      BY <1>0, <2>1, <2>4, <2>5, <3>2
    <3>3. QED BY <1>0, <3>1, <3>2
  <2>9. ASSUME ~added', NEW i \in 1 .. n PROVE walk.gave[i] < x
    <3>1. Before(walk.gave[i]) < n /\ walk.gave[i] \in Names
      BY <1>0, <1>5, <2>9
    <3>2. QED BY <1>0, <2>1, <3>1, LessBefore
  <2>10. ASSUME ~added', NEW i \in 1 .. n + 1, NEW j \in 1 .. n + 1, i < j
         PROVE  walk'.gave[i] < walk'.gave[j]
    <3>1. i \in 1..n /\ (j \in 1..n \/ j = n + 1)
      BY <1>0, <2>10
    <3>2. QED BY <1>5, <2>4, <2>5, <2>9, <2>10, <3>1
  <2>11. WalkInv'
    BY <1>0, <1>1, <2>5, <2>7, <2>8, <2>10 DEF WalkInv, Open
  <2>12. QED BY <2>6, <2>11
<1>7. CASE ~(n < Cardinality(There)) /\ walk' = [walk EXCEPT !.done = TRUE]
  <2>1. walk' = [walk EXCEPT !.done = TRUE]
    BY <1>7
  <2>2. /\ walk'.gave = walk.gave /\ walk'.index = n /\ walk'.done = TRUE
        /\ walk' \in [index : Nat, done : BOOLEAN, gave : Seq(Names), failed : BOOLEAN]
    BY <1>0, <2>1
  <2>3. WalkType'
    BY <1>0, <1>1, <1>3, <2>2 DEF WalkType
  <2>4. ASSUME ~removed', NEW y \in through' PROVE HasGiven(y)'
    <3>1. Before(y) < n
      <4>1. Before(y) \in 0 .. Cardinality(There) - 1
        BY <1>3, <2>4, ThereFinite, PositionsOrdered DEF Before
      <4>2. QED BY <1>0, <1>7, <4>1, ThereFinite
    <3>2. HasGiven(y)
      BY <1>0, <1>2, <1>5, <2>4, <3>1
    <3>3. QED BY <2>2, <3>2 DEF HasGiven
  <2>5. WalkInv'
    BY <1>1, <1>5, <2>2, <2>4 DEF WalkInv
  <2>6. QED BY <2>3, <2>5
<1>8. CASE walk' = [walk EXCEPT !.done = TRUE, !.failed = TRUE]
  <2>1. /\ walk'.gave = walk.gave /\ walk'.index = n /\ walk'.failed = TRUE
        /\ walk' \in [index : Nat, done : BOOLEAN, gave : Seq(Names), failed : BOOLEAN]
    BY <1>0, <1>8
  <2>2. WalkType'
    BY <1>0, <1>1, <1>3, <2>1 DEF WalkType
  <2>3. WalkInv'
    BY <1>1, <1>5, <2>1 DEF WalkInv, HasGiven, Open
  <2>4. QED BY <2>2, <2>3
<1>9. PICK r \in enum_value(n) :
        \/ /\ r.answer = "some"
           /\ walk' = [walk EXCEPT !.gave = Append(@, r.name), !.index = @ + 1]
        \/ r.answer = "none" /\ walk' = [walk EXCEPT !.done = TRUE]
        \/ r.answer = "err" /\ walk' = [walk EXCEPT !.done = TRUE, !.failed = TRUE]
  BY DEF next
<1>10. /\ r.answer = "some" => n < Cardinality(There) /\ r.name = x
       /\ r.answer = "none" => ~(n < Cardinality(There))
  BY DEF enum_value
<1>11. QED BY <1>6, <1>7, <1>8, <1>9, <1>10

\* Every step keeps the promise of a walk under way.
LEMMA WalkKept ==
  RegTypeOK /\ WalkType /\ WalkInv /\ [RegNext]_regVars => WalkType' /\ WalkInv'
<1> SUFFICES ASSUME RegTypeOK, WalkType, WalkInv, [RegNext]_regVars
             PROVE  WalkType' /\ WalkInv'
  OBVIOUS
<1>0. store \in [Names -> Value] /\ through \subseteq There /\ writes \in Nat
  BY DEF RegTypeOK, WalkType
<1>1. ASSUME NEW c \in Clients, call(c) PROVE WalkType' /\ WalkInv'
  <2> DEFINE n == client[c].name
             v == [data |-> Update(c), seq |-> writes + 1]
  <2>1. n \in Names
    BY DEF RegTypeOK
  <2>2. /\ store' = [store EXCEPT ![n] = v] /\ added' = (added \/ store[n] = Absent)
        /\ UNCHANGED <<walk, through, removed>>
    BY <1>1 DEF call, Put
  <2>3. v.seq # Absent.seq
    BY <1>0 DEF Absent
  <2>4. v # Absent
    BY <2>3
  <2> HIDE DEF v
  <2>5. There' = There \cup {n}
    BY <1>0, <2>1, <2>2, <2>4 DEF There
  <2>6. There' \subseteq There \/ added'
    BY <2>1, <2>2, <2>5 DEF There
  <2>7. QED BY <1>0, <2>2, <2>5, <2>6, WalkSurvives
<1>2. ASSUME NEW n \in Names, delete_value(n) PROVE WalkType' /\ WalkInv'
  <2>1. /\ store' = [store EXCEPT ![n] = Absent] /\ removed' = TRUE
        /\ through' = through \ {n} /\ UNCHANGED <<walk, added>>
    BY <1>2 DEF delete_value
  <2>2. There' = There \ {n}
    BY <1>0, <2>1 DEF There
  <2>3. QED BY <1>0, <2>1, <2>2, WalkSurvives
<1>3. CASE next
  BY <1>3, WalkGives
<1>4. CASE UNCHANGED <<store, walk, through, removed, added>>
  BY <1>4, WalkUntouched
<1>5. QED
  BY <1>1, <1>2, <1>3, <1>4
  DEF RegNext, Again, Query, ChangeElsewhere, Arm, Snapshot, read_watch_events, ReadFails,
      Apply, regVars, keyVars, walkVars

(* A walk that ends without an error has given every value that was there  *)
(* throughout unless one was removed, and each once and in order unless    *)
(* one was added; one that ends with an error leaves out only values       *)
(* behind those it gave: for every number of values and every pattern of   *)
(* concurrent writes.                                                      *)
THEOREM WalkCorrect == RegSpec => []WalkGivesAll
<1>1. RegInit => WalkType /\ WalkInv
  BY EmptySeq DEF RegInit, WalkType, WalkInv
<1>2. WalkType /\ WalkInv => WalkGivesAll
  <2> SUFFICES ASSUME WalkType, WalkInv, walk.done PROVE WalkGivesAll
    BY DEF WalkGivesAll
  <2>1. /\ DOMAIN walk.gave = 1..walk.index /\ walk.index \in Nat
        /\ \A i \in 1..walk.index : walk.gave[i] \in Names
    BY LenProperties, ElementOfSeq DEF WalkType
  <2>2. ASSUME ~removed, ~added, NEW n \in through
        PROVE  HasGiven(n) \/ \A i \in 1..walk.index : walk.gave[i] < n
    <3> SUFFICES ASSUME ~HasGiven(n), NEW i \in 1..walk.index PROVE walk.gave[i] < n
      OBVIOUS
    <3>1. Before(n) >= walk.index /\ Before(walk.gave[i]) < walk.index
      BY <2>2 DEF WalkInv
    <3>2. n \in Names /\ walk.gave[i] \in Names
      BY <2>1 DEF WalkType, There
    <3>3. Before(n) \in Nat /\ Before(walk.gave[i]) \in Nat
      BY ThereFinite, FewerBefore DEF Before
    <3>4. Before(walk.gave[i]) < Before(n)
      BY <2>1, <3>1, <3>3
    <3>5. QED BY <3>2, <3>4, LessBefore
  <2>3. QED BY <2>1, <2>2 DEF WalkInv, HasGiven, Open, WalkGivesAll
<1>3. QED BY <1>1, <1>2, RegTypeCorrect, WalkKept, PTL DEF RegSpec
=============================================================================
