---------------------------- MODULE LayersProofs ----------------------------
(***************************************************************************)
(* What creating a layer promises, for any number of processes and names:  *)
(* a layer that can be seen has its values, each is made by one call, and  *)
(* a call that fails leaves nothing behind; and a list is in order, has    *)
(* the base layer once and fails only for a race.                          *)
(***************************************************************************)
EXTENDS Layers, CommonLemmas, SequenceTheorems, TLAPS

Stored == Written \union {Missing}
Values == [prec : Stored, enabled : Stored, owner : Stored]
CreatePcs == {"idle", "open", "above", "part", "key", "prec", "enabled", "commit",
              "timed_out", "done"}
Creates == [pc : CreatePcs, name : Names, prec : {0, 1}, enabled : {0, 1},
            path : 0..Path, key : Nat, staged : Values,
            res : {"none", "ok", "EINVAL", "EEXIST", "errno"}]
Entries == [name : Names, prec : {0, 1}, enabled : {0, 1}, owner : Stored,
            malformed : BOOLEAN]
Listers == [pc : {"idle", "walk", "open", "read", "listed", "failed"},
            names : Seq(Names), key : Nat, field : 1..3, got : Values,
            out : Seq(Entries), standing : SUBSET Names, raced : {"yes", "no"}]

(* The types, in full. *)
RegistryType ==
    /\ path \in 0..Path /\ made \in Ids
    /\ keys \in [Names -> 0..made]
    /\ value \in [Ids -> Values]
    /\ writer \in Creators \union {Nobody}

CreateType == create \in [Creators -> Creates]

AdminType ==
    /\ admin \in [pc : {"idle", "opened"}, name : Names, key : Nat]
    /\ admin.key \in 0..made /\ (admin.pc = "opened" => admin.key # NoKey)

ListerType ==
    /\ lister \in Listers
    /\ lister.key \in 0..made
    /\ lister.pc = "read" => lister.key # NoKey /\ lister.names # <<>>

CallsType == calls \in [admin : 0..MaxAdmin, lists : 0..MaxLists]

(* What a call of create has done by the time it stands where it does: c   *)
(* is the call, m the keys made so far.                                    *)
CallInv(c, writes, m) ==
    /\ c.key \in 0..m
    /\ writes => c.pc \in {"part", "key", "prec", "enabled", "commit"}
    /\ c.pc # "done" => c.res = "none"
    /\ c.pc \in {"idle", "open", "above", "part"} => c.path < Path
    /\ c.pc \in {"prec", "enabled", "commit"} \/ c.res = "ok" => c.key # NoKey
    /\ c.pc \in {"enabled", "commit"} => c.staged.prec # Missing
    /\ c.pc = "commit" => c.staged.enabled # Missing

CreateInv == \A p \in Creators : CallInv(create[p], writer = p, made)

TypeInv == RegistryType /\ CreateType /\ AdminType /\ ListerType /\ CallsType /\ CreateInv

(* A step of one call of create leaves the others as they are.             *)
LEMMA SetOne ==
  ASSUME TypeInv, NEW p \in Creators, NEW r \in Creates, Set(p, r),
         made' \in Nat, made <= made', writer' \in {Nobody, p, writer},
         CallInv(r, writer' = p, made')
  PROVE  /\ CreateType' /\ CreateInv'
         /\ create'[p] = r /\ \A q \in Creators : q # p => create'[q] = create[q]
<1>1. CreateType' /\ create'[p] = r /\ \A q \in Creators : q # p => create'[q] = create[q]
  BY DEF TypeInv, CreateType, Set
<1>2. ASSUME NEW q \in Creators, q # p PROVE CallInv(create'[q], writer' = q, made')
  <2>1. CallInv(create[q], writer = q, made) /\ made \in Nat
    BY DEF TypeInv, CreateInv, RegistryType, Ids
  <2>2. writer' = q => writer = q
    BY <1>2, LayersAssumption
  <2>3. CallInv(create[q], writer' = q, made')
    BY <2>1, <2>2 DEF CallInv
  <2>4. QED BY <1>1, <1>2, <2>3
<1>3. QED BY <1>1, <1>2 DEF CreateInv

(* What a step of create does when it makes the call c into r: it changes  *)
(* nothing that anyone sees; or it makes a key that no one sees yet; or it *)
(* answers Ok, and the layer is there with its values.                     *)
Idles(c, r) == UNCHANGED registry /\ r.key = c.key /\ r.res # "ok"

Makes(c, r) ==
    /\ UNCHANGED <<path, keys, value>> /\ made' = made + 1 /\ made' \in Ids
    /\ r.key = made' /\ r.res # "ok"

Shows(c, r) ==
    /\ UNCHANGED made /\ path' = Path /\ r.key = c.key
    /\ keys' = [keys EXCEPT ![r.name] = r.key]
    /\ value' = [value EXCEPT ![r.key] = r.staged]
    /\ r.key # NoKey /\ c.res # "ok" /\ r.res = "ok"
    /\ Missing \notin {r.staged.prec, r.staged.enabled}

\* Every step of create is of one of those three kinds.
LEMMA CreateStep ==
  ASSUME TypeInv, NEW p \in Creators, Create(p)
  PROVE  /\ UNCHANGED <<admin, lister, calls>>
         /\ \E r \in Creates :
              /\ Set(p, r) /\ writer' \in {Nobody, p, writer}
              /\ made' \in Nat /\ made <= made' /\ CallInv(r, writer' = p, made')
              /\ Idles(create[p], r) \/ Makes(create[p], r) \/ Shows(create[p], r)
<1> DEFINE c == create[p]
<1>0. /\ c \in Creates /\ CallInv(c, writer = p, made) /\ made \in Ids /\ made \in Nat
      /\ Nobody # p
  BY LayersAssumption DEF TypeInv, CreateType, CreateInv, RegistryType, Ids
<1> USE DEF Creates, CreatePcs, CallInv, registry, At
<1>1. ASSUME NEW n \in Names, NEW pr \in {0, 1}, NEW en \in {0, 1}, CallCreate(p, n, pr, en)
      PROVE  \E r \in Creates : /\ Set(p, r) /\ CallInv(r, writer = p, made)
                                /\ r.key = c.key /\ r.res # "ok"
  <2>1. ASSUME NEW l \in {"done", "open"}, NEW e \in {"EINVAL", "none"},
               l # "done" => e = "none", c.pc = "idle",
               Set(p, [c EXCEPT !.name = n, !.prec = pr, !.enabled = en, !.pc = l, !.res = e])
        PROVE  \E r \in Creates : /\ Set(p, r) /\ CallInv(r, writer = p, made)
                                  /\ r.key = c.key /\ r.res # "ok"
    <3> DEFINE r == [c EXCEPT !.name = n, !.prec = pr, !.enabled = en, !.pc = l, !.res = e]
    <3>1. /\ r \in Creates /\ r.key = c.key /\ r.pc = l /\ r.res = e /\ r.path = c.path
      BY <1>0
    <3>2. CallInv(r, writer = p, made)
      BY <1>0, <2>1, <3>1
    <3>3. QED BY <2>1, <3>1, <3>2
  <2>2. CASE n = Base
    BY <1>1, <2>1, <2>2 DEF CallCreate
  <2>3. CASE n # Base
    BY <1>1, <2>1, <2>3 DEF CallCreate
  <2>4. QED BY <2>2, <2>3
<1>idles. ASSUME NEW r, UNCHANGED registry, r.key = c.key, r.res # "ok" PROVE Idles(c, r)
  BY <1>idles DEF Idles
<1>2. ASSUME NEW l \in CreatePcs, Set(p, [c EXCEPT !.pc = l]), c.pc # "done", l # "done",
             writer = p => l \in {"part", "key"},
             c.pc \in {"open", "above"} \/ l = "timed_out",
             l \in {"above", "part", "key", "timed_out"}
      PROVE  \E r \in Creates : /\ Set(p, r) /\ CallInv(r, writer = p, made)
                                /\ r.key = c.key /\ r.res # "ok"
  <2> DEFINE r == [c EXCEPT !.pc = l]
  <2>1. /\ r \in Creates /\ r.key = c.key /\ r.pc = l /\ r.res = c.res /\ r.path = c.path
    BY <1>0
  <2>2. CallInv(r, writer = p, made)
    BY <1>0, <1>2, <2>1
  <2>3. QED BY <1>0, <1>2, <2>1, <2>2
<1>3. CASE OpenLayers(p) \/ OpenAbove(p)
  <2>1. writer = Nobody /\ UNCHANGED <<registry, writer, admin, lister, calls>>
    BY <1>3 DEF OpenLayers, OpenAbove, MayOpen
  <2>2. \E r \in Creates : /\ Set(p, r) /\ CallInv(r, writer = p, made)
                           /\ r.key = c.key /\ r.res # "ok"
    BY <1>0, <1>2, <1>3, <2>1 DEF OpenLayers, OpenAbove
  <2>3. QED BY <1>0, <1>idles, <2>1, <2>2
<1>4. CASE CreatePart(p)
  <2> DEFINE i == c.path + 1
             r == [c EXCEPT !.path = i, !.pc = IF i = Path THEN "key" ELSE "part"]
  <2>1. c.pc = "part" /\ i \in 0..Path
    BY <1>0, <1>4 DEF CreatePart, Path
  <2>2. /\ r \in Creates /\ r.key = c.key /\ r.res = c.res /\ r.path = i
        /\ r.pc = IF i = Path THEN "key" ELSE "part"
    BY <1>0, <2>1
  <2>3. CallInv(r, TRUE, made)
    BY <1>0, <2>1, <2>2 DEF Path
  <2>4. /\ Set(p, r) /\ writer' = p
        /\ UNCHANGED <<registry, made, admin, lister, calls>>
    BY <1>4 DEF CreatePart
  <2>5. CallInv(r, writer' = p, made')
    BY <2>3, <2>4
  <2>6. Idles(c, r)
    BY <1>0, <2>1, <2>2, <2>4 DEF Idles
  <2> HIDE DEF r
  <2>7. QED BY <1>0, <2>2, <2>4, <2>5, <2>6
<1>5. ASSUME NEW e \in {"EEXIST", "errno"}, Fail(p, e), c.pc # "done"
      PROVE  /\ writer' \in {Nobody, p, writer}
             /\ \E r \in Creates : /\ Set(p, r) /\ CallInv(r, writer' = p, made)
                                   /\ r.key = c.key /\ r.res # "ok"
  <2> DEFINE r == [c EXCEPT !.pc = "done", !.res = e]
  <2>1. /\ r \in Creates /\ r.key = c.key /\ r.pc = "done" /\ r.res = e
    BY <1>0
  <2>2. Set(p, r) /\ writer' \in {Nobody, writer} /\ writer' # p
    BY <1>0, <1>5 DEF Fail
  <2>3. CallInv(r, writer' = p, made)
    BY <1>0, <2>1, <2>2
  <2>4. QED BY <2>1, <2>2, <2>3
<1>6. CASE CreateKey(p) /\ keys[c.name] # NoKey
  <2>1. /\ Fail(p, "EEXIST") /\ UNCHANGED <<registry, admin, lister, calls>> /\ c.pc # "done"
    BY <1>6 DEF CreateKey
  <2>2. QED BY <1>0, <1>5, <1>idles, <2>1
<1>7. CASE CreateKey(p) /\ keys[c.name] = NoKey
  <2> DEFINE r == [c EXCEPT !.key = made + 1, !.pc = "prec"]
  <2>0. made + 1 \in Nat
    BY <1>0
  <2>1. /\ r \in Creates /\ r.key = made + 1 /\ r.pc = "prec" /\ r.res = c.res
    BY <1>0, <2>0
  <2>2. /\ c.pc = "key" /\ made < MaxKeys /\ made' = made + 1 /\ writer' = p /\ Set(p, r)
        /\ UNCHANGED <<path, keys, value, admin, lister, calls>>
    BY <1>7 DEF CreateKey
  <2>3. made + 1 \in Ids /\ made + 1 # NoKey /\ made + 1 \in 0 .. made + 1
    BY <1>0, <2>2, LayersAssumption DEF Ids, NoKey
  <2>4. CallInv(r, writer' = p, made')
    BY <1>0, <2>1, <2>2, <2>3
  <2>5. Makes(c, r)
    BY <1>0, <2>1, <2>2, <2>3 DEF Makes
  <2> HIDE DEF r
  <2>6. made' \in Nat /\ made <= made'
    BY <1>0, <2>2
  <2>7. QED BY <2>1, <2>2, <2>4, <2>5, <2>6
<1>8. CASE SetPrecedence(p)
  <2> DEFINE r == [c EXCEPT !.staged.prec = c.prec, !.pc = "enabled"]
  <2>1. c.prec \in Stored /\ c.prec # Missing
    BY <1>0 DEF Stored, Written, Missing
  <2>2. /\ r \in Creates /\ r.key = c.key /\ r.pc = "enabled" /\ r.res = c.res
        /\ r.staged.prec = c.prec
    BY <1>0, <2>1 DEF Values
  <2>3. /\ c.pc = "prec" /\ Set(p, r) /\ UNCHANGED <<registry, writer, admin, lister, calls>>
    BY <1>8 DEF SetPrecedence
  <2>4. CallInv(r, writer' = p, made')
    BY <1>0, <2>1, <2>2, <2>3
  <2>5. Idles(c, r)
    BY <1>0, <2>2, <2>3 DEF Idles
  <2> HIDE DEF r
  <2>6. QED BY <1>0, <2>2, <2>3, <2>4, <2>5
<1>9. CASE SetEnabled(p)
  <2> DEFINE r == [c EXCEPT !.staged.enabled = c.enabled, !.pc = "commit"]
  <2>1. c.enabled \in Stored /\ c.enabled # Missing
    BY <1>0 DEF Stored, Written, Missing
  <2>2. /\ r \in Creates /\ r.key = c.key /\ r.pc = "commit" /\ r.res = c.res
        /\ r.staged.prec = c.staged.prec /\ r.staged.enabled = c.enabled
    BY <1>0, <2>1 DEF Values
  <2>3. /\ c.pc = "enabled" /\ Set(p, r) /\ UNCHANGED <<registry, writer, admin, lister, calls>>
    BY <1>9 DEF SetEnabled
  <2>4. CallInv(r, writer' = p, made')
    BY <1>0, <2>1, <2>2, <2>3
  <2>5. Idles(c, r)
    BY <1>0, <2>2, <2>3 DEF Idles
  <2> HIDE DEF r
  <2>6. QED BY <1>0, <2>2, <2>3, <2>4, <2>5
<1>10. CASE Commit(p)
  <2> DEFINE r == [c EXCEPT !.pc = "done", !.res = "ok"]
  <2>1. /\ r \in Creates /\ r.key = c.key /\ r.pc = "done" /\ r.res = "ok"
        /\ r.name = c.name /\ r.staged = c.staged
    BY <1>0
  <2>2. /\ c.pc = "commit" /\ Set(p, r) /\ writer' = Nobody
        /\ path' = Path /\ keys' = [keys EXCEPT ![c.name] = c.key]
        /\ value' = [value EXCEPT ![c.key] = c.staged]
        /\ UNCHANGED <<made, admin, lister, calls>>
    BY <1>10 DEF Commit
  <2>3. CallInv(r, writer' = p, made')
    BY <1>0, <2>1, <2>2
  <2>4. Missing \notin {c.staged.prec, c.staged.enabled} /\ c.key # NoKey /\ c.res # "ok"
    BY <1>0, <2>2
  <2>5. Shows(c, r)
    BY <2>1, <2>2, <2>4 DEF Shows
  <2> HIDE DEF r
  <2>6. QED BY <1>0, <2>1, <2>2, <2>3, <2>5
<1>11. CASE Refused(p) \/ TimedOut(p)
  <2>1. /\ Fail(p, "errno") /\ UNCHANGED <<registry, admin, lister, calls>> /\ c.pc # "done"
    BY <1>11 DEF Refused, TimedOut
  <2>2. QED BY <1>0, <1>5, <1>idles, <2>1
<1>12. CASE Timeout(p)
  <2>1. /\ writer = p /\ writer' = Nobody /\ Set(p, [c EXCEPT !.pc = "timed_out"])
        /\ UNCHANGED <<registry, admin, lister, calls>>
    BY <1>12 DEF Timeout
  <2> DEFINE r == [c EXCEPT !.pc = "timed_out"]
  <2>2. /\ r \in Creates /\ r.key = c.key /\ r.pc = "timed_out" /\ r.res = c.res
    BY <1>0
  <2>3. CallInv(r, writer' = p, made') /\ c.res # "ok"
    BY <1>0, <2>1, <2>2
  <2>4. QED BY <1>0, <1>idles, <2>1, <2>2, <2>3
<1>13. ASSUME NEW n \in Names, NEW pr \in {0, 1}, NEW en \in {0, 1}, CallCreate(p, n, pr, en)
       PROVE  UNCHANGED <<registry, writer, admin, lister, calls>>
  BY <1>13 DEF CallCreate
<1>14. CASE \E n \in Names, pr, en \in {0, 1} : CallCreate(p, n, pr, en)
  <2>1. /\ \E r \in Creates : /\ Set(p, r) /\ CallInv(r, writer = p, made)
                              /\ r.key = c.key /\ r.res # "ok"
        /\ UNCHANGED <<registry, writer, admin, lister, calls>>
    BY <1>1, <1>13, <1>14
  <2>2. QED BY <1>0, <1>idles, <2>1
<1>15. QED
  BY <1>3, <1>4, <1>6, <1>7, <1>8, <1>9, <1>10, <1>11, <1>12, <1>14 DEF Create, Step

-----------------------------------------------------------------------------
\* The types, at the start.
LEMMA TypeInit == Init => TypeInv
<1> SUFFICES ASSUME Init PROVE TypeInv
  OBVIOUS
<1>1. MaxKeys \in Nat \ {0} /\ Base \in Names /\ Nobody \notin Creators /\ NoKey = 0
  BY LayersAssumption DEF NoKey
<1>2. RegistryType
  <2>1. 1 \in Ids /\ [prec |-> 0, enabled |-> 1, owner |-> Missing] \in Values
    BY <1>1 DEF Ids, Values, Stored, Written, Missing
  <2>2. \A n \in Names : keys[n] \in 0..made /\ made = 1
    BY <1>1 DEF Init
  <2>3. keys \in [Names -> 0..made]
    BY <2>2 DEF Init
  <2>4. QED BY <2>1, <2>3 DEF Init, RegistryType, Path
<1>3. IdleCreate \in Creates /\ CallInv(IdleCreate, FALSE, 1)
  BY <1>1 DEF IdleCreate, Creates, CreatePcs, NoLayer, Values, Stored, CallInv, Path
<1>4. CreateType /\ CreateInv
  BY <1>1, <1>3 DEF Init, CreateType, CreateInv
<1>5. AdminType
  BY <1>1 DEF Init, AdminType, IdleAdmin
<1>6. ListerType
  <2>1. <<>> \in Seq(Names) /\ <<>> \in Seq(Entries)
    BY EmptySeq
  <2>2. QED BY <1>1, <2>1 DEF Init, ListerType, Listers, IdleLister, NoLayer, Values, Stored
<1>7. CallsType
  BY LayersAssumption DEF Init, CallsType
<1>8. QED BY <1>2, <1>4, <1>5, <1>6, <1>7 DEF TypeInv

\* create keeps the types.
LEMMA CreateTypes ==
  ASSUME TypeInv, NEW p \in Creators, Create(p)
  PROVE  TypeInv'
<1>1. PICK r \in Creates :
        /\ Set(p, r) /\ writer' \in {Nobody, p, writer}
        /\ made' \in Nat /\ made <= made' /\ CallInv(r, writer' = p, made')
        /\ Idles(create[p], r) \/ Makes(create[p], r) \/ Shows(create[p], r)
  BY CreateStep
<1>2. UNCHANGED <<admin, lister, calls>>
  BY CreateStep
<1>3. CreateType' /\ CreateInv'
  BY <1>1, SetOne
<1>4. RegistryType /\ made \in Nat /\ Path \in 0..Path
  BY DEF TypeInv, RegistryType, Ids, Path
<1>5. RegistryType'
  <2>1. CASE Idles(create[p], r)
    BY <1>1, <1>4, <2>1 DEF Idles, registry, RegistryType
  <2>2. CASE Makes(create[p], r)
    <3>1. 0..made \subseteq 0..made'
      BY <1>1, <1>4
    <3>2. QED BY <1>1, <1>4, <2>2, <3>1 DEF Makes, RegistryType
  <2>3. CASE Shows(create[p], r)
    <3>1. r.key \in 0..made /\ r.name \in Names /\ r.staged \in Values
      BY <1>1, <2>3 DEF Shows, CallInv, Creates
    <3>2. QED BY <1>1, <1>4, <2>3, <3>1 DEF Shows, RegistryType
  <2>4. QED BY <1>1, <2>1, <2>2, <2>3
<1>6. AdminType' /\ ListerType' /\ CallsType'
  <2>1. 0..made \subseteq 0..made'
    BY <1>1, <1>4
  <2>2. QED BY <1>2, <2>1 DEF TypeInv, AdminType, ListerType, CallsType
<1>7. QED BY <1>3, <1>5, <1>6 DEF TypeInv

\* set_* and delete keep the types, and leave create's calls alone.
LEMMA AdminTypes ==
  ASSUME TypeInv, Admin
  PROVE  TypeInv' /\ UNCHANGED <<path, made, writer, create>>
<1>1. UNCHANGED <<path, made, writer, create>>
  BY DEF Admin, open, set, delete, registry
<1>2. CreateType' /\ CreateInv'
  BY <1>1 DEF TypeInv, CreateType, CreateInv
<1>3. /\ RegistryType /\ AdminType /\ ListerType /\ CallsType /\ made \in Nat /\ NoKey = 0
      /\ Base \in Names
  BY LayersAssumption DEF TypeInv, RegistryType, Ids, NoKey
<1>4. IdleAdmin \in [pc : {"idle", "opened"}, name : Names, key : Nat]
      /\ IdleAdmin.key = NoKey /\ IdleAdmin.pc = "idle"
  BY <1>3 DEF IdleAdmin
<1>5. ASSUME NEW n \in Names, open(n) PROVE RegistryType' /\ AdminType' /\ ListerType' /\ CallsType'
  <2>1. RegistryType' /\ ListerType'
    BY <1>3, <1>5 DEF open, registry, RegistryType, ListerType
  <2>2. AdminType'
    <3>1. keys[n] \in 0..made /\ keys[n] \in Nat
      BY <1>3 DEF RegistryType
    <3>2. CASE admin' = IdleAdmin
      BY <1>1, <1>3, <1>4, <3>2 DEF AdminType
    <3>3. CASE keys[n] # NoKey /\ admin' = [pc |-> "opened", name |-> n, key |-> keys[n]]
      BY <1>1, <1>3, <3>1, <3>3 DEF AdminType
    <3>4. QED BY <1>5, <3>2, <3>3 DEF open
  <2>3. CallsType'
    <3>1. calls.admin + 1 \in 0..MaxAdmin
      BY <1>3, <1>5, LayersAssumption DEF open, CallsType
    <3>2. QED BY <1>3, <1>5, <3>1 DEF open, CallsType
  <2>4. QED BY <2>1, <2>2, <2>3
<1>6. ASSUME NEW f \in Range(Fields), NEW v \in Written, set(f, v)
      PROVE  RegistryType' /\ AdminType' /\ ListerType' /\ CallsType'
  <2>1. f \in {"prec", "enabled", "owner"}
    <3>1. \A i \in DOMAIN Fields : Fields[i] \in {"prec", "enabled", "owner"}
      BY DEF Fields
    <3>2. QED BY <3>1 DEF Range
  <2>2. ListerType' /\ CallsType' /\ AdminType'
    BY <1>1, <1>3, <1>4, <1>6 DEF set, ListerType, CallsType, AdminType
  <2>3. value' \in [Ids -> Values]
    <3>1. value \in [Ids -> Values]
      BY <1>3 DEF RegistryType
    <3>2. \A k \in Ids : value[k] \in Values /\ [value[k] EXCEPT ![f] = v] \in Values
      BY <2>1, <3>1 DEF Values, Stored
    <3>3. QED BY <1>6, <3>1, <3>2 DEF set
  <2>4. RegistryType'
    BY <1>1, <1>3, <1>6, <2>3 DEF set, RegistryType
  <2>5. QED BY <2>2, <2>4
<1>7. ASSUME delete PROVE RegistryType' /\ AdminType' /\ ListerType' /\ CallsType'
  <2>1. CallsType' /\ AdminType'
    BY <1>1, <1>3, <1>4, <1>7 DEF delete, CallsType, AdminType
  <2>2. RegistryType'
    <3>1. keys \in [Names -> 0..made] /\ NoKey \in 0..made /\ admin.name \in Names
      BY <1>3 DEF RegistryType, AdminType
    <3>2. keys' \in [Names -> 0..made]
      <4>1. keys' = keys \/ keys' = [keys EXCEPT ![admin.name] = NoKey]
        BY <1>7 DEF delete
      <4>2. QED BY <3>1, <4>1
    <3>3. value' = value
      BY <1>7 DEF delete
    <3>4. QED BY <1>1, <1>3, <3>2, <3>3 DEF RegistryType
  <2>3. /\ lister' \in Listers /\ lister'.key = lister.key /\ lister'.pc = lister.pc
        /\ lister'.names = lister.names
    BY <1>3, <1>7 DEF delete, ListerType, Listers
  <2>4. QED BY <1>1, <1>3, <2>1, <2>2, <2>3 DEF ListerType
<1>8. QED BY <1>1, <1>2, <1>5, <1>6, <1>7 DEF Admin, TypeInv

\* The layers there are can be numbered.
LEMMA PresentFinite ==
  /\ IsFiniteSet(Present) /\ Present \subseteq Names /\ Cardinality(Present) \in Nat
  /\ Orders(Below(Names), Present)
<1>1. Present \in SUBSET Names /\ IsFiniteSet(Names) /\ Names \subseteq Int
  BY LayersAssumption DEF Present
<1>2. IsFiniteSet(Present)
  BY <1>1, FS_Subset
<1>3. QED BY <1>1, <1>2, FS_CardinalityType, BelowOrders

(* What a step of the walk over the subkeys answers. *)
LEMMA WalkStep ==
  ASSUME TypeInv, Walk
  PROVE  \/ /\ lister' = [lister EXCEPT !.names = Append(@, Nth(Present, Below(Names), Len(lister.names)))]
            /\ Nth(Present, Below(Names), Len(lister.names)) \in Present
         \/ lister' = [lister EXCEPT !.pc = "open"]
<1>1. Len(lister.names) \in Nat
  BY LenProperties DEF TypeInv, ListerType, Listers
<1>2. CASE Len(lister.names) < Cardinality(Present)
  <2>1. Len(lister.names) \in 0 .. Cardinality(Present) - 1
    BY <1>1, <1>2, PresentFinite
  <2>2. Nth(Present, Below(Names), Len(lister.names)) \in Present
    BY <2>1, PresentFinite, NthAtPosition
  <2>3. QED BY <1>2, <2>2 DEF Walk
<1>3. QED BY <1>2 DEF Walk

\* What is shown of a layer is well typed whatever its values are.
LEMMA ShownType ==
  ASSUME NEW n \in Names, NEW v \in Values
  PROVE  Shown(n, v) \in Entries
BY DEF Shown, Entries, Values, Stored, Written, Missing, Malformed

-----------------------------------------------------------------------------
\* What the order of layers compares.
LEMMA EntryOrder == ASSUME NEW l \in Entries PROVE l.prec \in Int /\ l.name \in Int
<1>1. Names \subseteq Int
  BY LayersAssumption
<1>2. l.prec \in {0, 1} /\ l.name \in Names
  BY DEF Entries
<1>3. l.prec \in Int
  BY <1>2
<1>4. l.name \in Int
  BY <1>1, <1>2
<1>5. QED BY <1>3, <1>4

(* Layers, sorted by a stable sort, are ordered.                           *)
LEMMA AheadOrders ==
  ASSUME NEW s \in Seq(Entries), NEW I, I \subseteq DOMAIN s
  PROVE  Orders(Ahead(s), I)
<1> DEFINE P == [i \in DOMAIN s |-> s[i].prec]
           N == [i \in DOMAIN s |-> s[i].name]
<1>1. \A i \in DOMAIN s : i \in Int /\ P[i] \in Int /\ N[i] \in Int
  <2> SUFFICES ASSUME NEW i \in DOMAIN s PROVE i \in Int /\ P[i] \in Int /\ N[i] \in Int
    OBVIOUS
  <2>1. i \in 1..Len(s) /\ Len(s) \in Nat
    BY LenProperties
  <2>2. s[i] \in Entries
    BY <2>1, ElementOfSeq
  <2>3. s[i].prec \in Int /\ s[i].name \in Int
    BY <2>2, EntryOrder
  <2>4. QED BY <2>1, <2>3
<1>2. \A i, j \in DOMAIN s :
        <<i, j>> \in Ahead(s) <=>
          \/ P[i] > P[j] \/ (P[i] = P[j] /\ N[i] < N[j])
          \/ /\ ~(P[j] > P[i] \/ (P[j] = P[i] /\ N[j] < N[i]))
             /\ i < j
  BY DEF Ahead, Before
<1> HIDE DEF P, N
<1>3. ASSUME NEW i \in I PROVE <<i, i>> \notin Ahead(s)
  BY <1>1, <1>2
<1>4. ASSUME NEW i \in I, NEW j \in I
      PROVE  i = j \/ <<i, j>> \in Ahead(s) \/ <<j, i>> \in Ahead(s)
  BY <1>1, <1>2
<1>5. ASSUME NEW i \in I, NEW j \in I, NEW k \in I,
             <<i, j>> \in Ahead(s), <<j, k>> \in Ahead(s)
      PROVE  <<i, k>> \in Ahead(s)
  <2>1. i \in DOMAIN s /\ j \in DOMAIN s /\ k \in DOMAIN s
    OBVIOUS
  <2>2. /\ i \in Int /\ j \in Int /\ k \in Int
        /\ P[i] \in Int /\ P[j] \in Int /\ P[k] \in Int
        /\ N[i] \in Int /\ N[j] \in Int /\ N[k] \in Int
    BY <1>1, <2>1
  <2>3. \/ P[i] > P[j] \/ (P[i] = P[j] /\ N[i] < N[j])
        \/ P[i] = P[j] /\ N[i] = N[j] /\ i < j
    BY <1>2, <1>5, <2>1, <2>2
  <2>4. \/ P[j] > P[k] \/ (P[j] = P[k] /\ N[j] < N[k])
        \/ P[j] = P[k] /\ N[j] = N[k] /\ j < k
    BY <1>2, <1>5, <2>1, <2>2
  <2>5. \/ P[i] > P[k] \/ (P[i] = P[k] /\ N[i] < N[k])
        \/ P[i] = P[k] /\ N[i] = N[k] /\ i < k
    BY <2>2, <2>3, <2>4
  <2>6. QED BY <1>2, <2>1, <2>2, <2>5
<1>6. QED BY <1>3, <1>4, <1>5 DEF Orders

(* t is s at the positions I, each once, and nothing comes before what it  *)
(* is to come after.                                                       *)
From(t, s, I, n, i, k) ==
    /\ t[i] = s[k]
    /\ \A j \in 1..n : j # i => \E l \in I : l # k /\ t[j] = s[l]

Arranges(t, s, I, n) ==
    /\ \A k \in I : \E i \in 1..n : t[i] = s[k]
    /\ \A i \in 1..n : \E k \in I : From(t, s, I, n, i, k)
    /\ \A i, j \in 1..n : i < j => ~Before(t[j], t[i])

\* Sorted arranges.
LEMMA SortedRight ==
  ASSUME NEW s \in Seq(Entries), NEW I, I \subseteq DOMAIN s
  PROVE  /\ Cardinality(I) \in Nat
         /\ Sorted(s, I) \in Seq(Entries) /\ DOMAIN Sorted(s, I) = 1..Cardinality(I)
         /\ Arranges(Sorted(s, I), s, I, Cardinality(I))
<1> SUFFICES ASSUME NEW n, n = Cardinality(I)
             PROVE  /\ n \in Nat
                    /\ Sorted(s, I) \in Seq(Entries) /\ DOMAIN Sorted(s, I) = 1..n
                    /\ Arranges(Sorted(s, I), s, I, n)
  OBVIOUS
<1> DEFINE at == [i \in 1..n |-> Nth(I, Ahead(s), i - 1)]
<1>1. IsFiniteSet(I) /\ n \in Nat
  <2>1. DOMAIN s = 1..Len(s) /\ Len(s) \in Nat
    BY LenProperties
  <2>2. IsFiniteSet(1..Len(s))
    BY <2>1, FS_Interval
  <2>3. I \in SUBSET (1..Len(s))
    BY <2>1
  <2>4. IsFiniteSet(I)
    BY <2>2, <2>3, FS_Subset
  <2>5. QED BY <2>4, FS_CardinalityType
<1>2. Orders(Ahead(s), I)
  BY AheadOrders
<1>3. ASSUME NEW i \in 1..n
      PROVE  at[i] \in I /\ Position(I, Ahead(s), at[i]) = i - 1
  <2>1. i - 1 \in 0 .. Cardinality(I) - 1
    BY <1>1
  <2>2. QED BY <1>1, <1>2, <2>1, NthAtPosition
<1>4. ASSUME NEW k \in I PROVE \E i \in 1..n : at[i] = k
  <2>1. PICK p \in 0 .. Cardinality(I) - 1 : Nth(I, Ahead(s), p) = k
    BY <1>1, <1>2, PositionsOrdered, NthOfPosition
  <2>2. p + 1 \in 1..n /\ p + 1 - 1 = p
    BY <1>1
  <2>3. at[p + 1] = k
    BY <2>1, <2>2
  <2>4. QED BY <2>2, <2>3
<1>5. ASSUME NEW i \in 1..n, NEW j \in 1..n, i < j
      PROVE  <<at[i], at[j]>> \in Ahead(s)
  <2>1. /\ i - 1 \in 0 .. Cardinality(I) - 1 /\ j - 1 \in 0 .. Cardinality(I) - 1
        /\ i - 1 < j - 1
    BY <1>1, <1>5
  <2>2. QED BY <1>1, <1>2, <2>1, NthOrdered
<1>6. \A i \in 1..n : Sorted(s, I)[i] = s[at[i]] /\ s[at[i]] \in Entries
  BY <1>3, LenProperties, ElementOfSeq DEF Sorted
<1>7. Sorted(s, I) \in Seq(Entries) /\ DOMAIN Sorted(s, I) = 1..n
  <2>1. Sorted(s, I) = [i \in 1..n |-> s[at[i]]]
    BY DEF Sorted
  <2>2. [i \in 1..n |-> s[at[i]]] \in [1..n -> Entries]
    BY <1>6
  <2>3. \A f \in [1..n -> Entries] : f \in Seq(Entries)
    BY <1>1, SeqDef
  <2>4. QED BY <2>1, <2>2, <2>3
<1> HIDE DEF at
<1>8. ASSUME NEW i \in 1..n, NEW j \in 1..n, i # j PROVE at[i] # at[j]
  <2>1. i \in Int /\ j \in Int
    BY <1>1
  <2>2. QED BY <1>3, <1>8, <2>1
<1>9. ASSUME NEW i \in 1..n, NEW j \in 1..n, i < j
      PROVE  ~Before(Sorted(s, I)[j], Sorted(s, I)[i])
  <2>1. <<at[i], at[j]>> \in Ahead(s)
    BY <1>5, <1>9
  <2>2. s[at[i]] \in Entries /\ s[at[j]] \in Entries
    BY <1>6
  <2>3. /\ s[at[i]].prec \in Int /\ s[at[j]].prec \in Int
        /\ s[at[i]].name \in Int /\ s[at[j]].name \in Int
    BY <2>2, EntryOrder
  <2>4. ~Before(s[at[j]], s[at[i]])
    BY <2>1, <2>3, SMTT(30) DEF Ahead, Before
  <2>5. QED BY <1>6, <2>4
<1>10. \A k \in I : \E i \in 1..n : Sorted(s, I)[i] = s[k]
  BY <1>4, <1>6
<1>11. ASSUME NEW i \in 1..n PROVE From(Sorted(s, I), s, I, n, i, at[i])
  BY <1>3, <1>6, <1>8 DEF From
<1>12. Arranges(Sorted(s, I), s, I, n)
  BY <1>3, <1>9, <1>10, <1>11 DEF Arranges
<1>13. QED BY <1>1, <1>7, <1>12

-----------------------------------------------------------------------------
\* The base layer is a layer like any other to the sort.
LEMMA BaseEntry == BaseLayer \in Entries /\ BaseLayer.name = Base
BY LayersAssumption DEF BaseLayer, Entries, Stored

(* What list answers, of the layers it has read: the base layer once, as   *)
(* the kernel has it, and nothing before what it is to come after.         *)
RightList(s) ==
    /\ \E i \in DOMAIN s :
         /\ s[i] = BaseLayer
         /\ \A j \in DOMAIN s : s[j].name = Base => j = i
    /\ \A i, j \in DOMAIN s : i < j => ~Before(s[j], s[i])

\* The list as FinishList makes it is right.
LEMMA ListedRight ==
  ASSUME NEW out \in Seq(Entries), NEW all, all = Append(out, BaseLayer),
         NEW I, I = {i \in 1..Len(out) : out[i].name # Base} \union {Len(all)}
  PROVE  Sorted(all, I) \in Seq(Entries) /\ RightList(Sorted(all, I))
<1> SUFFICES ASSUME NEW l, l = Len(out), NEW n, n = Cardinality(I),
                    NEW s, s = Sorted(all, I)
             PROVE  s \in Seq(Entries) /\ RightList(s)
  OBVIOUS
<1>1. l \in Nat
  BY LenProperties
<1>2. /\ all \in Seq(Entries) /\ Len(all) = l + 1 /\ all[l + 1] = BaseLayer
      /\ \A i \in 1..l : all[i] = out[i]
  BY <1>1, BaseEntry, AppendProperties
<1>3. DOMAIN all = 1 .. l + 1 /\ I \subseteq DOMAIN all
  BY <1>1, <1>2, LenProperties
<1>4. l + 1 \in I /\ \A k \in I : k # l + 1 => all[k].name # Base
  BY <1>2
<1>5. n \in Nat /\ s \in Seq(Entries) /\ DOMAIN s = 1..n /\ Arranges(s, all, I, n)
  BY <1>2, <1>3, SortedRight
<1>6. PICK i \in 1..n : s[i] = BaseLayer
  <2>1. \E i \in 1..n : s[i] = all[l + 1]
    BY <1>4, <1>5 DEF Arranges
  <2>2. QED BY <2>1, <1>2
<1>7. PICK k \in I : From(s, all, I, n, i, k)
  BY <1>5 DEF Arranges
<1>8. k = l + 1
  BY <1>4, <1>6, <1>7, BaseEntry DEF From
<1>9. ASSUME NEW j \in 1..n, s[j].name = Base PROVE j = i
  <2> SUFFICES ASSUME j # i PROVE FALSE
    OBVIOUS
  <2>1. PICK m \in I : m # k /\ s[j] = all[m]
    BY <1>7 DEF From
  <2>2. QED BY <1>4, <1>8, <1>9, <2>1
<1>10. \A h, j \in 1..n : h < j => ~Before(s[j], s[h])
  BY <1>5 DEF Arranges
<1>11. RightList(s)
  <2>1. i \in DOMAIN s /\ s[i] = BaseLayer /\ \A j \in DOMAIN s : s[j].name = Base => j = i
    BY <1>5, <1>6, <1>9
  <2>2. \E h \in DOMAIN s :
          s[h] = BaseLayer /\ \A j \in DOMAIN s : s[j].name = Base => j = h
    BY <2>1, Zenon
  <2>3. \A h, j \in DOMAIN s : h < j => ~Before(s[j], s[h])
    BY <1>5, <1>10, ZenonT(40)
  <2>4. QED BY <2>2, <2>3, Zenon DEF RightList
<1>12. QED BY <1>5, <1>11

(* What FinishList answers. *)
LEMMA Finished ==
  ASSUME TypeInv, FinishList
  PROVE  /\ lister' \in Listers /\ lister'.pc = "listed" /\ lister'.key = lister.key
         /\ RightList(lister'.out)
<1> SUFFICES ASSUME NEW all, all = Append(lister.out, BaseLayer),
                    NEW I, I = {i \in 1..Len(lister.out) : lister.out[i].name # Base}
                                 \union {Len(all)},
                    NEW s, s = Sorted(all, I)
             PROVE  /\ lister' \in Listers /\ lister'.pc = "listed"
                    /\ lister'.key = lister.key /\ RightList(lister'.out)
  OBVIOUS
<1>1. lister \in Listers /\ lister.out \in Seq(Entries)
  BY DEF TypeInv, ListerType, Listers
<1>2. s \in Seq(Entries) /\ RightList(s)
  BY <1>1, ListedRight
<1>3. lister' = [lister EXCEPT !.pc = "listed", !.out = s]
  BY DEF FinishList
<1>4. lister' \in Listers
  BY <1>1, <1>2, <1>3 DEF Listers
<1>5. lister'.pc = "listed" /\ lister'.key = lister.key /\ lister'.out = s
  BY <1>1, <1>3 DEF Listers
<1>6. QED BY <1>2, <1>4, <1>5

\* list keeps the types, and changes nothing of the registry's.
LEMMA ListTypes ==
  ASSUME TypeInv, List
  PROVE  TypeInv' /\ UNCHANGED <<path, keys, value, made, writer, create, admin>>
<1>1. UNCHANGED <<path, keys, value, made, writer, create, admin>>
  BY DEF List, OpenForList, Walk, OpenForRead, Query, FinishList, registry
<1>2. RegistryType' /\ CreateType' /\ CreateInv' /\ AdminType'
  BY <1>1 DEF TypeInv, RegistryType, CreateType, CreateInv, AdminType
<1>3. /\ lister \in Listers /\ lister.key \in 0..made 
      /\ (lister.pc = "read" => lister.key # NoKey /\ lister.names # <<>>)
      /\ made \in Nat /\ Base \in Names /\ NoKey = 0
      /\ keys \in [Names -> 0..made] /\ value \in [Ids -> Values] /\ made \in Ids
  BY LayersAssumption DEF TypeInv, ListerType, RegistryType, Ids, NoKey
<1>4. CASE OpenForList
  <2>1. IdleLister \in Listers /\ IdleLister.key = 0
    <3>1. <<>> \in Seq(Names) /\ <<>> \in Seq(Entries)
      BY EmptySeq
    <3>2. QED BY <1>3, <3>1 DEF IdleLister, Listers, NoLayer, Values, Stored
  <2>2. Present \subseteq Names
    BY PresentFinite
  <2>3. PICK l \in {"walk", "open"} :
          lister' = [IdleLister EXCEPT !.pc = l, !.standing = Present]
    BY <1>4 DEF OpenForList
  <2>4. lister' \in Listers
    BY <2>1, <2>2, <2>3 DEF Listers
  <2>5. lister'.key = 0 /\ lister'.pc # "read"
    BY <2>1, <2>3 DEF Listers
  <2>6. ListerType'
    BY <1>1, <1>3, <2>4, <2>5 DEF ListerType
  <2>7. CallsType'
    <3>1. calls.lists + 1 \in 0..MaxLists
      BY <1>4, LayersAssumption DEF OpenForList, TypeInv, CallsType
    <3>2. QED BY <1>4, <3>1 DEF OpenForList, TypeInv, CallsType
  <2>8. QED BY <1>1, <1>2, <2>6, <2>7 DEF TypeInv
<1>5. CASE Walk
  <2>1. ASSUME NEW n \in Present, lister' = [lister EXCEPT !.names = Append(@, n)]
        PROVE  ListerType'
    <3>1. Append(lister.names, n) \in Seq(Names)
      BY <1>3, PresentFinite, AppendProperties DEF Listers
    <3>2. QED BY <1>1, <1>3, <1>5, <2>1, <3>1 DEF Walk, ListerType, Listers
  <2>2. ASSUME lister' = [lister EXCEPT !.pc = "open"] PROVE ListerType'
    BY <1>1, <1>3, <2>2 DEF ListerType, Listers
  <2>3. ListerType'
    BY <1>5, <2>1, <2>2, WalkStep
  <2>4. CallsType'
    BY <1>5 DEF Walk, TypeInv, CallsType
  <2>5. QED BY <1>1, <1>2, <2>3, <2>4 DEF TypeInv
<1>6. CASE OpenForRead
  <2>1. Head(lister.names) \in Names
    BY <1>3, <1>6, HeadTailProperties DEF OpenForRead, Listers
  <2>2. keys[Head(lister.names)] \in 0..made /\ keys[Head(lister.names)] \in Nat
    BY <1>3, <2>1
  <2>3. ListerType'
    <3>1. CASE lister' = [lister EXCEPT !.pc = "failed"]
      <4>1. lister' \in Listers /\ lister'.key = lister.key /\ lister'.pc = "failed"
        BY <1>3, <3>1 DEF Listers
      <4>2. QED BY <1>1, <1>3, <4>1 DEF ListerType
    <3>2. CASE /\ keys[Head(lister.names)] # NoKey
               /\ lister' = [lister EXCEPT !.pc = "read", !.key = keys[Head(lister.names)],
                                           !.field = 1]
      <4>1. lister' \in Listers
        <5>1. [lister EXCEPT !.pc = "read"] \in Listers
          BY <1>3 DEF Listers
        <5>2. ASSUME NEW r \in Listers, NEW k \in Nat PROVE [r EXCEPT !.key = k] \in Listers
          BY DEF Listers
        <5>3. ASSUME NEW r \in Listers, NEW n \in 1..3 PROVE [r EXCEPT !.field = n] \in Listers
          BY DEF Listers
        <5>4. 1 \in 1..3
          OBVIOUS
        <5>5. QED BY <2>2, <3>2, <5>1, <5>2, <5>3, <5>4
      <4>2. lister'.key = keys[Head(lister.names)] /\ lister'.names = lister.names
        BY <1>3, <3>2 DEF Listers
      <4>3. lister.names # <<>>
        BY <1>6 DEF OpenForRead
      <4>4. QED BY <1>1, <2>2, <3>2, <4>1, <4>2, <4>3 DEF ListerType
    <3>3. QED BY <1>6, <3>1, <3>2 DEF OpenForRead
  <2>4. CallsType'
    BY <1>6 DEF OpenForRead, TypeInv, CallsType
  <2>5. QED BY <1>1, <1>2, <2>3, <2>4 DEF TypeInv
<1>7. CASE Query
  <2> SUFFICES ASSUME NEW f, f = Fields[lister.field],
                      NEW v, v = IF keys[Head(lister.names)] = lister.key
                                 THEN value[lister.key][f] ELSE Missing,
                      NEW got, got = [lister.got EXCEPT ![f] = v]
               PROVE  ListerType'
    <3>1. CallsType'
      BY <1>7 DEF Query, TypeInv, CallsType
    <3>2. QED BY <1>1, <1>2, <3>1 DEF TypeInv
  <2>1. f \in {"prec", "enabled", "owner"} /\ Len(Fields) = 3
    BY <1>3 DEF Listers, Fields
  <2>2. v \in Stored
    <3>1. lister.key \in Ids
      <4>1. lister.key \in 0..made /\ lister.key # 0 /\ made \in 1..MaxKeys /\ MaxKeys \in Nat
        BY <1>3, <1>7, LayersAssumption DEF Query, Ids
      <4>2. QED BY <4>1 DEF Ids
    <3>2. value[lister.key] \in Values
      BY <1>3, <3>1
    <3>3. value[lister.key][f] \in Stored
      BY <2>1, <3>2 DEF Values
    <3>4. QED BY <3>3 DEF Stored
  <2>3. got \in Values
    BY <1>3, <2>1, <2>2 DEF Listers, Values
  <2>4. CASE lister.field < 3 /\ lister' = [lister EXCEPT !.field = @ + 1, !.got = got]
    <3>1. lister.field + 1 \in 1..3
      BY <1>3, <2>4 DEF Listers
    <3>2. QED BY <1>1, <1>3, <2>3, <2>4, <3>1 DEF ListerType, Listers
  <2>5. CASE lister' = [lister EXCEPT !.pc = "open", !.names = Tail(@), !.got = NoLayer,
                                      !.out = Append(@, Shown(Head(lister.names), got))]
    <3>1. Head(lister.names) \in Names /\ Tail(lister.names) \in Seq(Names)
      BY <1>3, <1>7, HeadTailProperties DEF Query, Listers
    <3>2. Append(lister.out, Shown(Head(lister.names), got)) \in Seq(Entries)
      BY <1>3, <2>3, <3>1, ShownType, AppendProperties DEF Listers
    <3>3. NoLayer \in Values
      BY DEF NoLayer, Values, Stored
    <3>4. QED BY <1>1, <1>3, <2>5, <3>1, <3>2, <3>3 DEF ListerType, Listers
  <2>6. QED BY <1>7, <2>1, <2>4, <2>5 DEF Query
<1>8. CASE FinishList
  <2>1. ListerType'
    BY <1>1, <1>3, <1>8, Finished DEF ListerType
  <2>2. CallsType'
    BY <1>8 DEF FinishList, TypeInv, CallsType
  <2>3. QED BY <1>1, <1>2, <2>1, <2>2 DEF TypeInv
<1>9. QED BY <1>1, <1>4, <1>5, <1>6, <1>7, <1>8 DEF List

(* The types hold in every state a behaviour reaches.                      *)
LEMMA TypesKept == TypeInv /\ [Next]_vars => TypeInv'
<1> SUFFICES ASSUME TypeInv, [Next]_vars PROVE TypeInv'
  OBVIOUS
<1>1. ASSUME NEW p \in Creators, Create(p) PROVE TypeInv'
  BY <1>1, CreateTypes
<1>2. CASE Admin
  BY <1>2, AdminTypes
<1>3. CASE List
  BY <1>3, ListTypes
<1>4. CASE UNCHANGED vars
  BY <1>4 DEF vars, TypeInv, RegistryType, CreateType, AdminType, ListerType, CallsType,
              CreateInv
<1>5. QED BY <1>1, <1>2, <1>3, <1>4 DEF Next

\* Every state that is reached has the types.
LEMMA TypesHold == Spec => []TypeInv
<1>1. QED BY TypeInit, TypesKept, PTL DEF Spec

\* The fields of a layer's values, as a sequence lists them.
LEMMA FieldNames == Range(Fields) = {"prec", "enabled", "owner"}
<1>1. DOMAIN Fields = 1..3 /\ Fields[1] = "prec" /\ Fields[2] = "enabled" /\ Fields[3] = "owner"
  BY DEF Fields
<1>2. QED BY <1>1 DEF Range

(* Types are as TypeOK has them, and a transaction that has written is of  *)
(* a call of create that is still under way: whoever is refused, timed out *)
(* or done holds nobody else up.                                           *)
THEOREM LayersTyped == Spec => []TypeOK
<1>1. TypeInv => TypeOK
  <2> SUFFICES ASSUME TypeInv PROVE TypeOK
    OBVIOUS
  <2>1. value \in [Ids -> [Range(Fields) -> Written \union {Missing}]]
    <3>1. \A v \in Values : v \in [{"prec", "enabled", "owner"} -> Stored]
      BY DEF Values
    <3>2. QED BY <3>1, FieldNames DEF TypeInv, RegistryType, Stored
  <2>2. ASSUME NEW p \in Creators
        PROVE  /\ create[p].path \in 0..Path /\ create[p].key \in 0..made
               /\ writer = p => create[p].pc \in {"part", "key", "prec", "enabled", "commit"}
    BY DEF TypeInv, CreateType, CreateInv, CallInv, Creates
  <2>3. calls.admin \in 0..MaxAdmin /\ calls.lists \in 0..MaxLists
    BY DEF TypeInv, CallsType
  <2>4. QED BY <2>1, <2>2, <2>3 DEF TypeInv, RegistryType, AdminType, ListerType, TypeOK
<1>2. QED BY <1>1, TypesHold, PTL

-----------------------------------------------------------------------------
(* A layer that can be seen is whole.                                      *)
LEMMA WholeInit == Init => LayerIsWhole
<1> SUFFICES ASSUME Init, NEW n \in Names, keys[n] # NoKey
             PROVE  Missing \notin {value[keys[n]].prec, value[keys[n]].enabled}
  BY DEF LayerIsWhole
<1>1. keys[n] \in {NoKey, 1} /\ 1 \in Ids
  BY LayersAssumption DEF Init, Ids
<1>2. keys[n] = 1
  BY <1>1
<1>3. value[1] = [prec |-> 0, enabled |-> 1, owner |-> Missing]
  BY <1>1 DEF Init
<1>4. QED BY <1>2, <1>3 DEF Missing

\* No step makes a layer that lacks a value, nor takes one from a layer.
LEMMA WholeKept == TypeInv /\ LayerIsWhole /\ [Next]_vars => LayerIsWhole'
<1> SUFFICES ASSUME TypeInv, LayerIsWhole, [Next]_vars,
                    NEW n \in Names, keys'[n] # NoKey
             PROVE  Missing \notin {value'[keys'[n]].prec, value'[keys'[n]].enabled}
  BY DEF LayerIsWhole
<1>1. /\ keys \in [Names -> 0..made] /\ value \in [Ids -> Values]
      /\ made \in 1..MaxKeys /\ MaxKeys \in Nat
  BY LayersAssumption DEF TypeInv, RegistryType, Ids
<1>2. ASSUME NEW m \in Names, keys[m] # NoKey
      PROVE  keys[m] \in Ids /\ value[keys[m]] \in Values
  <2>1. keys[m] \in 0..made /\ keys[m] # 0
    BY <1>1, <1>2 DEF NoKey
  <2>2. QED BY <1>1, <2>1 DEF Ids
<1>3. CASE UNCHANGED <<keys, value>>
  BY <1>3 DEF LayerIsWhole
<1>4. ASSUME NEW p \in Creators, Create(p)
      PROVE  Missing \notin {value'[keys'[n]].prec, value'[keys'[n]].enabled}
  <2>1. PICK r \in Creates :
          /\ CallInv(r, writer' = p, made')
          /\ Idles(create[p], r) \/ Makes(create[p], r) \/ Shows(create[p], r)
    BY <1>4, CreateStep
  <2>2. CASE Idles(create[p], r) \/ Makes(create[p], r)
    BY <1>3, <2>2 DEF Idles, Makes, registry
  <2>3. CASE Shows(create[p], r)
    <3>1. /\ r.key \in 0..made /\ r.key # 0 /\ r.name \in Names /\ r.staged \in Values
          /\ keys' = [keys EXCEPT ![r.name] = r.key]
          /\ value' = [value EXCEPT ![r.key] = r.staged]
          /\ Missing \notin {r.staged.prec, r.staged.enabled}
      BY <2>1, <2>3 DEF Shows, CallInv, Creates, NoKey
    <3>2. r.key \in Ids
      BY <1>1, <3>1 DEF Ids
    <3>3. CASE n = r.name
      <4>1. keys'[n] = r.key /\ value'[r.key] = r.staged
        BY <1>1, <3>1, <3>2, <3>3
      <4>2. QED BY <3>1, <4>1
    <3>4. CASE n # r.name
      <4>1. keys'[n] = keys[n] /\ keys[n] # NoKey
        BY <1>1, <3>1, <3>4
      <4>2. keys[n] \in Ids
        BY <1>2, <4>1
      <4>3. value'[keys[n]] = IF keys[n] = r.key THEN r.staged ELSE value[keys[n]]
        BY <1>1, <3>1, <4>2
      <4>4. Missing \notin {value[keys[n]].prec, value[keys[n]].enabled}
        BY <4>1 DEF LayerIsWhole
      <4>5. QED BY <3>1, <4>1, <4>3, <4>4
    <3>5. QED BY <3>3, <3>4
  <2>4. QED BY <2>1, <2>2, <2>3
<1>5. ASSUME NEW m \in Names, open(m)
      PROVE  Missing \notin {value'[keys'[n]].prec, value'[keys'[n]].enabled}
  BY <1>3, <1>5 DEF open, registry
<1>6. ASSUME NEW f \in Range(Fields), NEW v \in Written, set(f, v)
      PROVE  Missing \notin {value'[keys'[n]].prec, value'[keys'[n]].enabled}
  <2>1. /\ keys' = keys
        /\ value' = IF keys[admin.name] = admin.key
                    THEN [value EXCEPT ![admin.key][f] = v] ELSE value
    BY <1>6 DEF set
  <2>2. keys[n] \in Ids /\ value[keys[n]] \in Values
    BY <1>2, <2>1
  <2>3. Missing \notin {value[keys[n]].prec, value[keys[n]].enabled}
    BY <2>1 DEF LayerIsWhole
  <2>4. value'[keys[n]] \in {value[keys[n]], [value[keys[n]] EXCEPT ![f] = v]}
    BY <1>1, <2>1, <2>2
  <2>5. f \in {"prec", "enabled", "owner"} /\ v # Missing
    BY FieldNames DEF Written, Missing, Malformed
  <2>6. /\ [value[keys[n]] EXCEPT ![f] = v].prec \in {v, value[keys[n]].prec}
        /\ [value[keys[n]] EXCEPT ![f] = v].enabled \in {v, value[keys[n]].enabled}
    BY <2>2, <2>5 DEF Values
  <2>7. QED BY <2>1, <2>3, <2>4, <2>5, <2>6
<1>7. ASSUME delete PROVE Missing \notin {value'[keys'[n]].prec, value'[keys'[n]].enabled}
  <2>1. value' = value /\ (keys' = keys \/ keys' = [keys EXCEPT ![admin.name] = NoKey])
    BY <1>7 DEF delete
  <2>2. keys'[n] = keys[n]
    BY <1>1, <2>1
  <2>3. QED BY <2>1, <2>2 DEF LayerIsWhole
<1>8. CASE List
  BY <1>3, <1>8, ListTypes
<1>9. CASE UNCHANGED vars
  BY <1>3, <1>9 DEF vars
<1>10. QED BY <1>4, <1>5, <1>6, <1>7, <1>8, <1>9 DEF Next, Admin

(* Creating a layer is one transaction: whoever can see the layer can see  *)
(* both of its values, however creators, administrators and the registry's *)
(* timeouts interleave.                                                    *)
THEOREM LayersAreWhole == Spec => []LayerIsWhole
<1>1. QED BY WholeInit, WholeKept, TypesHold, PTL DEF Spec

-----------------------------------------------------------------------------
(* No two calls of create hold the same key: a key is made by the one call *)
(* that found its name free, and stays that call's.                        *)
KeyOnce ==
    \A p, q \in Creators :
        p # q /\ create[p].key # NoKey => create[p].key # create[q].key

\* No step gives two calls one key.
LEMMA KeyOnceKept == TypeInv /\ KeyOnce /\ [Next]_vars => KeyOnce'
<1> SUFFICES ASSUME TypeInv, KeyOnce, [Next]_vars PROVE KeyOnce'
  OBVIOUS
<1>1. ASSUME NEW p \in Creators, Create(p) PROVE KeyOnce'
  <2>1. PICK r \in Creates :
          /\ Set(p, r) /\ writer' \in {Nobody, p, writer}
          /\ made' \in Nat /\ made <= made' /\ CallInv(r, writer' = p, made')
          /\ Idles(create[p], r) \/ Makes(create[p], r) \/ Shows(create[p], r)
    BY <1>1, CreateStep
  <2>2. create'[p] = r /\ \A q \in Creators : q # p => create'[q] = create[q]
    BY <2>1, SetOne
  <2>3. \A q \in Creators : create[q].key \in 0..made /\ made \in Nat
    BY DEF TypeInv, CreateInv, CallInv, RegistryType, Ids
  <2>4. CASE r.key = create[p].key
    BY <2>2, <2>4 DEF KeyOnce
  <2>5. CASE r.key = made + 1
    <3>1. \A q \in Creators : q # p => create'[q].key # create'[p].key
      BY <2>2, <2>3, <2>5
    <3>2. QED BY <2>2, <3>1 DEF KeyOnce
  <2>6. QED BY <2>1, <2>4, <2>5 DEF Idles, Makes, Shows
<1>2. CASE UNCHANGED create
  BY <1>2 DEF KeyOnce
<1>3. QED BY <1>1, <1>2, AdminTypes, ListTypes DEF Next, vars

(* Of the calls that create a layer, no two answer Ok for the same one,    *)
(* with any number of processes and after any number of deletions.         *)
THEOREM CreatorsDiffer == Spec => []OneCreator
<1>1. Init => KeyOnce
  BY DEF Init, KeyOnce, IdleCreate
<1>2. TypeInv /\ KeyOnce => OneCreator
  BY DEF TypeInv, CreateInv, CallInv, KeyOnce, OneCreator
<1>3. QED BY <1>1, <1>2, KeyOnceKept, TypesHold, PTL DEF Spec

-----------------------------------------------------------------------------
\* Only the commit of a create makes something that can be seen.
Appears ==
    path' # path \/ (\E n \in Names : keys[n] = NoKey /\ keys'[n] # NoKey)
      => \E p \in Creators : create[p].res # "ok" /\ create'[p].res = "ok"

\* Every step is so: what is made before the commit is not yet there to see.
LEMMA OnlyOkAppears == TypeInv /\ [Next]_vars => Appears
<1> SUFFICES ASSUME TypeInv, [Next]_vars PROVE Appears
  OBVIOUS
<1>1. ASSUME NEW p \in Creators, Create(p) PROVE Appears
  <2>1. PICK r \in Creates :
          /\ Set(p, r)
          /\ Idles(create[p], r) \/ Makes(create[p], r) \/ Shows(create[p], r)
    BY <1>1, CreateStep
  <2>2. create'[p] = r
    BY <2>1 DEF Set, TypeInv, CreateType
  <2>3. QED BY <2>1, <2>2 DEF Idles, Makes, Shows, registry, Appears
<1>2. CASE UNCHANGED <<path, keys>>
  BY <1>2 DEF Appears
<1>3. CASE Admin
  <2>1. UNCHANGED path
    BY <1>3, AdminTypes
  <2>2. keys \in [Names -> 0..made]
    BY DEF TypeInv, RegistryType
  <2>3. keys' = keys \/ keys' = [keys EXCEPT ![admin.name] = NoKey]
    BY <1>3 DEF Admin, open, set, delete, registry
  <2>4. \A n \in Names : keys'[n] # NoKey => keys[n] # NoKey
    BY <2>2, <2>3
  <2>5. QED BY <2>1, <2>4 DEF Appears
<1>4. QED BY <1>1, <1>2, <1>3, ListTypes DEF Next, vars

(* A create that fails, or is timed out, leaves neither the layer nor the  *)
(* keys above it: whatever comes into being does so with an answer of Ok.  *)
THEOREM FailedCreatesLeaveNothing == Spec => NothingLeftBehind
<1>1. QED BY OnlyOkAppears, TypesHold, PTL DEF Spec, NothingLeftBehind, Appears

-----------------------------------------------------------------------------
(* A list that no deletion has raced has only layers that are there to     *)
(* read; one that is done has its answer.                                  *)
ListInv ==
    /\ lister.pc \in {"walk", "open", "read"} /\ lister.raced = "no" =>
         \A i \in DOMAIN lister.names : keys[lister.names[i]] # NoKey
    /\ lister.pc = "listed" => RightList(lister.out)
    /\ lister.pc = "failed" => lister.raced = "yes"

\* At the start no list is under way.
LEMMA ListInvInit == Init => ListInv
BY DEF Init, IdleLister, ListInv

\* Only a deletion takes a listed layer away, and it counts as a race.
LEMMA ListInvKept == TypeInv /\ ListInv /\ [Next]_vars => ListInv'
<1> SUFFICES ASSUME TypeInv, ListInv, [Next]_vars PROVE ListInv'
  OBVIOUS
<1>1. /\ lister \in Listers /\ lister.names \in Seq(Names) /\ keys \in [Names -> 0..made]
      /\ DOMAIN lister.names = 1..Len(lister.names) /\ Len(lister.names) \in Nat
      /\ \A i \in DOMAIN lister.names : lister.names[i] \in Names
  <2>1. lister \in Listers /\ lister.names \in Seq(Names) /\ keys \in [Names -> 0..made]
    BY DEF TypeInv, ListerType, Listers, RegistryType
  <2>2. QED BY <2>1, LenProperties, ElementOfSeq
<1>2. ASSUME UNCHANGED lister, \A n \in Names : keys[n] # NoKey => keys'[n] # NoKey
      PROVE  ListInv'
  BY <1>1, <1>2 DEF ListInv
<1>3. ASSUME NEW p \in Creators, Create(p) PROVE ListInv'
  <2>1. PICK r \in Creates :
          Idles(create[p], r) \/ Makes(create[p], r) \/ Shows(create[p], r)
    BY <1>3, CreateStep
  <2>2. \A n \in Names : keys[n] # NoKey => keys'[n] # NoKey
    BY <1>1, <2>1 DEF Idles, Makes, Shows, registry
  <2>3. QED BY <1>2, <1>3, <2>2, CreateStep
<1>4. CASE UNCHANGED <<keys, lister>>
  BY <1>2, <1>4
<1>5. CASE delete
  <2>1. CASE UNCHANGED <<keys, lister>>
    BY <1>4, <2>1
  <2>2. CASE lister' = [lister EXCEPT !.standing = @ \ {admin.name}, !.raced = "yes"]
    <3>1. /\ lister'.raced = "yes" /\ lister'.pc = lister.pc /\ lister'.out = lister.out
      BY <1>1, <2>2 DEF Listers
    <3>2. QED BY <3>1 DEF ListInv
  <2>3. CASE lister.pc \notin {"walk", "open", "read"} /\ UNCHANGED lister
    BY <2>3 DEF ListInv
  <2>4. QED BY <1>5, <2>1, <2>2, <2>3 DEF delete
<1>6. CASE OpenForList
  <2>1. PICK l \in {"walk", "open"} :
          lister' = [IdleLister EXCEPT !.pc = l, !.standing = Present]
    BY <1>6 DEF OpenForList
  <2>2. lister'.names = <<>> /\ lister'.pc \in {"walk", "open"}
    BY <2>1 DEF IdleLister
  <2>3. QED BY <2>2 DEF ListInv
<1>7. CASE Walk
  <2>1. UNCHANGED keys /\ lister.pc = "walk"
    BY <1>7 DEF Walk, registry
  <2>2. CASE lister' = [lister EXCEPT !.pc = "open"]
    <3>1. /\ lister'.names = lister.names /\ lister'.pc = "open"
          /\ lister'.raced = lister.raced
      BY <1>1, <2>2 DEF Listers
    <3>2. QED BY <2>1, <3>1 DEF ListInv
  <2>3. ASSUME NEW n \in Present, lister' = [lister EXCEPT !.names = Append(@, n)]
        PROVE  ListInv'
    <3>1. /\ lister'.names = Append(lister.names, n) /\ lister'.pc = "walk"
          /\ lister'.raced = lister.raced
      BY <1>1, <2>1, <2>3 DEF Listers
    <3>2. /\ n \in Names /\ keys[n] # NoKey
      BY DEF Present
    <3>3. /\ DOMAIN Append(lister.names, n) = 1 .. Len(lister.names) + 1
          /\ Append(lister.names, n)[Len(lister.names) + 1] = n
          /\ \A i \in 1..Len(lister.names) : Append(lister.names, n)[i] = lister.names[i]
      BY <1>1, <3>2, AppendProperties, LenProperties
    <3>4. ASSUME lister.raced = "no", NEW i \in 1 .. Len(lister.names) + 1
          PROVE  keys[Append(lister.names, n)[i]] # NoKey
      <4>1. CASE i = Len(lister.names) + 1
        BY <3>2, <3>3, <4>1
      <4>2. CASE i \in 1..Len(lister.names)
        BY <1>1, <2>1, <3>3, <3>4, <4>2 DEF ListInv
      <4>3. QED BY <1>1, <4>1, <4>2
    <3>5. QED BY <2>1, <3>1, <3>3, <3>4 DEF ListInv
  <2>4. QED BY <1>7, <2>2, <2>3, WalkStep
<1>8. CASE OpenForRead
  <2>1. /\ UNCHANGED keys /\ lister.pc = "open" /\ lister.names # <<>>
        /\ Head(lister.names) = lister.names[1] /\ 1 \in DOMAIN lister.names
    BY <1>1, <1>8, HeadTailProperties, LenProperties, EmptySeq DEF OpenForRead, registry
  <2>2. CASE keys[Head(lister.names)] = NoKey /\ lister' = [lister EXCEPT !.pc = "failed"]
    <3>1. lister.raced = "yes"
      BY <1>1, <2>1, <2>2 DEF ListInv, Listers
    <3>2. lister'.raced = "yes" /\ lister'.pc = "failed"
      BY <1>1, <2>2, <3>1 DEF Listers
    <3>3. QED BY <3>2 DEF ListInv
  <2>3. CASE lister' = [lister EXCEPT !.pc = "read", !.key = keys[Head(lister.names)],
                                      !.field = 1]
    <3>1. /\ lister'.names = lister.names /\ lister'.pc = "read"
          /\ lister'.raced = lister.raced
      BY <1>1, <2>3 DEF Listers
    <3>2. QED BY <2>1, <3>1 DEF ListInv
  <2>4. QED BY <1>8, <2>2, <2>3 DEF OpenForRead
<1>9. CASE Query
  <2>1. UNCHANGED keys /\ lister.pc = "read"
    BY <1>9 DEF Query, registry
  <2>2. ASSUME NEW got, lister' = [lister EXCEPT !.field = @ + 1, !.got = got]
        PROVE  ListInv'
    <3>1. /\ lister'.names = lister.names /\ lister'.pc = "read"
          /\ lister'.raced = lister.raced
      BY <1>1, <2>1, <2>2 DEF Listers
    <3>2. QED BY <2>1, <3>1 DEF ListInv
  <2>3. ASSUME NEW s, lister' = [lister EXCEPT !.pc = "open", !.names = Tail(@),
                                               !.got = NoLayer, !.out = s]
        PROVE  ListInv'
    <3>1. /\ lister'.names = Tail(lister.names) /\ lister'.pc = "open"
          /\ lister'.raced = lister.raced
      BY <1>1, <2>3 DEF Listers
    <3>2. lister.names # <<>>
      BY <2>1 DEF TypeInv, ListerType
    <3>3. /\ Tail(lister.names) \in Seq(Names)
          /\ Len(Tail(lister.names)) = Len(lister.names) - 1
          /\ \A i \in 1..Len(Tail(lister.names)) : Tail(lister.names)[i] = lister.names[i + 1]
      BY <1>1, <3>2, HeadTailProperties
    <3>4. DOMAIN Tail(lister.names) = 1..(Len(lister.names) - 1)
      BY <3>3, LenProperties
    <3>5. \A i \in DOMAIN Tail(lister.names) :
            i + 1 \in DOMAIN lister.names /\ Tail(lister.names)[i] = lister.names[i + 1]
      BY <1>1, <3>3, <3>4
    <3>6. QED BY <2>1, <3>1, <3>5 DEF ListInv
  <2>4. QED BY <1>9, <2>2, <2>3 DEF Query
<1>10. CASE FinishList
  <2>1. lister'.pc = "listed" /\ RightList(lister'.out)
    BY <1>10, Finished
  <2>2. QED BY <2>1 DEF ListInv
<1>11. CASE Admin
  BY <1>4, <1>5, <1>11 DEF Admin, open, set, registry
<1>12. CASE List
  BY <1>6, <1>7, <1>8, <1>9, <1>10, <1>12 DEF List
<1>13. QED BY <1>3, <1>4, <1>11, <1>12 DEF Next, vars

(* A list answers with the base layer once, as the kernel has it, and in   *)
(* order; and it fails only when a deletion raced it.                      *)
THEOREM ListsAnswerRight == Spec => []ListAnswersRight
<1>1. ListInv => ListAnswersRight
  BY DEF ListInv, RightList, ListAnswersRight
<1>2. QED BY <1>1, ListInvInit, ListInvKept, TypesHold, PTL DEF Spec
=============================================================================
