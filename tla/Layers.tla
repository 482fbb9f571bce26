------------------------------- MODULE Layers -------------------------------
(***************************************************************************)
(* peios/src/registry/layers.rs: processes that create, change, delete and *)
(* list registry layers.  A layer is a key under `Layers` with its values; *)
(* create makes key and values (and, for the first layer, the two keys     *)
(* above) in one transaction, everything else is a plain open followed by  *)
(* one call on the handle.                                                 *)
(*                                                                         *)
(* The registry is external.  One transaction at a time has writes: others *)
(* that open a key or write wait for it to end, and it may be timed out.   *)
(* A handle is to a key, not to its name: once the key is deleted a call   *)
(* on the handle is ENOENT, even if the name is in use again.              *)
(***************************************************************************)
EXTENDS Integers, Sequences, SequencesExt, FiniteSets, Positions

CONSTANTS Names,      \* layer names, numbers in enumeration order
          Base,       \* the name of the base layer
          Creators,   \* processes that call create
          MaxKeys,    \* bound: layer keys made in a behaviour
          MaxAdmin,   \* bound: calls of set_* and delete
          MaxLists    \* bound: calls of list

Nobody == "nobody"

ASSUME LayersAssumption ==
    /\ Names \subseteq Nat /\ IsFiniteSet(Names) /\ Base \in Names
    /\ Nobody \notin Creators
    /\ MaxKeys \in Nat \ {0} /\ MaxAdmin \in Nat /\ MaxLists \in Nat

Missing == -1              \* a value that is not set
Malformed == -2            \* a value of the wrong type or size
Written == {0, 1, Malformed}
NoKey == 0
Path == 2                  \* keys from `Machine\System` down to `Layers`

VARIABLES path,     \* how many of the two keys above the layers exist
          keys,     \* keys[n]: the layer key named n, NoKey when there is none
          value,    \* value[k]: the Precedence, Enabled and Owner of key k
          made,     \* how many layer keys were ever made
          writer,   \* the process whose transaction has written, or Nobody
          create,   \* per creator: where create stands
          admin,    \* a process that sets values and deletes layers
          lister,   \* a process that lists the layers
          calls     \* [admin, lists]: calls made so far

vars == <<path, keys, value, made, writer, create, admin, lister, calls>>

registry == <<path, keys, value, made>>

Ids == 1..MaxKeys

Fields == <<"prec", "enabled", "owner">>   \* in the order read queries them

NoLayer == [prec |-> Missing, enabled |-> Missing, owner |-> Missing]

IdleCreate == [pc |-> "idle", name |-> Base, prec |-> 0, enabled |-> 0,
               path |-> 0, key |-> NoKey, staged |-> NoLayer, res |-> "none"]

IdleAdmin == [pc |-> "idle", name |-> Base, key |-> NoKey]

IdleLister == [pc |-> "idle", names |-> <<>>, key |-> NoKey,
               field |-> 1, got |-> NoLayer, out |-> <<>>,
               standing |-> {}, raced |-> "no"]

Init ==
    /\ path \in 0..Path
    /\ keys \in [Names -> {NoKey, 1}]
    /\ \A n \in Names : keys[n] # NoKey => n = Base /\ path = Path
    /\ value = [k \in Ids |-> [prec |-> 0, enabled |-> 1, owner |-> Missing]]
    /\ made = 1 /\ writer = Nobody
    /\ create = [p \in Creators |-> IdleCreate]
    /\ admin = IdleAdmin /\ lister = IdleLister
    /\ calls = [admin |-> 0, lists |-> 0]

-----------------------------------------------------------------------------
\* An open waits while a transaction that has written is open; a write waits
\* while somebody else's has.
MayOpen == writer = Nobody
MayWrite(p) == writer \in {Nobody, p}

Set(p, r) == create' = [create EXCEPT ![p] = r]

At(p, l) == create[p].pc = l

\* A bug: the transaction is left open when create fails.
FailKeepsTxn(p, e) ==
    /\ Set(p, [create[p] EXCEPT !.pc = "done", !.res = e])
    /\ UNCHANGED writer

\* create returns; with an error, the dropped transaction is aborted.
Fail(p, e) ==
    /\ Set(p, [create[p] EXCEPT !.pc = "done", !.res = e])
    /\ writer' = IF writer = p THEN Nobody ELSE writer

(* create(name, precedence, enabled) is called.  The base layer and names  *)
(* that are not one path component are refused; a transaction is begun.    *)
CallCreate(p, n, pr, en) ==
    /\ At(p, "idle")
    /\ Set(p, [create[p] EXCEPT !.name = n, !.prec = pr, !.enabled = en,
                                !.pc = IF n = Base THEN "done" ELSE "open",
                                !.res = IF n = Base THEN "EINVAL" ELSE "none"])
    /\ UNCHANGED <<registry, writer, admin, lister, calls>>

(* Key::open of Layers; ENOENT sends create to the key that is always there. *)
OpenLayers(p) ==
    /\ At(p, "open") /\ MayOpen
    /\ Set(p, [create[p] EXCEPT !.pc = IF path = Path THEN "key" ELSE "above"])
    /\ UNCHANGED <<registry, writer, admin, lister, calls>>

OpenAbove(p) ==
    /\ At(p, "above") /\ MayOpen
    /\ Set(p, [create[p] EXCEPT !.pc = "part"])
    /\ UNCHANGED <<registry, writer, admin, lister, calls>>

\* A bug: the keys above are created outside the transaction.
CreatePartOutsideTxn(p) ==
    /\ At(p, "part") /\ MayWrite(p)
    /\ LET i == create[p].path + 1 IN
       /\ path' = IF path < i THEN i ELSE path
       /\ Set(p, [create[p] EXCEPT !.path = i,
                                   !.pc = IF i = Path THEN "key" ELSE "part"])
    /\ UNCHANGED <<keys, value, made, writer, admin, lister, calls>>

(* Key::create of `Registry`, then of `Layers`, in the transaction: made,  *)
(* or opened when someone made it meanwhile.                               *)
CreatePart(p) ==
    /\ At(p, "part") /\ MayWrite(p)
    /\ writer' = p
    /\ LET i == create[p].path + 1 IN
       Set(p, [create[p] EXCEPT !.path = i,
                                !.pc = IF i = Path THEN "key" ELSE "part"])
    /\ UNCHANGED <<registry, admin, lister, calls>>

\* A bug: a layer that is already there is taken over.
CreateKeyTakesOver(p) ==
    /\ At(p, "key") /\ MayWrite(p)
    /\ LET n == create[p].name IN
       \/ /\ keys[n] # NoKey
          /\ Set(p, [create[p] EXCEPT !.key = keys[n], !.pc = "prec"])
          /\ writer' = p /\ UNCHANGED made
       \/ /\ keys[n] = NoKey /\ made < MaxKeys
          /\ made' = made + 1 /\ writer' = p
          /\ Set(p, [create[p] EXCEPT !.key = made', !.pc = "prec"])
    /\ UNCHANGED <<path, keys, value, admin, lister, calls>>

(* Key::create of the layer's key, in the transaction.  OpenedExisting is  *)
(* EEXIST, and drops the transaction.                                      *)
CreateKey(p) ==
    /\ At(p, "key") /\ MayWrite(p)
    /\ LET n == create[p].name IN
       \/ /\ keys[n] # NoKey /\ Fail(p, "EEXIST") /\ UNCHANGED made
       \/ /\ keys[n] = NoKey /\ made < MaxKeys
          /\ made' = made + 1 /\ writer' = p
          /\ Set(p, [create[p] EXCEPT !.key = made', !.pc = "prec"])
    /\ UNCHANGED <<path, keys, value, admin, lister, calls>>

(* set_value of Precedence, then of Enabled, in the transaction. *)
SetPrecedence(p) ==
    /\ At(p, "prec") /\ writer = p
    /\ Set(p, [create[p] EXCEPT !.staged.prec = create[p].prec, !.pc = "enabled"])
    /\ UNCHANGED <<registry, writer, admin, lister, calls>>

\* A bug: create commits without having written Enabled.
SetEnabledForgotten(p) ==
    /\ At(p, "enabled") /\ writer = p
    /\ Set(p, [create[p] EXCEPT !.pc = "commit"])
    /\ UNCHANGED <<registry, writer, admin, lister, calls>>

SetEnabled(p) ==
    /\ At(p, "enabled") /\ writer = p
    /\ Set(p, [create[p] EXCEPT !.staged.enabled = create[p].enabled, !.pc = "commit"])
    /\ UNCHANGED <<registry, writer, admin, lister, calls>>

(* commit: everything the transaction holds becomes visible at once. *)
Commit(p) ==
    /\ At(p, "commit") /\ writer = p
    /\ path' = Path
    /\ keys' = [keys EXCEPT ![create[p].name] = create[p].key]
    /\ value' = [value EXCEPT ![create[p].key] = create[p].staged]
    /\ writer' = Nobody
    /\ Set(p, [create[p] EXCEPT !.pc = "done", !.res = "ok"])
    /\ UNCHANGED <<made, admin, lister, calls>>

(* Any of create's calls may be refused (no privilege for the precedence,  *)
(* EBUSY or EIO at the commit, a transaction timed out before it).         *)
Refused(p) ==
    /\ create[p].pc \in {"open", "above", "part", "key", "prec", "enabled", "commit"}
    /\ Fail(p, "errno")
    /\ UNCHANGED <<registry, admin, lister, calls>>

\* The registry times out a transaction; its process learns at its next call.
Timeout(p) ==
    /\ writer = p /\ writer' = Nobody
    /\ Set(p, [create[p] EXCEPT !.pc = "timed_out"])
    /\ UNCHANGED <<registry, admin, lister, calls>>

TimedOut(p) ==
    /\ At(p, "timed_out")
    /\ Fail(p, "errno")
    /\ UNCHANGED <<registry, admin, lister, calls>>

Step(p) ==
    \/ OpenLayers(p) \/ OpenAbove(p) \/ CreatePart(p) \/ CreateKey(p)
    \/ SetPrecedence(p) \/ SetEnabled(p) \/ Commit(p) \/ TimedOut(p)

Create(p) ==
    \/ \E n \in Names, pr, en \in {0, 1} : CallCreate(p, n, pr, en)
    \/ Step(p) \/ Refused(p) \/ Timeout(p)

-----------------------------------------------------------------------------
(* set_precedence, set_enabled, set_owner and delete: open the layer's key *)
(* by name (never the base layer's), then one call on the handle.          *)
open(n) ==
    /\ admin.pc = "idle" /\ calls.admin < MaxAdmin
    /\ n # Base /\ MayOpen
    /\ calls' = [calls EXCEPT !.admin = @ + 1]
    /\ admin' = IF keys[n] = NoKey THEN IdleAdmin
                ELSE [pc |-> "opened", name |-> n, key |-> keys[n]]
    /\ UNCHANGED <<registry, writer, create, lister>>

\* Writing one value through the handle; tools that are not this library
\* also write values that are malformed.
set(f, v) ==
    /\ admin.pc = "opened" /\ MayOpen
    /\ value' = IF keys[admin.name] = admin.key
                THEN [value EXCEPT ![admin.key][f] = v] ELSE value
    /\ admin' = IdleAdmin
    /\ UNCHANGED <<path, keys, made, writer, create, lister, calls>>

delete ==
    /\ admin.pc = "opened" /\ MayOpen
    /\ LET gone == keys[admin.name] = admin.key IN
       /\ keys' = IF gone THEN [keys EXCEPT ![admin.name] = NoKey] ELSE keys
       /\ lister' = IF gone /\ lister.pc \in {"walk", "open", "read"}
                    THEN [lister EXCEPT !.standing = @ \ {admin.name}, !.raced = "yes"]
                    ELSE lister
    /\ admin' = IdleAdmin
    /\ UNCHANGED <<path, value, made, writer, create, calls>>

Admin ==
    \/ \E n \in Names : open(n)
    \/ \E f \in Range(Fields), v \in Written : set(f, v)
    \/ delete

-----------------------------------------------------------------------------
Present == {n \in Names : keys[n] # NoKey}

(* list opens Layers; without it there is only the base layer. *)
OpenForList ==
    /\ lister.pc = "idle" /\ calls.lists < MaxLists /\ MayOpen
    /\ calls' = [calls EXCEPT !.lists = @ + 1]
    /\ lister' = [IdleLister EXCEPT !.pc = IF path = Path THEN "walk" ELSE "open",
                                    !.standing = Present]
    /\ UNCHANGED <<registry, writer, create, admin>>

(* One step of the walk over the dense positions of Layers' subkeys. *)
Walk ==
    /\ lister.pc = "walk"
    /\ LET i == Len(lister.names)
       IN lister' = IF i < Cardinality(Present)
                    THEN [lister EXCEPT !.names = Append(@, Nth(Present, Below(Names), i))]
                    ELSE [lister EXCEPT !.pc = "open"]
    /\ UNCHANGED <<registry, writer, create, admin, calls>>

(* read opens the next layer's key; a layer deleted since the walk is      *)
(* ENOENT, which is list's answer too.                                     *)
OpenForRead ==
    /\ lister.pc = "open" /\ lister.names # <<>> /\ MayOpen
    /\ LET k == keys[Head(lister.names)] IN
       lister' = IF k = NoKey THEN [lister EXCEPT !.pc = "failed"]
                 ELSE [lister EXCEPT !.pc = "read", !.key = k, !.field = 1]
    /\ UNCHANGED <<registry, writer, create, admin, calls>>

\* The layer as Data::decode and the defaults show it.
Shown(n, v) ==
    [name |-> n,
     prec |-> IF v.prec \in {0, 1} THEN v.prec ELSE 0,
     enabled |-> IF v.enabled \in {0, 1} THEN v.enabled ELSE 1,
     owner |-> IF v.owner = Malformed THEN Missing ELSE v.owner,
     malformed |-> Malformed \in {v.prec, v.enabled, v.owner}]

(* read queries the values in three calls; a value of a key that has been  *)
(* deleted meanwhile is ENOENT, that is, missing.                          *)
Query ==
    /\ lister.pc = "read"
    /\ LET n == Head(lister.names)
           f == Fields[lister.field]
           v == IF keys[n] = lister.key THEN value[lister.key][f] ELSE Missing
           got == [lister.got EXCEPT ![f] = v]
       IN lister' = IF lister.field < Len(Fields)
                    THEN [lister EXCEPT !.field = @ + 1, !.got = got]
                    ELSE [lister EXCEPT !.pc = "open", !.names = Tail(@),
                                        !.got = NoLayer,
                                        !.out = Append(@, Shown(n, got))]
    /\ UNCHANGED <<registry, writer, create, admin, calls>>

\* The base layer is the kernel's whatever its key says.
BaseLayer == [name |-> Base, prec |-> 0, enabled |-> 1, owner |-> Missing,
              malformed |-> FALSE]

Before(a, b) == a.prec > b.prec \/ (a.prec = b.prec /\ a.name < b.name)

\* The entries of s at the positions I, sorted; a sort that is stable.
Ahead(s) ==
    {p \in (DOMAIN s) \X (DOMAIN s) :
        Before(s[p[1]], s[p[2]]) \/ (~Before(s[p[2]], s[p[1]]) /\ p[1] < p[2])}
Sorted(s, I) == [i \in 1..Cardinality(I) |-> s[Nth(I, Ahead(s), i - 1)]]

\* A bug: a key that the base layer has is shown beside the base layer.
FinishKeepsBaseKey ==
    /\ lister.pc = "open" /\ lister.names = <<>>
    /\ LET all == Append(lister.out, BaseLayer)
       IN lister' = [lister EXCEPT !.pc = "listed", !.out = Sorted(all, DOMAIN all)]
    /\ UNCHANGED <<registry, writer, create, admin, calls>>

(* Whatever was read for the base layer is replaced, and the list sorted. *)
FinishList ==
    /\ lister.pc = "open" /\ lister.names = <<>>
    /\ LET all == Append(lister.out, BaseLayer)
           kept == {i \in 1..Len(lister.out) : lister.out[i].name # Base}
       IN lister' = [lister EXCEPT !.pc = "listed",
                        !.out = Sorted(all, kept \union {Len(all)})]
    /\ UNCHANGED <<registry, writer, create, admin, calls>>

List ==
    \/ OpenForList \/ Walk \/ OpenForRead
    \/ Query \/ FinishList

Next == (\E p \in Creators : Create(p)) \/ Admin \/ List

Spec == Init /\ [][Next]_vars

(* A process that may take a step of create keeps taking them; a wait for  *)
(* another's transaction ends, because that one runs on or is timed out.   *)
FairSpec == Spec /\ \A p \in Creators : WF_vars(Step(p))

-----------------------------------------------------------------------------
(* The type invariant.  A transaction that has written belongs to a call   *)
(* of create that is under way.                                            *)
TypeOK ==
    /\ path \in 0..Path /\ made \in Ids
    /\ keys \in [Names -> 0..made]
    /\ value \in [Ids -> [Range(Fields) -> Written \union {Missing}]]
    /\ writer \in Creators \union {Nobody}
    /\ \A p \in Creators :
         /\ create[p].path \in 0..Path /\ create[p].key \in 0..made
         /\ writer = p => create[p].pc \in {"part", "key", "prec", "enabled", "commit"}
    /\ admin.key \in 0..made /\ lister.key \in 0..made
    /\ calls.admin \in 0..MaxAdmin /\ calls.lists \in 0..MaxLists

(* "in one transaction so that its values are all there when the kernel    *)
(* first reads them": a layer that can be seen has both of its values.     *)
LayerIsWhole ==
    \A n \in Names : keys[n] # NoKey =>
        Missing \notin {value[keys[n]].prec, value[keys[n]].enabled}

(* Of two processes that create a layer of the same name, one makes it and *)
(* the other gets EEXIST: no two calls answer Ok for the same layer.       *)
OneCreator ==
    \A p, q \in Creators :
        p # q /\ create[p].res = "ok" /\ create[q].res = "ok"
            => create[p].key # create[q].key

(* Nothing of a create that fails is left behind: layers, and the keys     *)
(* above them, come into being only when some create answers Ok.           *)
NothingLeftBehind ==
    [][ path' # path \/ (\E n \in Names : keys[n] = NoKey /\ keys'[n] # NoKey)
          => \E p \in Creators : create[p].res # "ok" /\ create'[p].res = "ok" ]_vars

(* A list has the base layer once, as the kernel has it whatever its key   *)
(* says, and the highest precedence first, then by name; list fails with   *)
(* ENOENT only when a layer was deleted while it ran: a registry without   *)
(* any layer, or with a malformed one, is not an error.                    *)
ListAnswersRight ==
    /\ lister.pc = "listed" =>
        /\ \E i \in DOMAIN lister.out :
             /\ lister.out[i] = BaseLayer
             /\ \A j \in DOMAIN lister.out : lister.out[j].name = Base => j = i
        /\ \A i, j \in DOMAIN lister.out : i < j => ~Before(lister.out[j], lister.out[i])
    /\ lister.pc = "failed" => lister.raced = "yes"

(* "Every layer": a layer that exists all through the call is in the list, *)
(* and is there once.  The walk by dense position breaks it: a layer that  *)
(* is created or deleted before the position shifts the layers after it.   *)
ListIsExact ==
    lister.pc = "listed" =>
        \A n \in lister.standing :
            Len(SelectSeq(lister.out, LAMBDA l : l.name = n)) = 1

(* A call of create returns: waiting for another's transaction to end, the *)
(* wait of its own opens included, never goes round in a circle.           *)
CreateReturns ==
    \A p \in Creators : create[p].pc = "open" ~> create[p].pc = "done"
=============================================================================
