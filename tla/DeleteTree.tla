----------------------------- MODULE DeleteTree -----------------------------
(***************************************************************************)
(* Key::delete_tree of peios/src/registry.rs: gather walks the tree, opens *)
(* every key under this one into `under` (children first), and only then   *)
(* are the keys deleted, one delete_key call each, this key last.  Every   *)
(* enumeration step, open and delete is a call of its own, so other        *)
(* clients of the registry create and delete keys between any two.         *)
(*                                                                         *)
(* delete_key removes this key's path entry in one layer, the argument     *)
(* `layer`; a key that has an entry in another layer as well stays visible *)
(* through it ("lower entries re-emerge").  The entries of one name in     *)
(* several layers are taken to be of one key, and hidden entries           *)
(* (hide_key) are left out.                                                *)
(*                                                                         *)
(* The registry itself (LCS and its source, loregd) is external: a key     *)
(* with visible children refuses to be deleted, and so does one with no    *)
(* entry in the layer; a transaction holds at most MaxOps operations; and  *)
(* while a transaction that has written is open an open waits, as the      *)
(* comment of delete_tree says.                                            *)
(***************************************************************************)
EXTENDS Integers, Sequences, SequencesExt, FiniteSets, Positions

CONSTANTS Keys,       \* every key there may be, numbered in enumeration order
          Root,       \* the key delete_tree is called on
          Under,      \* the keys under Root
          Parent,     \* Parent[k]: the key that k is a child of
          Link,       \* Link[k]: the key that k points at; k when no symlink
          NotUtf8,    \* the keys whose names are not UTF-8
          Layered,    \* the keys other layers may have entries for
          MaxOps,     \* operations one transaction holds (4096 in LCS)
          MaxFds,     \* keys this process can hold open
          MaxForeign  \* bound: changes made by other clients

ASSUME DeleteTreeAssumption ==
    /\ Keys \subseteq Int /\ IsFiniteSet(Keys)
    /\ Root \in Keys /\ Under \subseteq Keys \ {Root}
    /\ Parent \in [Keys -> Keys] /\ Parent[Root] # Root
    /\ \A k \in Keys : k \in Under <=> Parent[k] \in Under \union {Root}
    /\ \A S \in SUBSET Under : S # {} => \E k \in S : Parent[k] \notin S
    /\ Link \in [Keys -> Keys]
    /\ NotUtf8 \subseteq Keys /\ Layered \subseteq Keys
    /\ MaxOps \in Nat /\ MaxFds \in Nat /\ MaxForeign \in Nat

VARIABLES live,      \* the keys with a path entry in `layer`, for everyone
          elsewhere, \* the keys with a path entry in another layer
          txn,       \* the transaction passed in: "none", or its state
          wrote,     \* the caller had written in it before the call
          staged,    \* keys deleted inside the transaction, not yet for good
          deleted,   \* keys this call has deleted from `layer` for good
          foreign,   \* the changes other clients have made
          stack,     \* the active calls of gather, innermost last
          under,     \* the keys gathered, in the order they will be deleted
          next,      \* how many of them delete_tree has deleted
          pc, result

vars == <<live, elsewhere, txn, wrote, staged, deleted, foreign, stack, under, next,
          pc, result>>

Tree == Under \union {Root}

\* The entries in `layer` that a call inside the transaction sees, and the
\* keys it sees: through an entry in any layer.
Entries == live \ staged
Visible == Entries \union elsewhere

Children(k) == {c \in Visible : Parent[c] = k}

\* The order in which enum_subkey numbers child keys.
Order == Below(Keys)

\* An open waits while a transaction that has written is open.
Waits == txn = "active" /\ (wrote \/ staged # {})

Frame(k) == [key |-> k, names |-> <<>>, phase |-> "listing"]

Init ==
    /\ live \in SUBSET Keys /\ elsewhere \in SUBSET Layered
    /\ Root \in live \union elsewhere
    /\ \A k \in live \union elsewhere : Parent[k] \in live \union elsewhere
    /\ txn \in {"none", "active"}
    /\ wrote \in BOOLEAN /\ (txn = "none" => ~wrote)
    /\ staged = {} /\ deleted = {} /\ foreign = {}
    /\ stack = <<Frame(Root)>>
    /\ under = <<>> /\ next = 0
    /\ pc = "gather" /\ result = [answer |-> "pending", count |-> 0]

-----------------------------------------------------------------------------
Return(a, n) == pc' = "returned" /\ result' = [answer |-> a, count |-> n]

Top == stack[Len(stack)]

ReplaceTop(f) == [stack EXCEPT ![Len(stack)] = f]

(* One step of the Subkeys iterator: the child at the dense position after *)
(* the names read so far, or Ok(None), which ends the walk.  A transaction *)
(* that has been timed out answers nothing.                                *)
List ==
    /\ pc = "gather" /\ Top.phase = "listing"
    /\ LET kids == Children(Top.key)
           i == Len(Top.names)
       IN  \/ /\ txn = "timed_out"
              /\ Return("ETIMEDOUT", 0) /\ UNCHANGED stack
           \/ /\ txn # "timed_out" /\ i < Cardinality(kids)
              /\ stack' = ReplaceTop([Top EXCEPT !.names = Append(@, Nth(kids, Order, i))])
              /\ UNCHANGED <<pc, result>>
           \/ /\ txn # "timed_out" /\ i >= Cardinality(kids)
              /\ stack' = ReplaceTop([Top EXCEPT !.phase = "opening"])
              /\ UNCHANGED <<pc, result>>
    /\ UNCHANGED <<live, elsewhere, txn, wrote, staged, deleted, foreign, under, next>>

\* A bug: the open follows symbolic links.
OpenFollowsLink ==
    /\ pc = "gather" /\ Top.phase = "opening" /\ Top.names # <<>> /\ ~Waits
    /\ LET k == Head(Top.names) IN
       IF k \in NotUtf8 THEN Return("EINVAL", 0) /\ UNCHANGED stack
       ELSE IF k \notin Visible THEN Return("ENOENT", 0) /\ UNCHANGED stack
       ELSE IF Len(stack) + Len(under) > MaxFds
            THEN Return("EMFILE", 0) /\ UNCHANGED stack
       ELSE /\ stack' = Append(ReplaceTop([Top EXCEPT !.names = Tail(@)]),
                               Frame(Link[k]))
            /\ UNCHANGED <<pc, result>>
    /\ UNCHANGED <<live, elsewhere, txn, wrote, staged, deleted, foreign, under, next>>

(* Key::open of the next name with OPEN_LINK, which opens a symlink rather *)
(* than what it points at; then the recursive call of gather begins.       *)
Open ==
    /\ pc = "gather" /\ Top.phase = "opening" /\ Top.names # <<>>
    /\ LET k == Head(Top.names) IN
       IF k \in NotUtf8 THEN Return("EINVAL", 0) /\ UNCHANGED stack
       ELSE /\ ~Waits
            /\ \/ /\ k \notin Visible
                  /\ Return("ENOENT", 0) /\ UNCHANGED stack
               \/ /\ k \in Visible /\ Len(stack) + Len(under) > MaxFds
                  /\ Return("EMFILE", 0) /\ UNCHANGED stack
               \/ /\ k \in Visible /\ Len(stack) + Len(under) <= MaxFds
                  /\ stack' = Append(ReplaceTop([Top EXCEPT !.names = Tail(@)]),
                                     Frame(k))
                  /\ UNCHANGED <<pc, result>>
    /\ UNCHANGED <<live, elsewhere, txn, wrote, staged, deleted, foreign, under, next>>

\* A bug: a key is listed before the keys under it.
GatheredParentFirst ==
    /\ pc = "gather" /\ Top.phase = "opening" /\ Top.names = <<>>
    /\ stack' = Front(stack)
    /\ \/ Len(stack) = 1 /\ pc' = "delete" /\ UNCHANGED under
       \/ Len(stack) > 1 /\ under' = <<Top.key>> \o under /\ UNCHANGED pc
    /\ UNCHANGED <<live, elsewhere, txn, wrote, staged, deleted, foreign, next, result>>

\* A bug: each key is deleted as soon as it has been gathered, while keys
\* elsewhere in the tree have yet to be opened.
GatheredDeletesAtOnce ==
    /\ pc = "gather" /\ Top.phase = "opening" /\ Top.names = <<>>
    /\ stack' = Front(stack)
    /\ \/ Len(stack) = 1 /\ pc' = "delete" /\ UNCHANGED <<live, staged, deleted>>
       \/ /\ Len(stack) > 1 /\ UNCHANGED pc
          /\ IF txn = "none"
             THEN /\ live' = live \ {Top.key}
                  /\ deleted' = deleted \union {Top.key}
                  /\ UNCHANGED staged
             ELSE /\ staged' = staged \union {Top.key}
                  /\ UNCHANGED <<live, deleted>>
    /\ UNCHANGED <<elsewhere, txn, wrote, foreign, under, next, result>>

\* A bug: the walk starts over to pick up keys created meanwhile.
GatheredStartsOver ==
    /\ pc = "gather" /\ Top.phase = "opening" /\ Top.names = <<>>
    /\ stack' = <<Frame(Root)>> /\ under' = <<>>
    /\ UNCHANGED <<live, elsewhere, txn, wrote, staged, deleted, foreign, next, pc, result>>

(* gather is done with a key: its caller pushes the key after those under  *)
(* it; when the key is this one, the deletions begin.                      *)
Gathered ==
    /\ pc = "gather" /\ Top.phase = "opening" /\ Top.names = <<>>
    /\ stack' = Front(stack)
    /\ \/ Len(stack) = 1 /\ pc' = "delete" /\ UNCHANGED under
       \/ Len(stack) > 1 /\ under' = Append(under, Top.key) /\ UNCHANGED pc
    /\ UNCHANGED <<live, elsewhere, txn, wrote, staged, deleted, foreign, next, result>>

-----------------------------------------------------------------------------
\* Any of these calls may fail for a reason of its own (EACCES, EIO), and its
\* error ends delete_tree.
CallFails ==
    /\ pc \in {"gather", "delete"}
    /\ Return("EIO", 0)
    /\ UNCHANGED <<live, elsewhere, txn, wrote, staged, deleted, foreign, stack, under, next>>

\* The errno with which the registry refuses to delete k, if it does.
Refusal(k) ==
    IF txn = "timed_out" THEN "ETIMEDOUT"
    ELSE IF txn = "active" /\ Cardinality(staged) >= MaxOps THEN "ENOMEM"
    ELSE IF k \notin Entries THEN "ENOENT"
    ELSE IF Children(k) # {} THEN "ENOTEMPTY" ELSE "none"

\* A key's entry in `layer` deleted: inside the transaction when one was
\* passed, else for good.  Its entries in other layers stay.
delete_key(k, t) ==
    IF t = "none"
    THEN /\ live' = live \ {k} /\ deleted' = deleted \union {k}
         /\ UNCHANGED staged
    ELSE /\ staged' = staged \union {k}
         /\ UNCHANGED <<live, deleted>>

(* delete_key of the next key gathered; the first error ends delete_tree.  *)
DeleteUnder ==
    /\ pc = "delete" /\ next < Len(under)
    /\ LET k == under[next + 1] IN
       \/ /\ Refusal(k) # "none" /\ Return(Refusal(k), 0)
          /\ UNCHANGED <<live, staged, deleted, next>>
       \/ /\ Refusal(k) = "none" /\ delete_key(k, txn)
          /\ next' = next + 1 /\ UNCHANGED <<pc, result>>
    /\ UNCHANGED <<elsewhere, txn, wrote, foreign, stack, under>>

\* A bug: the last delete_key is not given the transaction.
DeleteRootOutsideTxn ==
    /\ pc = "delete" /\ next = Len(under)
    /\ \/ /\ Refusal(Root) # "none" /\ Return(Refusal(Root), 0)
          /\ UNCHANGED <<live, staged, deleted>>
       \/ /\ Refusal(Root) = "none" /\ delete_key(Root, "none")
          /\ Return("ok", Len(under) + 1)
    /\ UNCHANGED <<elsewhere, txn, wrote, foreign, stack, under, next>>

\* A bug: the count returned leaves out this key.
DeleteRootNotCounted ==
    /\ pc = "delete" /\ next = Len(under)
    /\ \/ /\ Refusal(Root) # "none" /\ Return(Refusal(Root), 0)
          /\ UNCHANGED <<live, staged, deleted>>
       \/ /\ Refusal(Root) = "none" /\ delete_key(Root, txn)
          /\ Return("ok", Len(under))
    /\ UNCHANGED <<elsewhere, txn, wrote, foreign, stack, under, next>>

(* delete_key of this key, and the number of keys deleted is returned.     *)
DeleteRoot ==
    /\ pc = "delete" /\ next = Len(under)
    /\ \/ /\ Refusal(Root) # "none" /\ Return(Refusal(Root), 0)
          /\ UNCHANGED <<live, staged, deleted>>
       \/ /\ Refusal(Root) = "none" /\ delete_key(Root, txn)
          /\ Return("ok", Len(under) + 1)
    /\ UNCHANGED <<elsewhere, txn, wrote, foreign, stack, under, next>>

delete_tree == List \/ Open \/ Gathered \/ DeleteUnder \/ DeleteRoot

-----------------------------------------------------------------------------
\* Transaction::commit takes the transaction: when the commit is refused
\* (EBUSY, EIO) the descriptor is closed all the same, and that aborts it.
Commit ==
    /\ pc = "returned" /\ result.answer = "ok" /\ txn = "active"
    /\ \/ /\ txn' = "committed" /\ live' = live \ staged
          /\ deleted' = deleted \union staged /\ staged' = {}
       \/ /\ txn' = "aborted" /\ staged' = {} /\ UNCHANGED <<live, deleted>>
    /\ UNCHANGED <<elsewhere, wrote, foreign, stack, under, next, pc, result>>

\* A caller that got an error drops the transaction, and that aborts it.
Abort ==
    /\ pc = "returned" /\ result.answer # "ok" /\ txn = "active"
    /\ txn' = "aborted" /\ staged' = {}
    /\ UNCHANGED <<live, elsewhere, wrote, deleted, foreign, stack, under, next, pc, result>>

(* The registry and its other clients. *)
\* A transaction that has written and stays open is timed out.
Timeout ==
    /\ Waits
    /\ txn' = "timed_out" /\ staged' = {}
    /\ UNCHANGED <<live, elsewhere, wrote, deleted, foreign, stack, under, next, pc, result>>

\* Others create and delete entries, in this layer and in others, but wait like
\* everyone while a transaction that has written is open.  No entry that was
\* deleted comes back, and no key that is gone.  What they do once the call and
\* its transaction are over is not followed.
Free ==
    /\ Cardinality(foreign) < MaxForeign /\ ~Waits
    /\ ~(pc = "returned" /\ txn # "active")

Gone(k) == /\ k \notin Visible
           /\ k \in deleted \/ \E l \in {"layer", "other"} : <<"delete", l, k>> \in foreign

ForeignCreate(k) ==
    /\ Free /\ Parent[k] \in Visible /\ ~Gone(k)
    /\ \/ /\ k \notin live \union deleted /\ <<"delete", "layer", k>> \notin foreign
          /\ live' = live \union {k} /\ UNCHANGED elsewhere
          /\ foreign' = foreign \union {<<"create", "layer", k>>}
       \/ /\ k \in Layered \ elsewhere /\ <<"delete", "other", k>> \notin foreign
          /\ elsewhere' = elsewhere \union {k} /\ UNCHANGED live
          /\ foreign' = foreign \union {<<"create", "other", k>>}
    /\ UNCHANGED <<txn, wrote, staged, deleted, stack, under, next, pc, result>>

ForeignDelete(k) ==
    /\ Free /\ Children(k) = {}
    /\ \/ /\ k \in live /\ live' = live \ {k} /\ UNCHANGED elsewhere
          /\ foreign' = foreign \union {<<"delete", "layer", k>>}
       \/ /\ k \in elsewhere /\ elsewhere' = elsewhere \ {k} /\ UNCHANGED live
          /\ foreign' = foreign \union {<<"delete", "other", k>>}
    /\ UNCHANGED <<txn, wrote, staged, deleted, stack, under, next, pc, result>>

Others == Timeout \/ \E k \in Keys : ForeignCreate(k) \/ ForeignDelete(k)

Over == pc = "returned" /\ txn # "active" /\ UNCHANGED vars

Next == delete_tree \/ CallFails \/ Commit \/ Abort \/ Others \/ Over

Spec == Init /\ [][Next]_vars

(* The calling thread keeps running, and the registry times out a          *)
(* transaction that keeps another call waiting.  No call need fail.        *)
FairSpec ==
    Spec /\ WF_vars(delete_tree) /\ WF_vars(Commit \/ Abort)
         /\ WF_vars(Timeout)

-----------------------------------------------------------------------------
(* The type invariant.  The keys gathered and those still being gathered   *)
(* fit in the descriptors this process may hold.                           *)
TypeOK ==
    /\ live \subseteq Keys /\ staged \subseteq live /\ deleted \subseteq Keys
    /\ txn \in {"none", "active", "timed_out", "committed", "aborted"}
    /\ elsewhere \subseteq Keys /\ wrote \in BOOLEAN
    /\ foreign \subseteq {"create", "delete"} \X {"layer", "other"} \X Keys
    /\ stack \in Seq([key : Keys, names : Seq(Keys),
                      phase : {"listing", "opening"}])
    /\ under \in Seq(Keys) /\ Len(stack) + Len(under) <= MaxFds + 1
    /\ next \in 0..Len(under)
    /\ pc \in {"gather", "delete", "returned"} /\ (pc = "gather" => stack # <<>>)
    /\ result \in [answer : {"pending", "ok", "EINVAL", "ENOENT", "EMFILE",
                             "ETIMEDOUT", "ENOMEM", "ENOTEMPTY", "EIO"},
                   count : Nat]

(* delete_tree deletes this key and keys under it, never a key elsewhere   *)
(* that a symbolic link under it points at.                                *)
StaysInTree == deleted \union staged \subseteq Tree

(* "Pass a Transaction for all or nothing": once the transaction is over,  *)
(* either nothing was deleted, or the layer has nothing of the tree left   *)
(* and no other layer has anything under this key, whatever the other      *)
(* clients did meanwhile and whichever call failed.                        *)
AllOrNothing ==
    txn # "none" =>
        \/ deleted = {}
        \/ /\ txn = "committed" /\ Root \in deleted
           /\ live \intersect Tree = {} /\ elsewhere \intersect Under = {}

(* Ok(n) means that n keys are deleted from the layer (with a transaction: *)
(* staged for the commit), that the layer has nothing of the tree left, a  *)
(* key created under it during the walk included, and that no layer shows  *)
(* anything under this key.  (This key itself may show through again, from *)
(* another layer.)                                                         *)
OkMeansGone ==
    result.answer = "ok" /\ txn \notin {"timed_out", "aborted"} =>
        /\ result.count = Cardinality(deleted \union staged)
        /\ Entries \intersect Tree = {}
        /\ Visible \intersect Under = {}

(* On a tree no one else touches, the order of the deletions is right: a   *)
(* key is refused as missing only when it never had an entry in the layer, *)
(* another layer showing it, and as having children only when a key under  *)
(* this one shows through from another layer.  So a tree that only this    *)
(* layer has is never refused in either way.                               *)
QuietTreeIsDeletable ==
    foreign = {} =>
        /\ result.answer = "ENOENT" => \E k \in Tree : k \in elsewhere \ (live \union deleted)
        /\ result.answer = "ENOTEMPTY" => elsewhere \intersect Under # {}

(* "opening first avoids that": unless the caller had already written in   *)
(* the transaction, no open of delete_tree ever waits for the transaction  *)
(* it was given.                                                           *)
NeverWaitsForItself == pc = "gather" /\ ~wrote => ~Waits

(* delete_tree returns, even when it is called with a transaction that has *)
(* written and its opens wait until the transaction is timed out.          *)
EventuallyReturns == <>(pc = "returned")
=============================================================================
