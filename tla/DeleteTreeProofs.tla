-------------------------- MODULE DeleteTreeProofs --------------------------
(***************************************************************************)
(* delete_tree deletes this key and keys under it and nothing else; with a *)
(* transaction it is all or nothing; Ok means that the layer has nothing   *)
(* of the tree left and that no layer shows anything under this key; and a *)
(* tree no one else touches is deleted in an order in which no key is      *)
(* refused, but for what other layers show.  The proof of the last follows *)
(* the walk: what gather has still to open, has opened and has gathered    *)
(* is, at every step, all there is under the keys it is at work on.        *)
(***************************************************************************)
EXTENDS DeleteTree, CommonLemmas, SequenceTheorems, TLAPS

-----------------------------------------------------------------------------
Frames == [key : Keys, names : Seq(Keys), phase : {"listing", "opening"}]

\* The numbering of child keys orders any set of keys.
LEMMA OrderOrders == ASSUME NEW S, S \subseteq Keys PROVE Orders(Order, S)
BY BelowOrders, DeleteTreeAssumption DEF Order

\* A key has finitely many children, so they can be counted.
LEMMA ChildrenFinite ==
  ASSUME TypeOK, NEW k
  PROVE  /\ Children(k) \subseteq Keys /\ IsFiniteSet(Children(k))
         /\ Cardinality(Children(k)) \in Nat
<1>1. Children(k) \in SUBSET Keys
  BY DEF Children, Visible, Entries, TypeOK
<1>2. IsFiniteSet(Keys)
  BY DeleteTreeAssumption
<1>3. IsFiniteSet(Children(k))
  BY <1>1, <1>2, FS_Subset
<1>4. Cardinality(Children(k)) \in Nat
  BY <1>3, FS_CardinalityType
<1>5. QED BY <1>1, <1>3, <1>4

(* The child that a step of the Subkeys iterator answers. *)
LEMMA ListedIsChild ==
  ASSUME TypeOK, NEW k, NEW i \in Nat, i < Cardinality(Children(k))
  PROVE  Nth(Children(k), Order, i) \in Children(k)
<1>1. i \in 0 .. Cardinality(Children(k)) - 1
  BY ChildrenFinite
<1>2. Orders(Order, Children(k))
  BY ChildrenFinite, OrderOrders
<1>3. QED BY <1>1, <1>2, ChildrenFinite, NthAtPosition

\* While gather runs it has at least one active call.
LEMMA StackType ==
  ASSUME TypeOK, pc = "gather"
  PROVE  /\ stack \in Seq(Frames) /\ Len(stack) \in Nat \ {0}
         /\ Len(stack) \in 1 .. Len(stack)
<1>1. stack \in Seq(Frames) /\ stack # <<>>
  BY DEF TypeOK, Frames
<1>2. QED BY <1>1, EmptySeq

\* The innermost call of gather is a frame like any other.
LEMMA TopIsFrame ==
  ASSUME TypeOK, pc = "gather"
  PROVE  Top \in Frames /\ Top.key \in Keys /\ Top.names \in Seq(Keys)
<1>1. Top \in Frames
  BY StackType, ElementOfSeq DEF Top
<1>2. QED BY <1>1 DEF Frames

\* A call of gather begins as a frame.
LEMMA FrameType == ASSUME NEW k \in Keys PROVE Frame(k) \in Frames
BY DEF Frame, Frames

(* The frames after a step that changes the innermost one. *)
LEMMA ReplacedTop ==
  ASSUME TypeOK, pc = "gather", NEW fr \in Frames
  PROVE  /\ ReplaceTop(fr) \in Seq(Frames) /\ Len(ReplaceTop(fr)) = Len(stack)
         /\ \A f \in 1 .. Len(stack) :
              ReplaceTop(fr)[f] = IF f = Len(stack) THEN fr ELSE stack[f]
BY StackType, ExceptSeq DEF ReplaceTop

\* All of a sequence but its last element.
LEMMA Fronted ==
  ASSUME NEW S, NEW s \in Seq(S), s # <<>>
  PROVE  /\ Front(s) \in Seq(S) /\ Len(Front(s)) = Len(s) - 1
         /\ \A i \in 1 .. Len(s) - 1 : Front(s)[i] = s[i]
<1>1. Len(s) \in Nat \ {0} /\ \A i \in 1 .. Len(s) : s[i] \in S
  BY EmptySeq, ElementOfSeq
<1>2. \A i \in 1 .. Len(s) - 1 : s[i] \in S
  BY <1>1
<1>3. Len(s) - 1 \in Int
  BY <1>1
<1>4. /\ Front(s) \in Seq(S)
      /\ Len(Front(s)) = IF 1 <= Len(s) - 1 THEN (Len(s) - 1) - 1 + 1 ELSE 0
      /\ \A i \in 1 .. (Len(s) - 1) - 1 + 1 : Front(s)[i] = s[1 + i - 1]
  BY <1>2, <1>3, SubSeqProperties DEF Front
<1>5. Len(Front(s)) = Len(s) - 1
  <2>1. Len(Front(s)) = IF 1 <= Len(s) - 1 THEN (Len(s) - 1) - 1 + 1 ELSE 0
    BY <1>4
  <2>2. CASE Len(s) = 1
    BY <2>1, <2>2
  <2>3. CASE Len(s) # 1
    <3>0. \A m \in Nat \ {0} : m # 1 => m - 1 \in Nat /\ 1 <= m - 1
      OBVIOUS
    <3>1. Len(s) - 1 \in Nat /\ 1 <= Len(s) - 1
      BY <1>1, <2>3, <3>0
    <3>2. QED BY <2>1, <3>1
  <2>4. QED BY <2>2, <2>3
<1>6. ASSUME NEW i \in 1 .. Len(s) - 1 PROVE Front(s)[i] = s[i]
  <2>1. i \in 1 .. (Len(s) - 1) - 1 + 1 /\ 1 + i - 1 = i
    BY <1>1
  <2>2. QED BY <1>4, <2>1
<1>7. QED BY <1>4, <1>5, <1>6

(* What each step of gather that stays in gather leaves of the frames.     *)
LEMMA ListStep ==
  ASSUME TypeOK, List, pc' = "gather", NEW n, n = Len(stack)
  PROVE  /\ n \in Nat \ {0} /\ stack' \in Seq(Frames) /\ Len(stack') = n
         /\ stack[n] \in Frames /\ stack[n].phase = "listing"
         /\ \A f \in 1 .. n : f # n => stack'[f] = stack[f]
         /\ stack'[n].key = stack[n].key
         /\ \/ /\ Len(stack[n].names) < Cardinality(Children(stack[n].key))
               /\ stack'[n].phase = "listing"
               /\ stack'[n].names = Append(stack[n].names,
                    Nth(Children(stack[n].key), Order, Len(stack[n].names)))
               /\ Nth(Children(stack[n].key), Order, Len(stack[n].names))
                    \in Children(stack[n].key)
            \/ /\ Len(stack[n].names) >= Cardinality(Children(stack[n].key))
               /\ stack'[n].phase = "opening" /\ stack'[n].names = stack[n].names
<1>1. pc = "gather" /\ n \in Nat \ {0} /\ n \in 1 .. n
  BY StackType DEF List
<1>2. Top = stack[n] /\ Top \in Frames /\ Top.key \in Keys /\ Top.names \in Seq(Keys)
  BY <1>1, TopIsFrame DEF Top
<1>3. Top.phase = "listing" /\ Len(Top.names) \in Nat
  BY <1>2, LenProperties DEF List
<1>4. CASE /\ Len(Top.names) < Cardinality(Children(Top.key))
           /\ stack' = ReplaceTop([Top EXCEPT
                !.names = Append(@, Nth(Children(Top.key), Order, Len(Top.names)))])
  <2> DEFINE c == Nth(Children(Top.key), Order, Len(Top.names))
             fr == [Top EXCEPT !.names = Append(@, c)]
  <2>1. c \in Children(Top.key) /\ c \in Keys
    BY <1>3, <1>4, ListedIsChild, ChildrenFinite
  <2>2. Append(Top.names, c) \in Seq(Keys)
    BY <1>2, <2>1, AppendProperties
  <2>3. /\ fr \in Frames /\ fr.key = Top.key /\ fr.phase = "listing"
        /\ fr.names = Append(Top.names, c)
    BY <1>2, <1>3, <2>2 DEF Frames
  <2>4. /\ stack' \in Seq(Frames) /\ Len(stack') = Len(stack)
        /\ \A f \in 1 .. Len(stack) : stack'[f] = IF f = Len(stack) THEN fr ELSE stack[f]
    BY <1>1, <1>4, <2>3, ReplacedTop
  <2>5. stack'[n] = fr
    BY <1>1, <2>4
  <2>6. QED BY <1>1, <1>2, <1>3, <1>4, <2>1, <2>3, <2>4, <2>5
<1>5. CASE /\ Len(Top.names) >= Cardinality(Children(Top.key))
           /\ stack' = ReplaceTop([Top EXCEPT !.phase = "opening"])
  <2> DEFINE fr == [Top EXCEPT !.phase = "opening"]
  <2>1. /\ fr \in Frames /\ fr.key = Top.key /\ fr.phase = "opening"
        /\ fr.names = Top.names
    BY <1>2 DEF Frames
  <2>2. /\ stack' \in Seq(Frames) /\ Len(stack') = Len(stack)
        /\ \A f \in 1 .. Len(stack) : stack'[f] = IF f = Len(stack) THEN fr ELSE stack[f]
    BY <1>1, <1>5, <2>1, ReplacedTop
  <2>3. stack'[n] = fr
    BY <1>1, <2>2
  <2>4. QED BY <1>1, <1>2, <1>3, <1>5, <2>1, <2>2, <2>3
<1>6. QED BY <1>1, <1>4, <1>5 DEF List, Return

\* What a successful open leaves: the caller has one name fewer, and a
\* call for that name has begun.
LEMMA OpenStep ==
  ASSUME TypeOK, Open, pc' = "gather", NEW n, n = Len(stack)
  PROVE  /\ n \in Nat \ {0} /\ stack' \in Seq(Frames) /\ Len(stack') = n + 1
         /\ Len(stack) + Len(under) <= MaxFds
         /\ stack[n] \in Frames /\ stack[n].phase = "opening"
         /\ stack[n].names # <<>> /\ Head(stack[n].names) \in Visible
         /\ \A f \in 1 .. n : f # n => stack'[f] = stack[f]
         /\ stack'[n].key = stack[n].key /\ stack'[n].phase = "opening"
         /\ stack'[n].names = Tail(stack[n].names)
         /\ stack'[n + 1] = Frame(Head(stack[n].names))
<1>1. pc = "gather" /\ n \in Nat \ {0} /\ n \in 1 .. n
  BY StackType DEF Open
<1>2. Top = stack[n] /\ Top \in Frames /\ Top.key \in Keys /\ Top.names \in Seq(Keys)
  BY <1>1, TopIsFrame DEF Top
<1>3. /\ Top.phase = "opening" /\ Top.names # <<>> /\ Head(Top.names) \in Visible
      /\ Len(stack) + Len(under) <= MaxFds
      /\ stack' = Append(ReplaceTop([Top EXCEPT !.names = Tail(@)]), Frame(Head(Top.names)))
  BY <1>1 DEF Open, Return
<1> DEFINE fr == [Top EXCEPT !.names = Tail(@)]
           rest == ReplaceTop(fr)
<1>4. Head(Top.names) \in Keys /\ Tail(Top.names) \in Seq(Keys)
  BY <1>2, <1>3, HeadTailProperties
<1>5. /\ fr \in Frames /\ fr.key = Top.key /\ fr.phase = "opening"
      /\ fr.names = Tail(Top.names)
  BY <1>2, <1>3, <1>4 DEF Frames
<1>6. /\ rest \in Seq(Frames) /\ Len(rest) = n
      /\ \A f \in 1 .. n : rest[f] = IF f = n THEN fr ELSE stack[f]
  BY <1>1, <1>5, ReplacedTop
<1>7. Frame(Head(Top.names)) \in Frames
  BY <1>4, FrameType
<1> HIDE DEF fr, rest
<1>8. stack' = Append(rest, Frame(Head(Top.names)))
  BY <1>3 DEF rest, fr
<1>9. /\ stack' \in Seq(Frames) /\ Len(stack') = n + 1
      /\ \A f \in 1 .. n : stack'[f] = rest[f]
      /\ stack'[n + 1] = Frame(Head(Top.names))
  BY <1>6, <1>7, <1>8, AppendProperties
<1>10. stack'[n] = fr
  BY <1>1, <1>6, <1>9
<1>11. QED BY <1>1, <1>2, <1>3, <1>5, <1>6, <1>9, <1>10

\* What the end of a call of gather leaves: the calls outside it, and the
\* key as the last one gathered.
LEMMA GatheredStep ==
  ASSUME TypeOK, Gathered, NEW n, n = Len(stack)
  PROVE  /\ n \in Nat \ {0} /\ stack' \in Seq(Frames) /\ Len(stack') = n - 1
         /\ stack[n] \in Frames /\ stack[n].phase = "opening" /\ stack[n].names = <<>>
         /\ \A f \in 1 .. n - 1 : stack'[f] = stack[f]
         /\ \/ n = 1 /\ pc' = "delete" /\ under' = under
            \/ /\ n > 1 /\ pc' = "gather"
               /\ under' \in Seq(Keys) /\ Len(under') = Len(under) + 1
               /\ under'[Len(under) + 1] = stack[n].key
               /\ \A u \in 1 .. Len(under) : under'[u] = under[u]
<1>1. pc = "gather" /\ n \in Nat \ {0} /\ stack \in Seq(Frames) /\ stack # <<>>
  BY StackType, EmptySeq DEF Gathered
<1>2. Top = stack[n] /\ Top \in Frames /\ Top.key \in Keys
  BY <1>1, TopIsFrame DEF Top
<1>3. /\ stack' \in Seq(Frames) /\ Len(stack') = n - 1
      /\ \A f \in 1 .. n - 1 : stack'[f] = stack[f]
  BY <1>1, Fronted DEF Gathered
<1>4. under \in Seq(Keys)
  BY DEF TypeOK
<1>5. CASE n > 1 /\ under' = Append(under, Top.key)
  BY <1>1, <1>2, <1>3, <1>4, <1>5, AppendProperties DEF Gathered
<1>6. CASE n = 1
  BY <1>1, <1>2, <1>3, <1>6 DEF Gathered
<1>7. QED BY <1>5, <1>6 DEF Gathered

(* A step of gather that does not stay in it returns an error. *)
LEMMA GatherEnds ==
  ASSUME pc = "gather", List \/ Open, pc' # "gather"
  PROVE  /\ pc' = "returned" /\ UNCHANGED stack
         /\ \E a \in {"ETIMEDOUT", "EINVAL", "ENOENT", "EMFILE"} :
              result' = [answer |-> a, count |-> 0]
BY DEF List, Open, Return

(* What a call of delete_key changes keeps its type. *)
LEMMA RefusalType ==
  ASSUME NEW k
  PROVE  Refusal(k) \in {"ETIMEDOUT", "ENOMEM", "ENOENT", "ENOTEMPTY", "none"}
BY DEF Refusal

(* What is so of the transaction at each point of the call.                *)
TxnInv ==
    /\ txn # "active" => staged = {}
    /\ txn = "none" => ~wrote
    /\ txn \notin {"none", "committed"} => deleted = {}
    /\ pc = "gather" => staged = {} /\ deleted = {}
    /\ txn \in {"committed", "aborted"} => pc = "returned"
    /\ pc # "returned" => result.answer = "pending"
    /\ txn = "committed" => result.answer = "ok"

\* The call starts with a well-typed state and nothing staged.
LEMMA TypeInit == Init => TypeOK /\ TxnInv
<1> SUFFICES ASSUME Init PROVE TypeOK /\ TxnInv
  OBVIOUS
<1>1. stack \in Seq(Frames) /\ stack # <<>> /\ Len(stack) = 1
  BY FrameType, DeleteTreeAssumption DEF Init
<1>2. MaxFds \in Nat /\ elsewhere \subseteq Keys
  BY DeleteTreeAssumption DEF Init
<1>3. QED BY <1>1, <1>2 DEF Init, TypeOK, TxnInv, Frames

\* TxnInv holds at every step.
LEMMA TxnStep == TypeOK /\ TxnInv /\ [Next]_vars => TxnInv'
<1> SUFFICES ASSUME TypeOK, TxnInv, [Next]_vars PROVE TxnInv'
  OBVIOUS
<1> USE DEF TxnInv
<1>1. CASE List \/ Open
  BY <1>1 DEF List, Open, Return
<1>2. CASE Gathered
  BY <1>2 DEF Gathered
<1>3. CASE DeleteUnder
  BY <1>3, RefusalType DEF DeleteUnder, Return, Refusal, delete_key, TypeOK
<1>4. CASE DeleteRoot
  BY <1>4, RefusalType DEF DeleteRoot, Return, Refusal, delete_key, TypeOK
<1>5. CASE Commit \/ Abort
  BY <1>5 DEF Commit, Abort
<1>6. CASE Timeout
  BY <1>6 DEF Timeout, Waits
<1>7. ASSUME NEW k \in Keys, ForeignCreate(k) \/ ForeignDelete(k) PROVE TxnInv'
  BY <1>7 DEF ForeignCreate, ForeignDelete
<1>8. CASE UNCHANGED vars
  BY <1>8 DEF vars
<1>9. CASE CallFails
  BY <1>9 DEF CallFails, Return
<1>10. QED
  BY <1>1, <1>2, <1>3, <1>4, <1>5, <1>6, <1>7, <1>8, <1>9
  DEF Next, delete_tree, Others, Over

\* TypeOK holds at every step: a key is opened only while a descriptor
\* is free, and a deletion changes only keys that exist.
LEMMA TypeStep == TypeOK /\ TxnInv /\ [Next]_vars => TypeOK'
<1> SUFFICES ASSUME TypeOK, TxnInv, [Next]_vars PROVE TypeOK'
  OBVIOUS
<1>0. MaxFds \in Nat
  BY DeleteTreeAssumption
<1>1. CASE pc = "gather" /\ List /\ pc' = "gather"
  <2>1. stack' \in Seq(Frames) /\ Len(stack') = Len(stack) /\ Len(stack) # 0
    BY <1>1, ListStep
  <2>2. stack' # <<>>
    BY <2>1, EmptySeq
  <2>3. UNCHANGED result
    BY <1>1 DEF List, Return
  <2>4. QED BY <1>1, <2>1, <2>2, <2>3 DEF List, TypeOK, Frames
<1>2. CASE pc = "gather" /\ Open /\ pc' = "gather"
  <2>1. /\ stack' \in Seq(Frames) /\ Len(stack') = Len(stack) + 1 /\ Len(stack) \in Nat
        /\ Len(stack) + Len(under) <= MaxFds
    BY <1>2, OpenStep
  <2>2. stack' # <<>>
    BY <2>1, EmptySeq
  <2>3. UNCHANGED result
    BY <1>2 DEF Open, Return
  <2>4. Len(under) \in Nat
    BY LenProperties DEF TypeOK
  <2>5. Len(stack') + Len(under) <= MaxFds + 1
    BY <1>0, <2>1, <2>4
  <2>6. QED BY <1>2, <2>1, <2>2, <2>3, <2>5 DEF Open, TypeOK, Frames
<1>3. CASE (List \/ Open) /\ pc' # "gather"
  <2>1. pc = "gather"
    BY <1>3 DEF List, Open
  <2>2. /\ UNCHANGED <<live, elsewhere, txn, wrote, staged, deleted, foreign, under, next>>
        /\ UNCHANGED stack /\ pc' = "returned"
    BY <1>3, <2>1, GatherEnds DEF List, Open
  <2>3. result' \in [answer : {"pending", "ok", "EINVAL", "ENOENT", "EMFILE",
                               "ETIMEDOUT", "ENOMEM", "ENOTEMPTY", "EIO"}, count : Nat]
    BY <1>3, <2>1, GatherEnds
  <2>4. QED BY <2>2, <2>3 DEF TypeOK
<1>4. CASE Gathered
  <2>1. /\ Len(stack) \in Nat \ {0} /\ stack' \in Seq(Frames)
        /\ Len(stack') = Len(stack) - 1
    BY <1>4, GatheredStep
  <2>2. Len(under) \in Nat /\ Len(stack) + Len(under) <= MaxFds + 1 /\ under \in Seq(Keys)
    BY LenProperties DEF TypeOK
  <2>3. CASE Len(stack) = 1 /\ pc' = "delete" /\ under' = under
    <3>1. Len(stack') + Len(under') <= MaxFds + 1
      BY <1>0, <2>1, <2>2, <2>3
    <3>2. QED BY <1>4, <2>1, <2>3, <3>1 DEF Gathered, TypeOK, Frames
  <2>4. CASE /\ Len(stack) > 1 /\ pc' = "gather"
             /\ under' \in Seq(Keys) /\ Len(under') = Len(under) + 1
    <3> DEFINE a == Len(stack)  b == Len(under)
    <3>0. a \in Nat /\ b \in Nat /\ a > 1 /\ a + b <= MaxFds + 1
      BY <2>1, <2>2, <2>4
    <3>1. Len(stack') + Len(under') <= MaxFds + 1 /\ Len(stack') # 0
      <4>1. Len(stack') = a - 1 /\ Len(under') = b + 1
        BY <2>1, <2>4
      <4> HIDE DEF a, b
      <4>2. QED BY <1>0, <3>0, <4>1
    <3>2. stack' # <<>>
      BY <2>1, <3>1, EmptySeq
    <3>3. next' \in 0 .. Len(under')
      BY <1>4, <2>2, <2>4 DEF Gathered, TypeOK
    <3>4. QED BY <1>4, <2>1, <2>4, <3>1, <3>2, <3>3 DEF Gathered, TypeOK, Frames
  <2>5. QED BY <1>4, <2>3, <2>4, GatheredStep
<1>5. CASE DeleteUnder
  <2>1. next + 1 \in 1 .. Len(under) /\ under[next + 1] \in Keys
    BY <1>5, LenProperties, ElementOfSeq DEF DeleteUnder, TypeOK
  <2>2. CASE Refusal(under[next + 1]) = "none"
    <3>1. under[next + 1] \in live
      BY <2>2 DEF Refusal, Entries
    <3>2. live' \subseteq Keys /\ staged' \subseteq live' /\ deleted' \subseteq Keys
      BY <1>5, <2>1, <2>2, <3>1 DEF DeleteUnder, delete_key, TypeOK, TxnInv
    <3>3. QED BY <1>5, <2>1, <2>2, <3>2 DEF DeleteUnder, TypeOK
  <2>3. CASE Refusal(under[next + 1]) # "none"
    BY <1>5, <2>3, RefusalType DEF DeleteUnder, Return, TypeOK
  <2>4. QED BY <2>2, <2>3
<1>6. CASE DeleteRoot
  <2>1. Len(under) + 1 \in Nat /\ Root \in Keys
    BY LenProperties, DeleteTreeAssumption DEF TypeOK
  <2>2. CASE Refusal(Root) = "none"
    <3>1. Root \in live
      BY <2>2 DEF Refusal, Entries
    <3>2. live' \subseteq Keys /\ staged' \subseteq live' /\ deleted' \subseteq Keys
      BY <1>6, <2>1, <2>2, <3>1 DEF DeleteRoot, delete_key, TypeOK, TxnInv
    <3>3. QED BY <1>6, <2>1, <2>2, <3>2 DEF DeleteRoot, Return, TypeOK
  <2>3. CASE Refusal(Root) # "none"
    BY <1>6, <2>3, RefusalType DEF DeleteRoot, Return, TypeOK
  <2>4. QED BY <2>2, <2>3
<1>7. CASE Commit \/ Abort \/ Timeout
  BY <1>7 DEF Commit, Abort, Timeout, TypeOK
<1>8. ASSUME NEW k \in Keys, ForeignCreate(k) PROVE TypeOK'
  <2>1. \A o \in {"create", "delete"}, l \in {"layer", "other"} :
          <<o, l, k>> \in {"create", "delete"} \X {"layer", "other"} \X Keys
    OBVIOUS
  <2>2. /\ live' \subseteq Keys /\ staged' \subseteq live' /\ elsewhere' \subseteq Keys
        /\ foreign' \subseteq {"create", "delete"} \X {"layer", "other"} \X Keys
    BY <1>8, <2>1 DEF ForeignCreate, TypeOK
  <2>3. QED BY <1>8, <2>2 DEF ForeignCreate, TypeOK
<1>9. ASSUME NEW k \in Keys, ForeignDelete(k) PROVE TypeOK'
  <2>1. staged = {}
    BY <1>9 DEF ForeignDelete, Free, Waits, TxnInv
  <2>2. \A o \in {"create", "delete"}, l \in {"layer", "other"} :
          <<o, l, k>> \in {"create", "delete"} \X {"layer", "other"} \X Keys
    OBVIOUS
  <2>3. QED BY <1>9, <2>1, <2>2 DEF ForeignDelete, TypeOK
<1>10. CASE UNCHANGED vars
  BY <1>10 DEF vars, TypeOK
<1>11. pc = "gather" \/ ~(List \/ Open)
  BY DEF List, Open
<1>12. CASE CallFails
  BY <1>12 DEF CallFails, Return, TypeOK
<1>13. QED
  BY <1>1, <1>2, <1>3, <1>4, <1>5, <1>6, <1>7, <1>8, <1>9, <1>10, <1>11, <1>12
  DEF Next, delete_tree, Others, Over

(* TypeOK.  Others delete nothing that is staged, for they wait while      *)
(* anything is, and only an open transaction holds anything staged.        *)
THEOREM TypeCorrect == Spec => []TypeOK
<1>1. Spec => [](TypeOK /\ TxnInv)
  BY TypeInit, TypeStep, TxnStep, PTL DEF Spec
<1>2. QED BY <1>1, PTL

-----------------------------------------------------------------------------
(* The keys gathered, being gathered and listed are keys under this one.   *)
WalkInv ==
    /\ \A u \in 1 .. Len(under) : under[u] \in Under
    /\ pc = "gather" => stack[1].key = Root
    /\ \A f \in 1 .. Len(stack) : f # 1 => stack[f].key \in Under
    /\ \A f \in 1 .. Len(stack) : \A n \in 1 .. Len(stack[f].names) :
         Parent[stack[f].names[n]] = stack[f].key

\* A key whose parent is in the tree is under this key.
LEMMA UnderParent == ASSUME NEW k \in Keys, Parent[k] \in Tree PROVE k \in Under
BY DeleteTreeAssumption DEF Tree

\* WalkInv holds at every step: the walk goes from a key to its children
\* only.
LEMMA WalkStep ==
  ASSUME TypeOK, TxnInv, WalkInv, [Next]_vars
  PROVE  WalkInv'
<1> DEFINE n == Len(stack)
<1>0. under \in Seq(Keys) /\ Len(under) \in Nat
  BY LenProperties DEF TypeOK
<1>1. CASE List /\ pc' = "gather"
  <2>1. pc = "gather" /\ under' = under
    BY <1>1 DEF List
  <2>2. /\ n \in Nat \ {0} /\ Len(stack') = n
        /\ stack[n] \in Frames /\ stack'[n].key = stack[n].key
        /\ \A f \in 1 .. n : f # n => stack'[f] = stack[f]
    BY <1>1, ListStep
  <2>3. ASSUME NEW m \in 1 .. Len(stack'[n].names)
        PROVE  Parent[stack'[n].names[m]] = stack'[n].key
    <3> DEFINE c == Nth(Children(stack[n].key), Order, Len(stack[n].names))
    <3>1. stack[n].names \in Seq(Keys) /\ Len(stack[n].names) \in Nat
      BY <2>2, LenProperties DEF Frames
    <3>2. CASE /\ stack'[n].names = Append(stack[n].names, c)
               /\ c \in Children(stack[n].key)
      <4>1. c \in Keys /\ Parent[c] = stack[n].key
        BY <3>2 DEF Children, Visible, Entries, TypeOK
      <4>2. /\ Len(stack'[n].names) = Len(stack[n].names) + 1
            /\ \A i \in 1 .. Len(stack[n].names) : stack'[n].names[i] = stack[n].names[i]
            /\ stack'[n].names[Len(stack[n].names) + 1] = c
        BY <3>1, <3>2, <4>1, AppendProperties
      <4>3. CASE m \in 1 .. Len(stack[n].names)
        BY <2>2, <4>2, <4>3 DEF WalkInv
      <4>4. CASE m = Len(stack[n].names) + 1
        BY <2>2, <4>1, <4>2, <4>4
      <4>5. QED BY <3>1, <4>2, <4>3, <4>4
    <3>3. CASE stack'[n].names = stack[n].names
      BY <2>2, <3>3 DEF WalkInv
    <3>4. QED BY <1>1, <3>2, <3>3, ListStep
  <2>4. \A f \in 1 .. Len(stack') : stack'[f].key = stack[f].key
    BY <2>2
  <2>5. \A f \in 1 .. Len(stack') : \A m \in 1 .. Len(stack'[f].names) :
          Parent[stack'[f].names[m]] = stack'[f].key
    BY <2>2, <2>3 DEF WalkInv
  <2>6. Len(stack') = Len(stack) /\ 1 \in 1 .. Len(stack')
    BY <2>2
  <2>7. \A u \in 1 .. Len(under') : under'[u] \in Under
    BY <2>1 DEF WalkInv
  <2>8. stack'[1].key = Root
    BY <2>1, <2>4, <2>6 DEF WalkInv
  <2>9. \A f \in 1 .. Len(stack') : f # 1 => stack'[f].key \in Under
    BY <2>4, <2>6 DEF WalkInv
  <2>10. QED BY <2>5, <2>7, <2>8, <2>9 DEF WalkInv
<1>2. CASE Open /\ pc' = "gather"
  <2>1. pc = "gather" /\ under' = under
    BY <1>2 DEF Open
  <2> DEFINE k == Head(stack[n].names)
  <2>2. /\ n \in Nat \ {0} /\ Len(stack') = n + 1
        /\ stack[n] \in Frames /\ stack'[n].key = stack[n].key
        /\ stack'[n].names = Tail(stack[n].names) /\ stack'[n + 1] = Frame(k)
        /\ \A f \in 1 .. n : f # n => stack'[f] = stack[f]
        /\ stack[n].names # <<>>
    BY <1>2, OpenStep
  <2>3. stack[n].names \in Seq(Keys) /\ Len(stack[n].names) \in Nat \ {0}
    BY <2>2, EmptySeq DEF Frames
  <2>4. /\ k \in Keys /\ k = stack[n].names[1]
        /\ Len(Tail(stack[n].names)) = Len(stack[n].names) - 1
        /\ \A i \in 1 .. Len(stack[n].names) - 1 :
             Tail(stack[n].names)[i] = stack[n].names[i + 1]
    BY <2>2, <2>3, HeadTailProperties
  <2>5. Parent[k] = stack[n].key
    BY <2>2, <2>3, <2>4 DEF WalkInv
  <2>6. k \in Under
    <3>1. stack[n].key \in Tree
      BY <2>1, <2>2 DEF WalkInv, Tree
    <3>2. QED BY <2>4, <2>5, <3>1, UnderParent
  <2>7. stack'[n + 1].key = k /\ stack'[n + 1].names = <<>>
    BY <2>2 DEF Frame
  <2>8. \A m \in 1 .. Len(stack'[n].names) : Parent[stack'[n].names[m]] = stack'[n].key
    <3> SUFFICES ASSUME NEW m \in 1 .. Len(stack'[n].names)
                 PROVE  Parent[stack'[n].names[m]] = stack'[n].key
      OBVIOUS
    <3>1. m \in 1 .. Len(stack[n].names) - 1 /\ m + 1 \in 1 .. Len(stack[n].names)
      BY <2>2, <2>3, <2>4
    <3>2. QED BY <2>2, <2>4, <3>1 DEF WalkInv
  <2>9. ASSUME NEW f \in 1 .. Len(stack'), f # n, f # n + 1
        PROVE  f \in 1 .. n /\ stack'[f] = stack[f]
    BY <2>2, <2>9
  <2>10. \A f \in 1 .. Len(stack') : f # 1 => stack'[f].key \in Under
    BY <2>2, <2>6, <2>7, <2>9 DEF WalkInv
  <2>11. \A f \in 1 .. Len(stack') : \A m \in 1 .. Len(stack'[f].names) :
           Parent[stack'[f].names[m]] = stack'[f].key
    <3> SUFFICES ASSUME NEW f \in 1 .. Len(stack'), NEW m \in 1 .. Len(stack'[f].names)
                 PROVE  Parent[stack'[f].names[m]] = stack'[f].key
      OBVIOUS
    <3>1. CASE f = n + 1
      <4>1. 1 .. Len(stack'[f].names) = {}
        BY <2>7, <3>1
      <4>2. QED BY <4>1
    <3>2. CASE f = n
      BY <2>8, <3>2
    <3>3. CASE f # n /\ f # n + 1
      BY <2>9, <3>3 DEF WalkInv
    <3>4. QED BY <3>1, <3>2, <3>3
  <2>12. stack'[1].key = Root
    <3>1. 1 \in 1 .. n /\ stack'[1].key = stack[1].key
      BY <2>2
    <3>2. QED BY <2>1, <3>1 DEF WalkInv
  <2>13. QED BY <2>1, <2>10, <2>11, <2>12 DEF WalkInv
<1>3. CASE (List \/ Open) /\ pc' # "gather"
  <2>1. pc = "gather"
    BY <1>3 DEF List, Open
  <2>2. UNCHANGED <<stack, under>> /\ pc' = "returned"
    BY <1>3, <2>1, GatherEnds DEF List, Open
  <2>3. QED BY <2>2 DEF WalkInv
<1>4. CASE Gathered
  <2>1. pc = "gather"
    BY <1>4 DEF Gathered
  <2>2. /\ n \in Nat \ {0} /\ Len(stack') = n - 1
        /\ \A f \in 1 .. n - 1 : stack'[f] = stack[f]
    BY <1>4, GatheredStep
  <2>3. \A f \in 1 .. Len(stack') : f \in 1 .. n /\ stack'[f] = stack[f]
    BY <2>2
  <2>4. CASE n = 1 /\ pc' = "delete" /\ under' = under
    BY <2>3, <2>4 DEF WalkInv
  <2>5. CASE /\ n > 1 /\ Len(under') = Len(under) + 1
             /\ under'[Len(under) + 1] = stack[n].key
             /\ \A u \in 1 .. Len(under) : under'[u] = under[u]
    <3>1. stack[n].key \in Under /\ 1 \in 1 .. Len(stack')
      BY <2>2, <2>5 DEF WalkInv
    <3>2. \A u \in 1 .. Len(under') : under'[u] \in Under
      BY <1>0, <2>5, <3>1 DEF WalkInv
    <3>3. QED BY <2>1, <2>3, <3>1, <3>2 DEF WalkInv
  <2>6. QED BY <1>4, <2>4, <2>5, GatheredStep
<1>5. CASE UNCHANGED <<stack, under>> /\ (pc' = "gather" => pc = "gather")
  BY <1>5 DEF WalkInv
<1>6. QED
  BY <1>1, <1>2, <1>3, <1>4, <1>5
  DEF Next, delete_tree, CallFails, Others, Over, DeleteUnder, DeleteRoot, Return,
      Commit, Abort, Timeout, ForeignCreate, ForeignDelete, vars

\* gather starts at this key.
LEMMA WalkInit == Init => WalkInv
<1> SUFFICES ASSUME Init PROVE WalkInv
  OBVIOUS
<1>1. Len(under) = 0 /\ Len(stack) = 1 /\ stack[1].key = Root /\ Len(stack[1].names) = 0
  BY DEF Init, Frame
<1>2. QED BY <1>1 DEF WalkInv

(* What delete_tree deletes is what it has gathered, and this key. *)
LEMMA TreeStep ==
  ASSUME TypeOK, TxnInv, WalkInv, StaysInTree, [Next]_vars
  PROVE  StaysInTree'
<1>1. CASE DeleteUnder
  <2>1. under[next + 1] \in Tree
    BY <1>1 DEF DeleteUnder, WalkInv, TypeOK, Tree
  <2>2. QED BY <1>1, <2>1 DEF DeleteUnder, delete_key, StaysInTree
<1>2. CASE DeleteRoot
  BY <1>2 DEF DeleteRoot, delete_key, StaysInTree, Tree
<1>3. CASE Commit \/ Abort \/ Timeout
  BY <1>3 DEF Commit, Abort, Timeout, StaysInTree
<1>4. CASE UNCHANGED <<deleted, staged>>
  BY <1>4 DEF StaysInTree
<1>5. QED
  BY <1>1, <1>2, <1>3, <1>4
  DEF Next, delete_tree, CallFails, Others, Over, List, Open, Gathered,
      ForeignCreate, ForeignDelete, vars

\* StaysInTree: delete_tree deletes this key and keys under it only, a
\* symbolic link among them included.
THEOREM StaysUnderThisKey == Spec => []StaysInTree
<1>1. Init => StaysInTree
  BY DEF Init, StaysInTree
<1>2. Spec => [](TypeOK /\ TxnInv /\ WalkInv /\ StaysInTree)
  BY <1>1, TypeInit, TypeStep, TxnStep, WalkInit, WalkStep, TreeStep, PTL DEF Spec
<1>3. QED BY <1>2, PTL

(* Nothing is staged before everything has been opened. *)
THEOREM OpensFirst == Spec => []NeverWaitsForItself
<1>1. Spec => [](TypeOK /\ TxnInv)
  BY TypeInit, TypeStep, TxnStep, PTL DEF Spec
<1>2. TxnInv => NeverWaitsForItself
  BY DEF TxnInv, NeverWaitsForItself, Waits
<1>3. QED BY <1>1, <1>2, PTL

-----------------------------------------------------------------------------
(* A key is there only while the key it is under is, inside the            *)
(* transaction as well, and no entry deleted for good is left.             *)
LiveInv ==
    /\ \A k \in live \union elsewhere : Parent[k] \in live \union elsewhere
    /\ \A k \in Visible : Parent[k] \in Visible
    /\ deleted \intersect live = {}

\* A key that is not refused has an entry in the layer and no children.
LEMMA NoneRefused ==
  ASSUME NEW k, Refusal(k) = "none"
  PROVE  /\ txn # "timed_out" /\ k \in Entries /\ k \in Visible
         /\ Children(k) = {}
BY DEF Refusal, Visible

\* delete_key of such a key takes its entry out of the layer, and leaves
\* every other key with its parent.
LEMMA LiveDeleted ==
  ASSUME TypeOK, TxnInv, LiveInv, pc = "delete", NEW k \in Keys,
         Refusal(k) = "none", delete_key(k, txn), elsewhere' = elsewhere
  PROVE  LiveInv' /\ Entries' = Entries \ {k} /\ Visible' = Entries' \union elsewhere
<1>1. txn # "timed_out" /\ k \in Entries /\ \A c \in Visible : Parent[c] # k
  BY NoneRefused DEF Children
<1>2. CASE txn = "none"
  <2>1. /\ live' = live \ {k} /\ deleted' = deleted \union {k} /\ staged' = staged
        /\ staged = {}
    BY <1>2 DEF delete_key, TxnInv
  <2>2. QED BY <1>1, <2>1 DEF LiveInv, Visible, Entries
<1>3. CASE txn # "none"
  <2>1. live' = live /\ deleted' = deleted /\ staged' = staged \union {k}
    BY <1>3 DEF delete_key
  <2>2. QED BY <1>1, <2>1 DEF LiveInv, Visible, Entries
<1>4. QED BY <1>2, <1>3

\* LiveInv holds at every step, those of other clients included.
LEMMA LiveStep ==
  ASSUME TypeOK, TxnInv, WalkInv, LiveInv, [Next]_vars
  PROVE  LiveInv'
<1>1. CASE DeleteUnder
  <2>1. /\ next + 1 \in 1 .. Len(under) /\ under[next + 1] \in Keys /\ pc = "delete"
        /\ elsewhere' = elsewhere
    BY <1>1, LenProperties, ElementOfSeq DEF DeleteUnder, TypeOK
  <2>2. CASE Refusal(under[next + 1]) = "none"
    BY <1>1, <2>1, <2>2, LiveDeleted DEF DeleteUnder
  <2>3. CASE Refusal(under[next + 1]) # "none"
    BY <1>1, <2>3 DEF DeleteUnder, LiveInv, Visible, Entries
  <2>4. QED BY <2>2, <2>3
<1>2. CASE DeleteRoot
  <2>1. pc = "delete" /\ Root \in Keys /\ elsewhere' = elsewhere
    BY <1>2, DeleteTreeAssumption DEF DeleteRoot
  <2>2. CASE Refusal(Root) = "none"
    BY <1>2, <2>1, <2>2, LiveDeleted DEF DeleteRoot
  <2>3. CASE Refusal(Root) # "none"
    BY <1>2, <2>3 DEF DeleteRoot, LiveInv, Visible, Entries
  <2>4. QED BY <2>2, <2>3
<1>3. CASE Commit
  BY <1>3 DEF Commit, LiveInv, Visible, Entries
<1>4. CASE Abort \/ Timeout
  BY <1>4 DEF Abort, Timeout, LiveInv, Visible, Entries
<1>5. ASSUME NEW k \in Keys, ForeignCreate(k) PROVE LiveInv'
  <2>1. staged = {} /\ staged' = {}
    BY <1>5 DEF ForeignCreate, Free, Waits, TxnInv
  <2>2. QED BY <1>5, <2>1 DEF ForeignCreate, LiveInv, Visible, Entries
<1>6. ASSUME NEW k \in Keys, ForeignDelete(k) PROVE LiveInv'
  <2>1. staged = {} /\ staged' = {}
    BY <1>6 DEF ForeignDelete, Free, Waits, TxnInv
  <2>2. \A c \in live \union elsewhere : Parent[c] # k
    BY <1>6, <2>1 DEF ForeignDelete, Children, Visible, Entries
  <2>3. QED BY <1>6, <2>1, <2>2 DEF ForeignDelete, LiveInv, Visible, Entries
<1>7. CASE UNCHANGED <<live, elsewhere, staged, deleted>>
  BY <1>7 DEF LiveInv, Visible, Entries
<1>8. QED
  BY <1>1, <1>2, <1>3, <1>4, <1>5, <1>6, <1>7
  DEF Next, delete_tree, CallFails, Others, Over, List, Open, Gathered, vars

(* When nothing visible has this key for its parent and its parents are    *)
(* visible, nothing under it is visible: a topmost one would be its child. *)
LEMMA ChildlessIsAlone ==
  ASSUME TypeOK, LiveInv, Children(Root) = {}
  PROVE  Visible \intersect Under = {}
<1> DEFINE S == Visible \intersect Under
<1> SUFFICES ASSUME S # {} PROVE FALSE
  OBVIOUS
<1>1. PICK k \in S : Parent[k] \notin S
  BY DeleteTreeAssumption
<1>2. k \in Keys /\ k \in Visible /\ Parent[k] \in Visible
  BY DEF LiveInv, Visible, Entries, TypeOK
<1>3. Parent[k] \in Under \union {Root}
  BY <1>2, DeleteTreeAssumption
<1>4. Parent[k] = Root
  BY <1>1, <1>2, <1>3
<1>5. QED BY <1>2, <1>4 DEF Children

(* Every deletion so far has been counted, and none twice.                 *)
CountInv ==
    /\ pc = "gather" => next = 0
    /\ pc = "delete" /\ txn # "timed_out" => Cardinality(deleted \union staged) = next

\* The keys deleted or staged can be counted.
LEMMA DeletedFinite ==
  ASSUME TypeOK
  PROVE  /\ deleted \union staged \in SUBSET Keys /\ IsFiniteSet(deleted \union staged)
         /\ Cardinality(deleted \union staged) \in Nat
<1>1. deleted \union staged \in SUBSET Keys
  BY DEF TypeOK
<1>2. IsFiniteSet(deleted \union staged)
  BY <1>1, FS_Subset, DeleteTreeAssumption
<1>3. QED BY <1>1, <1>2, FS_CardinalityType

\* A deletion makes one key more deleted or staged.
LEMMA CountDeleted ==
  ASSUME TypeOK, LiveInv, NEW k, Refusal(k) = "none", delete_key(k, txn)
  PROVE  /\ (deleted \union staged)' = (deleted \union staged) \union {k}
         /\ Cardinality((deleted \union staged)') = Cardinality(deleted \union staged) + 1
<1>1. k \in Entries
  BY NoneRefused
<1>2. k \notin deleted \union staged
  BY <1>1 DEF LiveInv, Entries
<1>3. (deleted \union staged)' = (deleted \union staged) \union {k}
  BY DEF delete_key
<1>4. QED BY <1>2, <1>3, DeletedFinite, FS_AddElement

\* CountInv holds at every step.
LEMMA CountStep ==
  ASSUME TypeOK, TxnInv, LiveInv, CountInv, [Next]_vars
  PROVE  CountInv'
<1>1. CASE Gathered
  <2>1. (deleted \union staged)' = {} /\ next' = 0
    BY <1>1 DEF Gathered, TxnInv, CountInv
  <2>2. Cardinality((deleted \union staged)') = 0
    BY <2>1, FS_EmptySet
  <2>3. QED BY <2>1, <2>2 DEF CountInv
<1>2. CASE DeleteUnder
  <2>1. CASE Refusal(under[next + 1]) = "none"
    <3>1. /\ delete_key(under[next + 1], txn) /\ next' = next + 1
          /\ txn' = txn /\ pc = "delete"
      BY <1>2, <2>1 DEF DeleteUnder
    <3>2. Cardinality(deleted \union staged) = next
      BY <2>1, <3>1, NoneRefused DEF CountInv
    <3>3. Cardinality((deleted \union staged)') = next + 1
      BY <2>1, <3>1, <3>2, CountDeleted
    <3>4. pc' = "delete"
      BY <1>2, <2>1 DEF DeleteUnder
    <3>5. QED BY <3>1, <3>3, <3>4 DEF CountInv
  <2>2. CASE Refusal(under[next + 1]) # "none"
    BY <1>2, <2>2 DEF DeleteUnder, Return, CountInv
  <2>3. QED BY <2>1, <2>2
<1>3. CASE pc' = "returned"
  BY <1>3 DEF CountInv
<1>4. CASE Timeout
  BY <1>4 DEF Timeout, CountInv
<1>5. CASE /\ UNCHANGED <<deleted, staged, next, txn>>
           /\ (pc' = "delete" => pc = "delete") /\ (pc' = "gather" => pc = "gather")
  BY <1>5 DEF CountInv
<1>6. QED
  BY <1>1, <1>2, <1>3, <1>4, <1>5
  DEF Next, delete_tree, CallFails, Others, Over, List, Open, DeleteRoot, Return,
      Commit, Abort, ForeignCreate, ForeignDelete, vars

(* At the end of the call the layer has nothing of the tree, and nothing   *)
(* under this key shows through from another.                              *)
OkInv ==
    result.answer = "ok" /\ txn \notin {"timed_out", "aborted"} =>
        /\ result.count = Cardinality(deleted \union staged)
        /\ Entries \intersect Tree = {} /\ Visible \intersect Under = {}
        /\ Root \in deleted \union staged

\* OkInv holds at every step: at the last deletion nothing is visible under
\* this key, and until the commit the others wait.
LEMMA OkStep ==
  ASSUME TypeOK, TxnInv, WalkInv, LiveInv, CountInv, OkInv, [Next]_vars
  PROVE  OkInv'
<1>1. CASE DeleteRoot
  <2>1. CASE Refusal(Root) = "none"
    <3>1. /\ delete_key(Root, txn) /\ txn' = txn /\ pc = "delete"
          /\ result' = [answer |-> "ok", count |-> Len(under) + 1]
          /\ next = Len(under) /\ Root \in Keys /\ elsewhere' = elsewhere
      BY <1>1, <2>1, DeleteTreeAssumption DEF DeleteRoot, Return
    <3>2. /\ Cardinality((deleted \union staged)') = Len(under) + 1
          /\ Root \in (deleted \union staged)'
      BY <2>1, <3>1, NoneRefused, CountDeleted, ZenonT(40) DEF CountInv
    <3>3. Entries' \intersect Tree = {} /\ Visible' \intersect Under = {}
      <4>1. Visible \intersect Under = {}
        BY <2>1, NoneRefused, ChildlessIsAlone
      <4>2. Entries' = Entries \ {Root} /\ Visible' = Entries' \union elsewhere
        BY <2>1, <3>1, LiveDeleted
      <4>3. QED BY <4>1, <4>2 DEF Tree, Visible
    <3>4. QED BY <3>1, <3>2, <3>3 DEF OkInv
  <2>2. CASE Refusal(Root) # "none"
    <3>1. result'.answer # "ok"
      BY <1>1, <2>2, RefusalType DEF DeleteRoot, Return
    <3>2. QED BY <3>1 DEF OkInv
  <2>3. QED BY <2>1, <2>2
<1>2. CASE List \/ Open \/ Gathered \/ DeleteUnder
  <2>1. pc # "returned" /\ result.answer = "pending"
    BY <1>2 DEF List, Open, Gathered, DeleteUnder, TxnInv
  <2>2. CASE DeleteUnder
    <3>1. result'.answer # "ok"
      BY <2>1, <2>2, RefusalType DEF DeleteUnder, Return
    <3>2. QED BY <3>1 DEF OkInv
  <2>3. CASE List \/ Open \/ Gathered
    <3>1. result'.answer # "ok"
      BY <2>1, <2>3 DEF List, Open, Gathered, Return
    <3>2. QED BY <3>1 DEF OkInv
  <2>4. QED BY <1>2, <2>2, <2>3
<1>3. CASE Commit
  <2>1. CASE txn' = "aborted"
    BY <2>1 DEF OkInv
  <2>2. CASE /\ txn' = "committed" /\ live' = live \ staged
             /\ deleted' = deleted \union staged /\ staged' = {}
    <3>1. /\ result' = result /\ txn \notin {"timed_out", "aborted"}
          /\ (deleted \union staged)' = deleted \union staged
          /\ Visible' = Visible /\ Entries' = Entries
      BY <1>3, <2>2 DEF Commit, Visible, Entries
    <3>2. QED BY <3>1 DEF OkInv
  <2>3. QED BY <1>3, <2>1, <2>2 DEF Commit
<1>4. CASE Abort \/ Timeout
  BY <1>4 DEF Abort, Timeout, OkInv
<1>5. ASSUME NEW k \in Keys, ForeignCreate(k) \/ ForeignDelete(k) PROVE OkInv'
  <2>1. /\ UNCHANGED <<txn, result>> /\ ~Waits
        /\ ~(pc = "returned" /\ txn # "active")
    BY <1>5 DEF ForeignCreate, ForeignDelete, Free
  <2>2. ASSUME result.answer = "ok", txn \notin {"timed_out", "aborted"} PROVE FALSE
    <3>1. pc = "returned" /\ txn = "active"
      BY <2>1, <2>2 DEF TxnInv
    <3>2. staged = {} /\ deleted = {}
      BY <2>1, <3>1 DEF Waits, TxnInv
    <3>3. QED BY <2>2, <3>2 DEF OkInv
  <2>3. QED BY <2>1, <2>2 DEF OkInv
<1>6. CASE UNCHANGED vars
  BY <1>6 DEF vars, OkInv, Visible, Entries
<1>7. CASE CallFails
  BY <1>7 DEF CallFails, Return, OkInv
<1>8. QED
  BY <1>1, <1>2, <1>3, <1>4, <1>5, <1>6, <1>7
  DEF Next, delete_tree, Others, Over

TreeInv == TypeOK /\ TxnInv /\ WalkInv /\ LiveInv /\ CountInv /\ OkInv

\* The invariants together hold in every reachable state.
LEMMA TreeInvCorrect == Spec => []TreeInv
<1>1. Init => LiveInv
  BY DEF Init, LiveInv, Visible, Entries
<1>2. Init => CountInv /\ OkInv
  BY DEF Init, CountInv, OkInv
<1>3. Init => TreeInv
  BY <1>1, <1>2, TypeInit, WalkInit DEF TreeInv
<1>4. TreeInv /\ [Next]_vars => TreeInv'
  BY TypeStep, TxnStep, WalkStep, LiveStep, CountStep, OkStep DEF TreeInv
<1>5. QED BY <1>3, <1>4, PTL DEF Spec

\* OkMeansGone: Ok(n) means that n keys are deleted from the layer or staged
\* for it, that the layer has nothing of the tree left, and that no layer
\* shows anything under this key.
THEOREM OkLeavesNothing == Spec => []OkMeansGone
<1>1. TreeInv => OkMeansGone
  BY DEF TreeInv, OkInv, OkMeansGone
<1>2. QED BY <1>1, TreeInvCorrect, PTL

\* AllOrNothing: a transaction that is over has deleted nothing, or all that
\* the layer had of the tree, with nothing under this key in any other.
THEOREM TransactionsAreWhole == Spec => []AllOrNothing
<1>1. TreeInv => AllOrNothing
  <2> SUFFICES ASSUME TreeInv PROVE AllOrNothing
    OBVIOUS
  <2>1. CASE txn = "committed"
    <3>1. result.answer = "ok" /\ staged = {}
      BY <2>1 DEF TreeInv, TxnInv
    <3>2. QED BY <2>1, <3>1 DEF TreeInv, OkInv, AllOrNothing, Visible, Entries
  <2>2. CASE txn # "committed"
    BY <2>2 DEF TreeInv, TxnInv, AllOrNothing
  <2>3. QED BY <2>1, <2>2
<1>2. QED BY <1>1, TreeInvCorrect, PTL

-----------------------------------------------------------------------------
(* The keys gathered, and those that a call of gather has yet to open.     *)
GatheredKeys == {under[u] : u \in 1 .. Len(under)}
NamesOf(f) == {stack[f].names[m] : m \in 1 .. Len(stack[f].names)}

(* No key is gathered twice, and none before the keys under it.            *)
UnderOnce == \A u, v \in 1 .. Len(under) : under[u] = under[v] => u = v
ChildrenFirst ==
    \A u \in 1 .. Len(under) : \A c \in Children(under[u]) :
        \E v \in 1 .. Len(under) : v < u /\ under[v] = c
\* A key gathered is under another, or under a key still being gathered.
UnderLinks ==
    \A k \in GatheredKeys :
        Parent[k] \in GatheredKeys \/ \E f \in 1 .. Len(stack) : Parent[k] = stack[f].key

(* The active calls of gather are the path from this key to the one being  *)
(* gathered, and only the last is still listing.                           *)
PathKeys == \A f \in 1 .. Len(stack) : stack[f].key \in Visible \ GatheredKeys
PathLinks == \A f \in 1 .. Len(stack) : f # 1 => Parent[stack[f].key] = stack[f - 1].key
PathOnce == \A f, g \in 1 .. Len(stack) : stack[f].key = stack[g].key => f = g
PathPhases == \A f \in 1 .. Len(stack) : f # Len(stack) => stack[f].phase = "opening"

(* The names of each call are children it has not yet opened, each once.   *)
NamesOnce ==
    \A f \in 1 .. Len(stack) : \A m, n \in 1 .. Len(stack[f].names) :
        stack[f].names[m] = stack[f].names[n] => m = n
NamesLeft == \A f \in 1 .. Len(stack) : NamesOf(f) \subseteq Visible \ GatheredKeys
NamesAhead ==
    \A f \in 1 .. Len(stack) : f # Len(stack) => stack[f + 1].key \notin NamesOf(f)

(* A call that is listing has the first of its children, of which none is  *)
(* gathered yet; one that is opening has left out no child.                *)
ListingInv ==
    \A f \in 1 .. Len(stack) : stack[f].phase = "listing" =>
        /\ Len(stack[f].names) <= Cardinality(Children(stack[f].key))
        /\ \A m \in 1 .. Len(stack[f].names) :
             stack[f].names[m] = Nth(Children(stack[f].key), Order, m - 1)
        /\ Children(stack[f].key) \intersect GatheredKeys = {}
OpeningInv ==
    \A f \in 1 .. Len(stack) : stack[f].phase = "opening" =>
        \A c \in Children(stack[f].key) :
            \/ c \in NamesOf(f) \/ c \in GatheredKeys
            \/ f # Len(stack) /\ c = stack[f + 1].key

UnderInv == UnderOnce /\ ChildrenFirst /\ UnderLinks /\ GatheredKeys \subseteq Visible
PathInv == PathKeys /\ PathLinks /\ PathOnce /\ PathPhases
NamesInv == NamesOnce /\ NamesLeft /\ NamesAhead

GatherInv == UnderInv /\ PathInv /\ NamesInv /\ ListingInv /\ OpeningInv

\* What a refusal on a quiet tree comes of: a key of the tree with no entry in
\* the layer from the start, or one under this key with an entry elsewhere.
Missing == \E k \in Tree : k \in elsewhere \ (live \union deleted)
ShowsThrough == elsewhere \intersect Under # {}

(* While the keys gathered are being deleted, those deleted are the ones   *)
(* whose turn has come, and the others are all still visible.              *)
DeletionInv ==
    /\ UnderOnce /\ ChildrenFirst
    /\ \A u \in 1 .. Len(under) : under[u] \in deleted \union staged <=> u <= next
    /\ \A u \in 1 .. Len(under) : u > next => under[u] \in Visible
    /\ Children(Root) \subseteq GatheredKeys
    /\ Root \in Visible /\ Root \notin deleted \union staged

QuietInv ==
    foreign = {} =>
        /\ pc = "gather" => GatherInv
        /\ pc = "delete" /\ txn # "timed_out" => DeletionInv
        /\ result.answer = "ENOENT" => Missing
        /\ result.answer = "ENOTEMPTY" => ShowsThrough

\* What depends only on the keys there are and on those gathered.
LEMMA SameKeys ==
  ASSUME UNCHANGED <<live, elsewhere, staged, under>>
  PROVE  /\ Visible' = Visible /\ (\A k : Children(k)' = Children(k))
         /\ GatheredKeys' = GatheredKeys
         /\ UnderOnce' = UnderOnce /\ ChildrenFirst' = ChildrenFirst
BY DEF Visible, Entries, Children, GatheredKeys, UnderOnce, ChildrenFirst

\* No child key is listed at two positions.
LEMMA ListsOnce ==
  ASSUME TypeOK, NEW k,
         NEW i \in 0 .. Cardinality(Children(k)) - 1,
         NEW j \in 0 .. Cardinality(Children(k)) - 1,
         Nth(Children(k), Order, i) = Nth(Children(k), Order, j)
  PROVE  i = j
<1>1. Orders(Order, Children(k)) /\ IsFiniteSet(Children(k))
  BY ChildrenFinite, OrderOrders
<1>2. QED BY <1>1, NthAtPosition

\* Every child key is listed at some position.
LEMMA ListsAll ==
  ASSUME TypeOK, NEW k, NEW c \in Children(k)
  PROVE  \E i \in 0 .. Cardinality(Children(k)) - 1 : Nth(Children(k), Order, i) = c
<1>1. Orders(Order, Children(k)) /\ IsFiniteSet(Children(k))
  BY ChildrenFinite, OrderOrders
<1>2. /\ Position(Children(k), Order, c) \in 0 .. Cardinality(Children(k)) - 1
      /\ Nth(Children(k), Order, Position(Children(k), Order, c)) = c
  BY <1>1, PositionsOrdered, NthOfPosition
<1>3. QED BY <1>2

\* GatherInv over a step of the Subkeys iterator.
LEMMA QuietList ==
  ASSUME TreeInv, GatherInv, List, pc' = "gather"
  PROVE  GatherInv'
<1> SUFFICES ASSUME NEW n, n = Len(stack), NEW k, k = stack[n].key,
                    NEW l, l = Len(stack[n].names),
                    NEW c, c = Nth(Children(k), Order, l)
             PROVE  GatherInv'
  OBVIOUS
<1>0. TypeOK
  BY DEF TreeInv
<1>1. /\ n \in Nat \ {0} /\ Len(stack') = n
      /\ stack[n] \in Frames /\ stack[n].phase = "listing"
      /\ stack'[n].key = k
      /\ \A f \in 1 .. n : f # n => stack'[f] = stack[f]
  BY <1>0, ListStep
<1>2. n \in 1 .. n /\ \A f \in 1 .. n : stack'[f].key = stack[f].key
  BY <1>1
<1>3. /\ Visible' = Visible /\ \A x : Children(x)' = Children(x)
      /\ GatheredKeys' = GatheredKeys
      /\ UnderOnce' = UnderOnce /\ ChildrenFirst' = ChildrenFirst
  BY SameKeys DEF List
<1>4. \A f \in 1 .. n : f # n => NamesOf(f)' = NamesOf(f)
  BY <1>1 DEF NamesOf
<1>5. UnderInv'
  <2>1. UnderLinks'
    BY <1>1, <1>2, <1>3 DEF UnderLinks, UnderInv, GatherInv
  <2>2. QED BY <1>3, <2>1 DEF UnderInv, GatherInv
<1>6. PathInv'
  <2>1. PathKeys'
    BY <1>1, <1>2, <1>3 DEF PathKeys, PathInv, GatherInv
  <2>2. PathLinks'
    <3> SUFFICES ASSUME NEW f \in 1 .. n, f # 1 PROVE Parent[stack'[f].key] = stack'[f - 1].key
      BY <1>1 DEF PathLinks
    <3>1. f - 1 \in 1 .. n
      BY <1>1
    <3>2. QED BY <1>1, <1>2, <3>1 DEF PathLinks, PathInv, GatherInv
  <2>3. PathOnce'
    BY <1>1, <1>2 DEF PathOnce, PathInv, GatherInv
  <2>4. PathPhases'
    BY <1>1 DEF PathPhases, PathInv, GatherInv
  <2>5. QED BY <2>1, <2>2, <2>3, <2>4 DEF PathInv
<1>7. ASSUME NEW f \in 1 .. n, f # n
      PROVE  /\ stack'[f] = stack[f] /\ stack[f].phase = "opening" /\ f + 1 \in 1 .. n
             /\ NamesOf(f)' = NamesOf(f) /\ stack'[f + 1].key = stack[f + 1].key
  BY <1>1, <1>2, <1>4, <1>7 DEF PathPhases, PathInv, GatherInv
<1>8. NamesAhead'
  BY <1>1, <1>7 DEF NamesAhead, NamesInv, GatherInv
<1>9. stack[n].names \in Seq(Keys) /\ l \in Nat /\ Cardinality(Children(k)) \in Nat
  BY <1>0, <1>1, LenProperties, ChildrenFinite DEF Frames
<1>10. /\ l <= Cardinality(Children(k)) /\ Children(k) \intersect GatheredKeys = {}
       /\ \A m \in 1 .. l : stack[n].names[m] = Nth(Children(k), Order, m - 1)
  BY <1>1, <1>2 DEF ListingInv, GatherInv
<1>11. CASE /\ l < Cardinality(Children(k)) /\ stack'[n].phase = "listing"
            /\ stack'[n].names = Append(stack[n].names, c) /\ c \in Children(k)
  <2>1. c \in Visible /\ c \in Keys /\ c \notin GatheredKeys
    BY <1>0, <1>10, <1>11 DEF Children, Visible, Entries, TypeOK
  <2>2. /\ Len(stack'[n].names) = l + 1
        /\ \A m \in 1 .. l : stack'[n].names[m] = stack[n].names[m]
        /\ stack'[n].names[l + 1] = c
    BY <1>9, <1>11, <2>1, AppendProperties
  <2>3. ASSUME NEW m \in 1 .. l + 1
        PROVE  stack'[n].names[m] = Nth(Children(k), Order, m - 1)
    <3>1. CASE m \in 1 .. l
      BY <1>10, <2>2, <3>1
    <3>2. CASE m = l + 1
      <4>1. m - 1 = l
        BY <1>9, <3>2
      <4>2. QED BY <2>2, <3>2, <4>1
    <3>3. QED BY <1>9, <3>1, <3>2
  <2>4. NamesOnce'
    <3> SUFFICES ASSUME NEW f \in 1 .. n, NEW i \in 1 .. Len(stack'[f].names),
                        NEW j \in 1 .. Len(stack'[f].names),
                        stack'[f].names[i] = stack'[f].names[j]
                 PROVE  i = j
      BY <1>1 DEF NamesOnce
    <3>1. CASE f # n
      BY <1>7, <3>1 DEF NamesOnce, NamesInv, GatherInv
    <3>2. CASE f = n
      <4>1. /\ i - 1 \in 0 .. Cardinality(Children(k)) - 1
            /\ j - 1 \in 0 .. Cardinality(Children(k)) - 1
        BY <1>9, <1>11, <2>2, <3>2, SMTT(30)
      <4>2. Nth(Children(k), Order, i - 1) = Nth(Children(k), Order, j - 1)
        BY <2>2, <2>3, <3>2
      <4>3. i - 1 = j - 1
        BY <1>0, <4>1, <4>2, ListsOnce
      <4>4. QED BY <4>3
    <3>3. QED BY <3>1, <3>2
  <2>5. NamesOf(n)' \subseteq NamesOf(n) \union {c}
    <3> SUFFICES ASSUME NEW m \in 1 .. l + 1
                 PROVE  stack'[n].names[m] \in NamesOf(n) \union {c}
      BY <2>2 DEF NamesOf
    <3>1. CASE m \in 1 .. l
      BY <2>2, <3>1 DEF NamesOf
    <3>2. CASE m = l + 1
      BY <2>2, <3>2
    <3>3. QED BY <1>9, <3>1, <3>2
  <2>6. NamesLeft'
    <3> SUFFICES ASSUME NEW f \in 1 .. n PROVE NamesOf(f)' \subseteq Visible' \ GatheredKeys'
      BY <1>1 DEF NamesLeft
    <3>1. CASE f # n
      BY <1>3, <1>7, <3>1 DEF NamesLeft, NamesInv, GatherInv
    <3>2. CASE f = n
      BY <1>3, <2>1, <2>5, <3>2 DEF NamesLeft, NamesInv, GatherInv
    <3>3. QED BY <3>1, <3>2
  <2>7. ListingInv'
    <3> SUFFICES ASSUME NEW f \in 1 .. n, stack'[f].phase = "listing"
                 PROVE  /\ Len(stack'[f].names) <= Cardinality(Children(stack[f].key)')
                        /\ \A m \in 1 .. Len(stack'[f].names) :
                             stack'[f].names[m] = Nth(Children(stack[f].key)', Order, m - 1)
                        /\ Children(stack[f].key)' \intersect GatheredKeys' = {}
      <4>1. Order' = Order
        BY DEF Order
      <4>2. QED BY <1>1, <4>1 DEF ListingInv, Nth, Position, Preceding
    <3>1. f = n
      BY <1>7
    <3>2. Children(stack[f].key)' = Children(k)
      BY <1>1, <1>3, <3>1 DEF Children
    <3>3. l + 1 <= Cardinality(Children(k))
      BY <1>9, <1>11
    <3>4. QED BY <1>3, <1>10, <2>2, <2>3, <3>1, <3>2, <3>3
  <2>8. OpeningInv'
    <3> SUFFICES ASSUME NEW f \in 1 .. n, stack'[f].phase = "opening",
                        NEW x \in Children(stack[f].key)
                 PROVE  \/ x \in NamesOf(f)' \/ x \in GatheredKeys'
                        \/ f # n /\ x = stack'[f + 1].key
      BY <1>1, <1>2, <1>3 DEF OpeningInv, Children, Visible, Entries
    <3>1. f # n
      BY <1>11
    <3>2. QED BY <1>3, <1>7, <3>1 DEF OpeningInv, GatherInv
  <2>9. QED BY <1>5, <1>6, <1>8, <2>4, <2>6, <2>7, <2>8 DEF GatherInv, NamesInv
<1>12. CASE /\ l >= Cardinality(Children(k))
            /\ stack'[n].phase = "opening" /\ stack'[n].names = stack[n].names
  <2>1. \A f \in 1 .. n : stack'[f].names = stack[f].names /\ NamesOf(f)' = NamesOf(f)
    BY <1>1, <1>12 DEF NamesOf
  <2>2. NamesOnce' /\ NamesLeft'
    BY <1>1, <1>3, <2>1 DEF NamesOnce, NamesLeft, NamesInv, GatherInv
  <2>3. \A f \in 1 .. n : stack'[f].phase = "opening"
    BY <1>7, <1>12
  <2>4. ListingInv'
    BY <1>1, <2>3 DEF ListingInv
  <2>5. OpeningInv'
    <3> SUFFICES ASSUME NEW f \in 1 .. n, NEW x \in Children(stack[f].key)
                 PROVE  \/ x \in NamesOf(f)' \/ x \in GatheredKeys'
                        \/ f # n /\ x = stack'[f + 1].key
      BY <1>1, <1>2, <1>3 DEF OpeningInv, Children, Visible, Entries
    <3>1. CASE f # n
      BY <1>3, <1>7, <3>1 DEF OpeningInv, GatherInv
    <3>2. CASE f = n
      <4>1. PICK i \in 0 .. Cardinality(Children(k)) - 1 : Nth(Children(k), Order, i) = x
        BY <1>0, <3>2, ListsAll
      <4>2. i + 1 \in 1 .. l /\ i + 1 - 1 = i
        BY <1>9, <1>12
      <4>3. stack[n].names[i + 1] = x
        BY <1>10, <4>1, <4>2
      <4>4. x \in NamesOf(n)
        BY <4>2, <4>3 DEF NamesOf
      <4>5. QED BY <2>1, <3>2, <4>4
    <3>3. QED BY <3>1, <3>2
  <2>6. QED BY <1>5, <1>6, <1>8, <2>2, <2>4, <2>5 DEF GatherInv, NamesInv
<1>13. QED BY <1>0, <1>11, <1>12, ListStep

\* GatherInv over an open: the key opened is not on the path already, and
\* nothing under it is gathered yet.
LEMMA QuietOpen ==
  ASSUME TreeInv, GatherInv, Open, pc' = "gather"
  PROVE  GatherInv'
<1> SUFFICES ASSUME NEW n, n = Len(stack), NEW p, p = stack[n].key,
                    NEW k, k = Head(stack[n].names), NEW l, l = Len(stack[n].names)
             PROVE  GatherInv'
  OBVIOUS
<1>0. TypeOK /\ WalkInv /\ pc = "gather"
  BY DEF TreeInv, Open
<1>1. /\ n \in Nat \ {0} /\ Len(stack') = n + 1
      /\ stack[n] \in Frames /\ stack[n].phase = "opening"
      /\ stack[n].names # <<>> /\ k \in Visible
      /\ \A f \in 1 .. n : f # n => stack'[f] = stack[f]
      /\ stack'[n].key = p /\ stack'[n].phase = "opening"
      /\ stack'[n].names = Tail(stack[n].names) /\ stack'[n + 1] = Frame(k)
  BY <1>0, OpenStep
<1>2. n \in 1 .. n /\ \A f \in 1 .. n : stack'[f].key = stack[f].key
  BY <1>1
<1>3. stack'[n + 1].key = k /\ stack'[n + 1].names = <<>> /\ stack'[n + 1].phase = "listing"
  BY <1>1 DEF Frame
<1>4. /\ Visible' = Visible /\ \A x : Children(x)' = Children(x)
      /\ GatheredKeys' = GatheredKeys
      /\ UnderOnce' = UnderOnce /\ ChildrenFirst' = ChildrenFirst
  BY SameKeys DEF Open
<1>5. stack[n].names \in Seq(Keys) /\ l \in Nat \ {0}
  BY <1>1, EmptySeq DEF Frames
<1>6. /\ k \in Keys /\ k = stack[n].names[1] /\ Len(stack'[n].names) = l - 1
      /\ \A m \in 1 .. l - 1 : stack'[n].names[m] = stack[n].names[m + 1]
  BY <1>1, <1>5, HeadTailProperties
<1>7. 1 \in 1 .. l /\ k \in NamesOf(n)
  BY <1>5, <1>6 DEF NamesOf
<1>8. k \in Visible /\ k \notin GatheredKeys
  BY <1>2, <1>7 DEF NamesLeft, NamesInv, GatherInv
<1>9. Parent[k] = p
  BY <1>0, <1>2, <1>6, <1>7 DEF WalkInv
<1>10. k \in Under /\ k # Root
  <2>1. p \in Tree
    BY <1>0, <1>2 DEF WalkInv, Tree
  <2>2. k \in Under
    BY <1>6, <1>9, <2>1, UnderParent
  <2>3. QED BY <2>2, DeleteTreeAssumption
<1>11. ASSUME NEW f \in 1 .. n PROVE stack[f].key # k
  <2> SUFFICES ASSUME stack[f].key = k PROVE FALSE
    OBVIOUS
  <2>1. f # 1
    BY <1>0, <1>10 DEF WalkInv
  <2>2. f - 1 \in 1 .. n /\ stack[f - 1].key = stack[n].key
    BY <1>1, <1>9, <2>1 DEF PathLinks, PathInv, GatherInv
  <2>3. f - 1 = n
    BY <1>2, <2>2 DEF PathOnce, PathInv, GatherInv
  <2>4. QED BY <1>1, <2>3
<1>12. ASSUME NEW f \in 1 .. n + 1, f # n + 1, f # n
       PROVE  /\ f \in 1 .. n /\ f + 1 \in 1 .. n /\ stack'[f] = stack[f]
              /\ stack[f].phase = "opening" /\ NamesOf(f)' = NamesOf(f)
              /\ stack'[f + 1].key = stack[f + 1].key
  <2>1. f \in 1 .. n /\ f + 1 \in 1 .. n /\ stack'[f] = stack[f]
    BY <1>1, <1>12
  <2>2. QED BY <1>2, <1>12, <2>1 DEF NamesOf, PathPhases, PathInv, GatherInv
<1>13. \A f \in 1 .. n + 1 : f # n + 1 => f \in 1 .. n
  BY <1>1
<1>14. NamesOf(n)' \subseteq NamesOf(n) \ {k} /\ NamesOf(n) \subseteq NamesOf(n)' \union {k}
  <2>1. ASSUME NEW m \in 1 .. l - 1
        PROVE  m + 1 \in 1 .. l /\ m + 1 # 1 /\ stack'[n].names[m] = stack[n].names[m + 1]
    BY <1>5, <1>6, SMTT(30)
  <2>2. ASSUME NEW m \in 1 .. l - 1 PROVE stack'[n].names[m] \in NamesOf(n) \ {k}
    <3>1. stack[n].names[m + 1] # k
      BY <1>2, <1>6, <1>7, <2>1, ZenonT(40) DEF NamesOnce, NamesInv, GatherInv
    <3>2. QED BY <2>1, <3>1 DEF NamesOf
  <2>3. ASSUME NEW m \in 1 .. l PROVE stack[n].names[m] \in NamesOf(n)' \union {k}
    <3>1. CASE m = 1
      BY <1>6, <3>1
    <3>2. CASE m # 1
      <4>1. m - 1 \in 1 .. l - 1 /\ (m - 1) + 1 = m
        BY <1>5, <3>2
      <4>2. stack'[n].names[m - 1] = stack[n].names[m]
        BY <1>6, <4>1
      <4>3. QED BY <1>6, <4>1, <4>2 DEF NamesOf
    <3>3. QED BY <3>1, <3>2
  <2>4. NamesOf(n)' \subseteq NamesOf(n) \ {k}
    <3>1. Len(stack'[n].names) = l - 1
      BY <1>6
    <3>2. NamesOf(n)' = {stack'[n].names[m] : m \in 1 .. l - 1}
      BY <3>1 DEF NamesOf
    <3>3. QED BY <2>2, <3>2
  <2>5. NamesOf(n) \subseteq NamesOf(n)' \union {k}
    <3> SUFFICES ASSUME NEW x \in NamesOf(n) PROVE x \in NamesOf(n)' \union {k}
      OBVIOUS
    <3>1. PICK m \in 1 .. l : x = stack[n].names[m]
      BY DEF NamesOf
    <3>2. QED BY <2>3, <3>1
  <2>6. QED BY <2>4, <2>5
<1>15. NamesOf(n + 1)' = {}
  BY <1>3 DEF NamesOf
<1>16. UnderInv'
  <2>1. UnderLinks'
    <3> SUFFICES ASSUME NEW x \in GatheredKeys, Parent[x] \notin GatheredKeys
                 PROVE  \E f \in 1 .. n + 1 : Parent[x] = stack'[f].key
      BY <1>1, <1>4 DEF UnderLinks
    <3>1. PICK f \in 1 .. n : Parent[x] = stack[f].key
      BY DEF UnderLinks, UnderInv, GatherInv
    <3>2. f \in 1 .. n + 1
      BY <1>1
    <3>3. QED BY <1>2, <3>1, <3>2
  <2>2. QED BY <1>4, <2>1 DEF UnderInv, GatherInv
<1>17. PathInv'
  <2>1. PathKeys'
    BY <1>1, <1>2, <1>3, <1>4, <1>8, <1>13 DEF PathKeys, PathInv, GatherInv
  <2>2. PathLinks'
    <3> SUFFICES ASSUME NEW f \in 1 .. n + 1, f # 1
                 PROVE  Parent[stack'[f].key] = stack'[f - 1].key
      BY <1>1 DEF PathLinks
    <3>1. CASE f = n + 1
      <4>1. f - 1 = n
        BY <1>1, <3>1
      <4>2. QED BY <1>1, <1>3, <1>9, <3>1, <4>1
    <3>2. CASE f # n + 1
      <4>1. f \in 1 .. n /\ f - 1 \in 1 .. n
        BY <1>1, <3>2
      <4>2. QED BY <1>2, <4>1 DEF PathLinks, PathInv, GatherInv
    <3>3. QED BY <3>1, <3>2
  <2>3. PathOnce'
    <3> SUFFICES ASSUME NEW f \in 1 .. n + 1, NEW g \in 1 .. n + 1,
                        stack'[f].key = stack'[g].key
                 PROVE  f = g
      BY <1>1 DEF PathOnce
    <3>1. CASE f = n + 1 \/ g = n + 1
      BY <1>2, <1>3, <1>11, <1>13, <3>1
    <3>2. CASE f # n + 1 /\ g # n + 1
      BY <1>2, <1>13, <3>2 DEF PathOnce, PathInv, GatherInv
    <3>3. QED BY <3>1, <3>2
  <2>4. PathPhases'
    BY <1>1, <1>12 DEF PathPhases
  <2>5. QED BY <2>1, <2>2, <2>3, <2>4 DEF PathInv
<1>18. NamesInv'
  <2>1. NamesOnce'
    <3> SUFFICES ASSUME NEW f \in 1 .. n + 1, NEW i \in 1 .. Len(stack'[f].names),
                        NEW j \in 1 .. Len(stack'[f].names),
                        stack'[f].names[i] = stack'[f].names[j]
                 PROVE  i = j
      BY <1>1 DEF NamesOnce
    <3>1. CASE f = n + 1
      <4>1. 1 .. Len(stack'[f].names) = {}
        BY <1>3, <3>1
      <4>2. QED BY <4>1
    <3>2. CASE f = n
      <4>1. i \in 1 .. l - 1 /\ j \in 1 .. l - 1
        BY <1>6, <3>2
      <4>2. i + 1 \in 1 .. l /\ j + 1 \in 1 .. l
        BY <1>5, <4>1
      <4>3. stack[n].names[i + 1] = stack[n].names[j + 1]
        BY <1>6, <3>2, <4>1
      <4>4. i + 1 = j + 1
        BY <1>2, <4>2, <4>3 DEF NamesOnce, NamesInv, GatherInv
      <4>5. QED BY <4>4
    <3>3. CASE f # n /\ f # n + 1
      BY <1>12, <3>3 DEF NamesOnce, NamesInv, GatherInv
    <3>4. QED BY <3>1, <3>2, <3>3
  <2>2. NamesLeft'
    <3> SUFFICES ASSUME NEW f \in 1 .. n + 1 PROVE NamesOf(f)' \subseteq Visible' \ GatheredKeys'
      BY <1>1 DEF NamesLeft
    <3>1. CASE f = n + 1
      BY <1>15, <3>1
    <3>2. CASE f = n
      BY <1>2, <1>4, <1>14, <3>2 DEF NamesLeft, NamesInv, GatherInv
    <3>3. CASE f # n /\ f # n + 1
      BY <1>4, <1>12, <3>3 DEF NamesLeft, NamesInv, GatherInv
    <3>4. QED BY <3>1, <3>2, <3>3
  <2>3. NamesAhead'
    <3> SUFFICES ASSUME NEW f \in 1 .. n + 1, f # n + 1
                 PROVE  stack'[f + 1].key \notin NamesOf(f)'
      BY <1>1 DEF NamesAhead
    <3>1. CASE f = n
      BY <1>3, <1>14, <3>1
    <3>2. CASE f # n
      BY <1>12, <3>2 DEF NamesAhead, NamesInv, GatherInv
    <3>3. QED BY <3>1, <3>2
  <2>4. QED BY <2>1, <2>2, <2>3 DEF NamesInv
<1>19. ListingInv'
  <2>1. \A f \in 1 .. n + 1 : f # n + 1 => stack'[f].phase = "opening"
    BY <1>1, <1>12
  <2>2. Children(k) \intersect GatheredKeys = {}
    <3> SUFFICES ASSUME NEW c \in Children(k), c \in GatheredKeys PROVE FALSE
      OBVIOUS
    <3>1. Parent[c] = k
      BY DEF Children
    <3>2. QED BY <1>8, <1>11, <3>1 DEF UnderLinks, UnderInv, GatherInv
  <2>3. 0 <= Cardinality(Children(k))
    BY <1>0, ChildrenFinite
  <2>4. Len(stack'[n + 1].names) = 0 /\ 1 .. 0 = {}
    BY <1>3
  <2>5. Children(stack[n + 1].key)' = Children(k)
    BY <1>3, <1>4 DEF Children
  <2>6. ASSUME NEW f \in 1 .. n + 1, stack'[f].phase = "listing"
        PROVE  /\ Len(stack'[f].names) <= Cardinality(Children(stack[f].key)')
               /\ 1 .. Len(stack'[f].names) = {}
               /\ Children(stack[f].key)' \intersect GatheredKeys' = {}
    <3>1. f = n + 1
      BY <2>1, <2>6
    <3>2. QED BY <1>4, <2>2, <2>3, <2>4, <2>5, <3>1
  <2>7. QED BY <1>1, <2>6 DEF ListingInv
<1>20. OpeningInv'
  <2> SUFFICES ASSUME NEW f \in 1 .. n + 1, stack'[f].phase = "opening",
                      NEW x \in Children(stack[f].key)'
               PROVE  \/ x \in NamesOf(f)' \/ x \in GatheredKeys'
                      \/ f # n + 1 /\ x = stack'[f + 1].key
    BY <1>1 DEF OpeningInv
  <2>1. f # n + 1
    BY <1>3
  <2>2. f \in 1 .. n
    BY <1>13, <2>1
  <2>3. x \in Children(stack[f].key)
    BY <1>2, <1>4, <2>2 DEF Children
  <2>4. CASE f = n
    BY <1>1, <1>3, <1>4, <1>14, <2>1, <2>2, <2>3, <2>4 DEF OpeningInv, GatherInv
  <2>5. CASE f # n
    BY <1>4, <1>12, <2>1, <2>2, <2>3, <2>5 DEF OpeningInv, GatherInv
  <2>6. QED BY <2>4, <2>5
<1>21. QED BY <1>16, <1>17, <1>18, <1>19, <1>20 DEF GatherInv

\* GatherInv over the end of a call inside another: all that is under the
\* key has been gathered before it.
LEMMA QuietGathered ==
  ASSUME TreeInv, GatherInv, Gathered, pc' = "gather"
  PROVE  GatherInv'
<1> SUFFICES ASSUME NEW n, n = Len(stack), NEW q, q = stack[n].key,
                    NEW l, l = Len(under)
             PROVE  GatherInv'
  OBVIOUS
<1>0. TypeOK /\ WalkInv /\ pc = "gather" /\ l \in Nat
  BY LenProperties DEF TreeInv, TypeOK, Gathered
<1>1. /\ n \in Nat \ {0} /\ n > 1 /\ Len(stack') = n - 1
      /\ stack[n].phase = "opening" /\ stack[n].names = <<>>
      /\ \A f \in 1 .. n - 1 : stack'[f] = stack[f]
      /\ Len(under') = l + 1 /\ under'[l + 1] = q
      /\ \A u \in 1 .. l : under'[u] = under[u]
  BY <1>0, GatheredStep
<1>2. /\ n \in 1 .. n /\ n # 1 /\ n - 1 \in 1 .. n - 1 /\ n - 1 \in 1 .. n /\ n - 1 # n
      /\ \A f \in 1 .. n - 1 : f \in 1 .. n /\ f # n
  BY <1>1
<1>3. Visible' = Visible /\ (\A x : Children(x)' = Children(x))
  BY DEF Gathered, Visible, Entries, Children
<1>4. \A u \in 1 .. l + 1 : u # l + 1 => u \in 1 .. l
  BY <1>0
<1>5. GatheredKeys' = GatheredKeys \union {q}
  <2>1. ASSUME NEW u \in 1 .. l + 1 PROVE under'[u] \in GatheredKeys \union {q}
    BY <1>1, <1>4 DEF GatheredKeys
  <2>2. ASSUME NEW u \in 1 .. l PROVE under[u] \in GatheredKeys'
    <3>1. u \in 1 .. l + 1 /\ under'[u] = under[u]
      BY <1>0, <1>1
    <3>2. QED BY <1>1, <3>1 DEF GatheredKeys
  <2>3. q \in GatheredKeys'
    <3>1. l + 1 \in 1 .. l + 1
      BY <1>0
    <3>2. QED BY <1>1, <3>1 DEF GatheredKeys
  <2>4. GatheredKeys' \subseteq GatheredKeys \union {q}
    BY <1>1, <2>1 DEF GatheredKeys
  <2>5. GatheredKeys \subseteq GatheredKeys'
    <3> SUFFICES ASSUME NEW x \in GatheredKeys PROVE x \in GatheredKeys'
      OBVIOUS
    <3>1. PICK u \in 1 .. l : x = under[u]
      BY DEF GatheredKeys
    <3>2. QED BY <2>2, <3>1
  <2>6. QED BY <2>3, <2>4, <2>5
<1>6. q \in Visible /\ q \notin GatheredKeys /\ Parent[q] = stack[n - 1].key
  BY <1>2 DEF PathKeys, PathLinks, PathInv, GatherInv
<1>7. ASSUME NEW f \in 1 .. n - 1
      PROVE  /\ f \in 1 .. n /\ f # n /\ stack'[f] = stack[f] /\ stack[f].key # q
             /\ stack[f].phase = "opening" /\ NamesOf(f)' = NamesOf(f)
             /\ q \notin NamesOf(f)
  <2>1. f \in 1 .. n /\ f # n /\ stack'[f] = stack[f]
    BY <1>1, <1>2
  <2>2. stack[f].key # q /\ stack[f].phase = "opening"
    BY <1>2, <2>1 DEF PathOnce, PathPhases, PathInv, GatherInv
  <2>3. ASSUME q \in NamesOf(f) PROVE FALSE
    <3>1. Parent[q] = stack[f].key
      BY <1>0, <2>1, <2>3 DEF WalkInv, NamesOf
    <3>2. f = n - 1
      BY <1>2, <1>6, <2>1, <3>1 DEF PathOnce, PathInv, GatherInv
    <3>3. stack[f + 1].key = q
      BY <1>1, <3>2
    <3>4. QED BY <2>1, <2>3, <3>3 DEF NamesAhead, NamesInv, GatherInv
  <2>4. QED BY <2>1, <2>2, <2>3 DEF NamesOf
<1>8. UnderInv'
  <2>1. UnderOnce'
    <3> SUFFICES ASSUME NEW u \in 1 .. l + 1, NEW v \in 1 .. l + 1, under'[u] = under'[v]
                 PROVE  u = v
      BY <1>1 DEF UnderOnce
    <3>1. \A w \in 1 .. l : under'[w] = under[w] /\ under[w] # q
      BY <1>1, <1>6 DEF GatheredKeys
    <3>2. QED BY <1>1, <1>4, <3>1 DEF UnderOnce, UnderInv, GatherInv
  <2>2. ChildrenFirst'
    <3> SUFFICES ASSUME NEW u \in 1 .. l + 1, NEW c \in Children(under[u])'
                 PROVE  \E v \in 1 .. l + 1 : v < u /\ under'[v] = c
      BY <1>1 DEF ChildrenFirst
    <3>1. CASE u \in 1 .. l
      <4>1. c \in Children(under[u])
        BY <1>1, <1>3, <3>1 DEF Children
      <4>2. PICK v \in 1 .. l : v < u /\ under[v] = c
        BY <3>1, <4>1 DEF ChildrenFirst, UnderInv, GatherInv
      <4>3. v \in 1 .. l + 1 /\ under'[v] = c
        BY <1>0, <1>1, <4>2
      <4>4. QED BY <4>2, <4>3
    <3>2. CASE u = l + 1
      <4>1. c \in Children(stack[n].key)
        BY <1>1, <1>3, <3>2 DEF Children
      <4>2. NamesOf(n) = {}
        BY <1>1 DEF NamesOf
      <4>3. c \in GatheredKeys
        BY <1>1, <1>2, <4>1, <4>2 DEF OpeningInv, GatherInv
      <4>4. PICK v \in 1 .. l : under[v] = c
        BY <4>3 DEF GatheredKeys
      <4>5. v \in 1 .. l + 1 /\ v < u /\ under'[v] = c
        BY <1>0, <1>1, <3>2, <4>4
      <4>6. QED BY <4>5
    <3>3. QED BY <1>4, <3>1, <3>2
  <2>3. UnderLinks'
    <3> SUFFICES ASSUME NEW x \in GatheredKeys', Parent[x] \notin GatheredKeys'
                 PROVE  \E f \in 1 .. n - 1 : Parent[x] = stack'[f].key
      BY <1>1 DEF UnderLinks
    <3>1. CASE x = q
      BY <1>1, <1>2, <1>6, <3>1
    <3>2. CASE x \in GatheredKeys
      <4>1. PICK f \in 1 .. n : Parent[x] = stack[f].key
        BY <1>5, <3>2 DEF UnderLinks, UnderInv, GatherInv
      <4>2. f # n
        BY <1>5, <4>1
      <4>3. f \in 1 .. n - 1
        BY <1>1, <4>2
      <4>4. QED BY <1>1, <4>1, <4>3
    <3>3. QED BY <1>5, <3>1, <3>2
  <2>4. GatheredKeys' \subseteq Visible'
    BY <1>3, <1>5, <1>6 DEF UnderInv, GatherInv
  <2>5. QED BY <2>1, <2>2, <2>3, <2>4 DEF UnderInv
<1>9. PathInv'
  <2>1. PathKeys'
    BY <1>1, <1>3, <1>5, <1>7 DEF PathKeys, PathInv, GatherInv
  <2>2. PathLinks'
    <3> SUFFICES ASSUME NEW f \in 1 .. n - 1, f # 1
                 PROVE  Parent[stack'[f].key] = stack'[f - 1].key
      BY <1>1 DEF PathLinks
    <3>1. f - 1 \in 1 .. n - 1
      BY <1>1
    <3>2. QED BY <1>7, <3>1 DEF PathLinks, PathInv, GatherInv
  <2>3. PathOnce'
    BY <1>1, <1>7 DEF PathOnce, PathInv, GatherInv
  <2>4. PathPhases'
    BY <1>1, <1>7 DEF PathPhases
  <2>5. QED BY <2>1, <2>2, <2>3, <2>4 DEF PathInv
<1>10. ASSUME NEW f \in 1 .. n - 1, f # n - 1
       PROVE  f + 1 \in 1 .. n - 1 /\ stack'[f + 1] = stack[f + 1]
  BY <1>1, <1>10
<1>11. NamesInv'
  <2>1. NamesOnce'
    <3> SUFFICES ASSUME NEW f \in 1 .. n - 1, NEW i \in 1 .. Len(stack'[f].names),
                        NEW j \in 1 .. Len(stack'[f].names),
                        stack'[f].names[i] = stack'[f].names[j]
                 PROVE  i = j
      BY <1>1 DEF NamesOnce
    <3>1. QED BY <1>7 DEF NamesOnce, NamesInv, GatherInv
  <2>2. NamesLeft'
    <3> SUFFICES ASSUME NEW f \in 1 .. n - 1 PROVE NamesOf(f)' \subseteq Visible' \ GatheredKeys'
      BY <1>1 DEF NamesLeft
    <3>1. QED BY <1>3, <1>5, <1>7 DEF NamesLeft, NamesInv, GatherInv
  <2>3. NamesAhead'
    BY <1>1, <1>7, <1>10, SMTT(30) DEF NamesAhead, NamesInv, GatherInv
  <2>4. QED BY <2>1, <2>2, <2>3 DEF NamesInv
<1>12. ListingInv'
  BY <1>1, <1>7 DEF ListingInv
<1>13. OpeningInv'
  <2> SUFFICES ASSUME NEW f \in 1 .. n - 1, NEW x \in Children(stack[f].key)'
               PROVE  \/ x \in NamesOf(f)' \/ x \in GatheredKeys'
                      \/ f # n - 1 /\ x = stack'[f + 1].key
    BY <1>1 DEF OpeningInv
  <2>1. x \in Children(stack[f].key)
    BY <1>3, <1>7 DEF Children
  <2>2. x \in NamesOf(f) \/ x \in GatheredKeys \/ x = stack[f + 1].key
    BY <1>7, <2>1 DEF OpeningInv, GatherInv
  <2>3. CASE f = n - 1
    <3>1. stack[f + 1].key = q
      BY <1>1, <2>3
    <3>2. QED BY <1>5, <1>7, <2>2, <3>1
  <2>4. CASE f # n - 1
    BY <1>5, <1>7, <1>10, <2>2, <2>4
  <2>5. QED BY <2>3, <2>4
<1>14. QED BY <1>8, <1>9, <1>11, <1>12, <1>13 DEF GatherInv

\* When gather is done with this key, all there is under it is gathered.
LEMMA QuietTurn ==
  ASSUME TreeInv, GatherInv, Gathered, pc' = "delete"
  PROVE  DeletionInv'
<1>0. /\ TypeOK /\ WalkInv /\ pc = "gather" /\ under \in Seq(Keys)
      /\ staged = {} /\ deleted = {} /\ next = 0
  BY DEF TreeInv, TypeOK, TxnInv, CountInv, Gathered
<1>1. /\ Len(stack) = 1 /\ stack[1].phase = "opening" /\ stack[1].names = <<>>
      /\ under' = under
  BY <1>0, GatheredStep
<1>2. 1 \in 1 .. Len(stack) /\ stack[1].key = Root
  BY <1>0, <1>1 DEF WalkInv
<1>3. /\ Visible' = Visible /\ next' = 0 /\ (deleted \union staged)' = {}
      /\ (\A x : Children(x)' = Children(x)) /\ GatheredKeys' = GatheredKeys
      /\ UnderOnce' = UnderOnce /\ ChildrenFirst' = ChildrenFirst
  BY <1>0, <1>1, SameKeys DEF Gathered
<1>4. Root \in Visible
  BY <1>2 DEF PathKeys, PathInv, GatherInv
<1>5. Children(Root) \subseteq GatheredKeys
  <2>1. NamesOf(1) = {}
    BY <1>1 DEF NamesOf
  <2>2. QED BY <1>1, <1>2, <2>1 DEF OpeningInv, GatherInv
<1>6. \A u \in 1 .. Len(under) : under[u] \in Visible /\ ~(u <= 0)
  BY <1>0, LenProperties DEF GatheredKeys, UnderInv, GatherInv
<1>7. UnderOnce /\ ChildrenFirst
  BY DEF UnderInv, GatherInv
<1>8. Children(Root)' \subseteq GatheredKeys'
  BY <1>3, <1>5
<1>9. QED BY <1>1, <1>3, <1>4, <1>6, <1>7, <1>8 DEF DeletionInv

(* A key gathered is visible when its turn comes.  When it is refused as   *)
(* missing it had no entry in the layer, and when it is refused for a      *)
(* child the child has had its turn and shows through from another layer.  *)
LEMMA QuietNext ==
  ASSUME TreeInv, NEW k \in Visible, k \in Tree, k \notin deleted \union staged,
         txn # "timed_out",
         \A c \in Children(k) : c \in Under /\ c \in deleted \union staged
  PROVE  /\ Refusal(k) \in {"none", "ENOMEM", "ENOENT", "ENOTEMPTY"}
         /\ Refusal(k) = "ENOENT" => Missing
         /\ Refusal(k) = "ENOTEMPTY" => ShowsThrough
<1>1. CASE Refusal(k) = "ENOENT"
  <2>1. k \notin Entries
    BY <1>1 DEF Refusal
  <2>2. k \in elsewhere \ (live \union deleted)
    BY <2>1 DEF Visible, Entries
  <2>3. QED BY <1>1, <2>2 DEF Missing
<1>2. CASE Refusal(k) = "ENOTEMPTY"
  <2>1. Children(k) # {}
    BY <1>2 DEF Refusal
  <2>2. PICK c : c \in Children(k)
    BY <2>1
  <2>3. c \in Visible /\ c \in Under /\ c \in deleted \union staged
    BY <2>2 DEF Children
  <2>4. deleted \intersect live = {}
    BY DEF TreeInv, LiveInv
  <2>5. c \in elsewhere
    BY <2>3, <2>4 DEF Visible, Entries
  <2>6. QED BY <1>2, <2>3, <2>5 DEF ShowsThrough
<1>3. QED BY <1>1, <1>2, RefusalType DEF Refusal

\* A deletion changes nothing of what the other layers have.
LEMMA RefusedStays ==
  ASSUME UNCHANGED <<live, elsewhere, deleted>>
  PROVE  Missing' = Missing /\ ShowsThrough' = ShowsThrough
BY DEF Missing, ShowsThrough, Tree

\* DeletionInv over the deletion of the next key, and what a refusal means.
LEMMA QuietDelete ==
  ASSUME TreeInv, DeletionInv, DeleteUnder, txn # "timed_out"
  PROVE  /\ pc' = "delete" => DeletionInv'
         /\ result'.answer = "ENOENT" => Missing'
         /\ result'.answer = "ENOTEMPTY" => ShowsThrough'
<1> SUFFICES ASSUME NEW k, k = under[next + 1]
             PROVE  /\ pc' = "delete" => DeletionInv'
                    /\ result'.answer = "ENOENT" => Missing'
                    /\ result'.answer = "ENOTEMPTY" => ShowsThrough'
  OBVIOUS
<1>0. /\ TypeOK /\ TxnInv /\ LiveInv /\ WalkInv /\ pc = "delete" /\ result.answer = "pending"
      /\ Len(under) \in Nat /\ next \in Nat /\ next + 1 \in 1 .. Len(under)
  BY LenProperties DEF TreeInv, TypeOK, TxnInv, DeleteUnder
<1>1. /\ k \in Visible /\ k \in Tree /\ k \in Keys /\ k # Root
      /\ k \notin deleted \union staged
  <2>1. ~(next + 1 <= next) /\ next + 1 > next
    BY <1>0
  <2>2. k \in Under /\ k \in Visible /\ k \notin deleted \union staged
    BY <1>0, <2>1 DEF WalkInv, DeletionInv
  <2>3. QED BY <2>2, DeleteTreeAssumption DEF Tree
<1>2. ASSUME NEW c \in Children(k)
      PROVE  c \in Under /\ c \in deleted \union staged
  <2>1. PICK v \in 1 .. Len(under) : v < next + 1 /\ under[v] = c
    BY <1>0 DEF DeletionInv, ChildrenFirst
  <2>2. v <= next
    BY <1>0, <2>1
  <2>3. QED BY <1>0, <2>1, <2>2 DEF DeletionInv, WalkInv
<1>3. /\ Refusal(k) \in {"none", "ENOMEM", "ENOENT", "ENOTEMPTY"}
      /\ Refusal(k) = "ENOENT" => Missing
      /\ Refusal(k) = "ENOTEMPTY" => ShowsThrough
  BY <1>1, <1>2, QuietNext
<1>4. CASE Refusal(k) # "none"
  <2>1. /\ result' = [answer |-> Refusal(k), count |-> 0] /\ pc' = "returned"
        /\ UNCHANGED <<live, elsewhere, deleted>>
    BY <1>4 DEF DeleteUnder, Return
  <2>2. QED BY <1>3, <2>1, RefusedStays
<1>5. CASE Refusal(k) = "none"
  <2>1. /\ delete_key(k, txn) /\ next' = next + 1 /\ under' = under /\ result' = result
        /\ elsewhere' = elsewhere
    BY <1>5 DEF DeleteUnder
  <2>2. Entries' = Entries \ {k} /\ Visible' = Entries' \union elsewhere
    BY <1>0, <1>1, <1>5, <2>1, LiveDeleted
  <2>3. Visible' \subseteq Visible /\ Visible \ {k} \subseteq Visible'
    BY <2>2 DEF Visible
  <2>4. (deleted \union staged)' = (deleted \union staged) \union {k}
    BY <2>1 DEF delete_key
  <2>5. \A x : Children(x)' \subseteq Children(x)
    BY <2>3 DEF Children
  <2>6. GatheredKeys' = GatheredKeys /\ UnderOnce'
    BY <2>1 DEF GatheredKeys, UnderOnce, DeletionInv
  <2>7. ChildrenFirst'
    <3> SUFFICES ASSUME NEW u \in 1 .. Len(under), NEW c \in Children(under[u])'
                 PROVE  \E v \in 1 .. Len(under) : v < u /\ under[v] = c
      BY <2>1 DEF ChildrenFirst
    <3>1. c \in Children(under[u])
      BY <2>1, <2>3 DEF Children
    <3>2. QED BY <3>1 DEF ChildrenFirst, DeletionInv
  <2>8. ASSUME NEW u \in 1 .. Len(under)
        PROVE  /\ under[u] \in (deleted \union staged) \union {k} <=> u <= next + 1
               /\ u > next + 1 => under[u] \in Visible'
    <3>1. under[u] = k <=> u = next + 1
      BY <1>0 DEF UnderOnce, DeletionInv
    <3>2. /\ under[u] \in deleted \union staged <=> u <= next
          /\ u > next => under[u] \in Visible
      BY DEF DeletionInv
    <3>3. /\ u <= next + 1 <=> u <= next \/ u = next + 1
          /\ u > next + 1 => u > next /\ u # next + 1
      BY <1>0
    <3>4. QED BY <2>3, <3>1, <3>2, <3>3
  <2>9. /\ Children(Root)' \subseteq GatheredKeys' /\ Root \in Visible'
        /\ Root \notin (deleted \union staged)'
    BY <1>1, <2>3, <2>4, <2>5, <2>6 DEF DeletionInv
  <2>10. DeletionInv'
    BY <2>1, <2>4, <2>6, <2>7, <2>8, <2>9 DEF DeletionInv
  <2>11. QED BY <1>0, <2>1, <2>10
<1>6. QED BY <1>4, <1>5

\* By the turn of this key all its children have had theirs.
LEMMA QuietDeleteRoot ==
  ASSUME TreeInv, DeletionInv, DeleteRoot, txn # "timed_out"
  PROVE  /\ result'.answer = "ENOENT" => Missing'
         /\ result'.answer = "ENOTEMPTY" => ShowsThrough'
<1>1. Len(under) \in Nat /\ next = Len(under) /\ WalkInv
  BY LenProperties DEF TreeInv, TypeOK, DeleteRoot
<1>2. ASSUME NEW c \in Children(Root)
      PROVE  c \in Under /\ c \in deleted \union staged
  <2>1. c \in GatheredKeys
    BY DEF DeletionInv
  <2>2. PICK u \in 1 .. Len(under) : under[u] = c
    BY <2>1 DEF GatheredKeys
  <2>3. u <= next
    BY <1>1
  <2>4. QED BY <1>1, <2>2, <2>3 DEF DeletionInv, WalkInv
<1>3. Root \in Visible /\ Root \in Tree /\ Root \notin deleted \union staged
  BY DEF DeletionInv, Tree
<1>4. /\ Refusal(Root) = "ENOENT" => Missing
      /\ Refusal(Root) = "ENOTEMPTY" => ShowsThrough
  BY <1>2, <1>3, QuietNext
<1>5. CASE Refusal(Root) # "none"
  <2>1. /\ result' = [answer |-> Refusal(Root), count |-> 0]
        /\ UNCHANGED <<live, elsewhere, deleted>>
    BY <1>5 DEF DeleteRoot, Return
  <2>2. QED BY <1>4, <2>1, RefusedStays
<1>6. CASE Refusal(Root) = "none"
  BY <1>6 DEF DeleteRoot, Return
<1>7. QED BY <1>5, <1>6

\* GatherInv where nothing it speaks of changes.
LEMMA SameGather ==
  ASSUME UNCHANGED <<live, elsewhere, staged, under, stack>>, GatherInv
  PROVE  GatherInv'
<1>1. /\ GatheredKeys' = GatheredKeys /\ (\A k : Children(k)' = Children(k))
      /\ Visible' = Visible /\ UnderOnce' = UnderOnce /\ ChildrenFirst' = ChildrenFirst
      /\ (\A f : NamesOf(f)' = NamesOf(f))
  BY SameKeys DEF NamesOf
<1>2. UnderInv'
  BY <1>1 DEF GatherInv, UnderInv, UnderLinks
<1>3. PathInv'
  BY <1>1 DEF GatherInv, PathInv, PathKeys, PathLinks, PathOnce, PathPhases
<1>4. NamesInv'
  BY <1>1 DEF GatherInv, NamesInv, NamesOnce, NamesLeft, NamesAhead
<1>5. \A f : Children(stack[f].key)' = Children(stack[f].key)
  BY DEF Children, Visible, Entries
<1>6. ListingInv'
  BY <1>1, <1>5 DEF GatherInv, ListingInv, Order
<1>7. OpeningInv'
  BY <1>1, <1>5 DEF GatherInv, OpeningInv
<1>8. QED BY <1>2, <1>3, <1>4, <1>6, <1>7 DEF GatherInv

\* DeletionInv where nothing it speaks of changes.
LEMMA SameDeletion ==
  ASSUME UNCHANGED <<live, elsewhere, staged, deleted, under, next>>, DeletionInv
  PROVE  DeletionInv'
BY SameKeys DEF DeletionInv

(* QuietInv holds at every step: the moves of gather are the lemmas above, *)
(* and a change by another client ends what it speaks of.                  *)
LEMMA QuietStep ==
  ASSUME TreeInv, QuietInv, [Next]_vars
  PROVE  QuietInv'
<1> SUFFICES ASSUME foreign' = {}
             PROVE  /\ pc' = "gather" => GatherInv'
                    /\ pc' = "delete" /\ txn' # "timed_out" => DeletionInv'
                    /\ result'.answer = "ENOENT" => Missing'
                    /\ result'.answer = "ENOTEMPTY" => ShowsThrough'
  BY DEF QuietInv
<1>1. ASSUME NEW k \in Keys, ForeignCreate(k) \/ ForeignDelete(k) PROVE FALSE
  BY <1>1 DEF ForeignCreate, ForeignDelete
<1>2. foreign = {}
  BY <1>1 DEF Next, delete_tree, CallFails, Others, Over, List, Open, Gathered,
              DeleteUnder, DeleteRoot, Commit, Abort, Timeout, vars
<1>3. /\ pc = "gather" => GatherInv
      /\ pc = "delete" /\ txn # "timed_out" => DeletionInv
      /\ result.answer = "ENOENT" => Missing
      /\ result.answer = "ENOTEMPTY" => ShowsThrough
      /\ pc # "returned" => result.answer = "pending"
  BY <1>2 DEF QuietInv, TreeInv, TxnInv
<1>4. CASE List
  BY <1>3, <1>4, QuietList DEF List, Return
<1>5. CASE Open
  <2>1. GatherInv /\ staged = {} /\ pc = "gather" /\ TypeOK
    BY <1>3, <1>5 DEF Open, TreeInv, TxnInv
  <2>2. Head(Top.names) \in Visible
    <3>1. /\ Top = stack[Len(stack)] /\ Len(stack) \in 1 .. Len(stack)
          /\ Top.names \in Seq(Keys) /\ Top.names # <<>>
      BY <1>5, <2>1, StackType, TopIsFrame DEF Top, Open
    <3>2. 1 \in 1 .. Len(Top.names) /\ Head(Top.names) = Top.names[1]
      BY <3>1, EmptySeq
    <3>3. Head(Top.names) \in NamesOf(Len(stack))
      BY <3>1, <3>2 DEF NamesOf
    <3>4. QED BY <2>1, <3>1, <3>3 DEF NamesLeft, NamesInv, GatherInv
  <2>3. result'.answer \notin {"ENOTEMPTY", "ENOENT"} /\ pc' # "delete"
    BY <1>3, <1>5, <2>2 DEF Open, Return
  <2>4. QED BY <1>5, <2>1, <2>3, QuietOpen
<1>6. CASE Gathered
  BY <1>3, <1>6, QuietGathered, QuietTurn DEF Gathered
<1>7. CASE DeleteUnder
  <2>1. pc = "delete" /\ txn' = txn /\ pc' # "gather"
    BY <1>7 DEF DeleteUnder, Return
  <2>2. CASE txn = "timed_out"
    BY <1>7, <2>1, <2>2 DEF DeleteUnder, Refusal, Return
  <2>3. CASE txn # "timed_out"
    BY <1>3, <1>7, <2>1, <2>3, QuietDelete
  <2>4. QED BY <2>2, <2>3
<1>8. CASE DeleteRoot
  <2>1. pc = "delete" /\ txn' = txn /\ pc' = "returned"
    BY <1>8 DEF DeleteRoot, Return
  <2>2. CASE txn = "timed_out"
    BY <1>8, <2>1, <2>2 DEF DeleteRoot, Refusal, Return
  <2>3. CASE txn # "timed_out"
    BY <1>3, <1>8, <2>1, <2>3, QuietDeleteRoot
  <2>4. QED BY <2>2, <2>3
<1>9. CASE Commit \/ Abort
  <2>1. /\ pc' = "returned" /\ result' = result /\ elsewhere' = elsewhere
        /\ result.answer = "ok" \/ UNCHANGED <<live, deleted>>
    BY <1>9 DEF Commit, Abort
  <2>2. QED BY <1>3, <2>1, RefusedStays
<1>10. CASE Timeout
  <2>1. /\ UNCHANGED <<live, elsewhere, deleted, stack, under, pc, result>> /\ txn' = "timed_out"
        /\ (pc = "gather" => staged' = staged)
    BY <1>10 DEF Timeout, TreeInv, TxnInv
  <2>2. CASE pc = "gather"
    BY <1>3, <2>1, <2>2, SameGather
  <2>3. QED BY <1>3, <2>1, <2>2, RefusedStays
<1>11. CASE UNCHANGED vars
  BY <1>3, <1>11, SameGather, SameDeletion, RefusedStays DEF vars
<1>12. CASE CallFails
  BY <1>3, <1>12 DEF CallFails, Return
<1>13. QED
  BY <1>1, <1>4, <1>5, <1>6, <1>7, <1>8, <1>9, <1>10, <1>11, <1>12
  DEF Next, delete_tree, Others, Over

\* GatherInv holds as the call starts, with nothing listed or gathered.
LEMMA QuietInit == Init => QuietInv
<1> SUFFICES ASSUME Init PROVE GatherInv /\ pc = "gather" /\ result.answer = "pending"
  BY DEF QuietInv
<1>1. /\ Len(stack) = 1 /\ stack[1] = Frame(Root) /\ Len(under) = 0
      /\ pc = "gather" /\ result.answer = "pending" /\ Root \in Visible
  BY DEF Init, Visible, Entries
<1>2. 1 .. Len(stack) = {1} /\ 1 .. Len(under) = {}
  BY <1>1
<1>3. stack[1].key = Root /\ Len(stack[1].names) = 0 /\ stack[1].phase = "listing"
  BY <1>1 DEF Frame
<1>4. GatheredKeys = {} /\ NamesOf(1) = {}
  BY <1>2, <1>3 DEF GatheredKeys, NamesOf
<1>5. 0 <= Cardinality(Children(Root))
  BY TypeInit, ChildrenFinite
<1>6. UnderInv
  BY <1>2, <1>4 DEF UnderInv, UnderOnce, ChildrenFirst, UnderLinks
<1>7. PathInv
  BY <1>1, <1>2, <1>3, <1>4 DEF PathInv, PathKeys, PathLinks, PathOnce, PathPhases
<1>8. NamesInv
  BY <1>1, <1>2, <1>3, <1>4 DEF NamesInv, NamesOnce, NamesLeft, NamesAhead
<1>9. ListingInv
  BY <1>2, <1>3, <1>4, <1>5 DEF ListingInv
<1>10. OpeningInv
  BY <1>2, <1>3 DEF OpeningInv
<1>11. QED BY <1>1, <1>6, <1>7, <1>8, <1>9, <1>10 DEF GatherInv

\* QuietTreeIsDeletable: in a tree no one else touches a key is refused as
\* missing only when the layer never had an entry for it, and for its
\* children only when one of them shows through from another layer.
THEOREM QuietTreeIsDeleted == Spec => []QuietTreeIsDeletable
<1>1. Spec => [](TreeInv /\ QuietInv)
  BY TreeInvCorrect, QuietInit, QuietStep, PTL DEF Spec
<1>2. QuietInv => QuietTreeIsDeletable
  BY DEF QuietInv, QuietTreeIsDeletable, Missing, ShowsThrough
<1>3. QED BY <1>1, <1>2, PTL
=============================================================================
