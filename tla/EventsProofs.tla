---------------------------- MODULE EventsProofs ----------------------------
(***************************************************************************)
(* The sending and the owning side of peios::event: emit_with answers as   *)
(* the policy had it, for every number of threads and policy changes;      *)
(* emit_batch's result tells what is in the ring, for every batch; and     *)
(* EventReader accounts for every event, for every ring and stream.  The   *)
(* payload of an event is MessagePack: its reader loses only bad strings.  *)
(***************************************************************************)
EXTENDS EventEmit, EmitBatch, EventReader, MsgPack, FiniteSetTheorems,
        SequenceTheorems, TLAPS

-----------------------------------------------------------------------------
(* EventPolicy: the types of the shared state and of every call. *)
THEOREM EmitTypeCorrect == Spec => []TypeOK
<1> USE EventEmitAssumption DEF Tiers, Settings, Lengths
<1>1. Init => TypeOK
  BY DEF Init, TypeOK
<1>2. TypeOK /\ [Next]_vars => TypeOK'
  <2> SUFFICES ASSUME TypeOK, [Next]_vars PROVE TypeOK'
    OBVIOUS
  <2> USE DEF TypeOK, Goto, Finish, call
  <2>1. CASE Commit
    <3>1. inForce' \in [Threads -> SUBSET Settings]
      BY <2>1 DEF Commit
    <3>2. QED BY <2>1, <3>1 DEF Commit
  <2>2. ASSUME NEW t \in Threads, NEW tr \in Tiers, NEW n \in Lengths, EmitWith(t, tr, n)
        PROVE  TypeOK'
    BY <2>2 DEF EmitWith
  <2>3. ASSUME NEW t \in Threads, Lock(t) PROVE TypeOK'
    BY <2>3 DEF Lock
  <2>4. ASSUME NEW t \in Threads, Ask(t) PROVE TypeOK'
    <3>1. Decide(tier[t], setting) \in BOOLEAN
      BY DEF Decide
    <3>2. decision' \in [Threads -> BOOLEAN]
      BY <2>4, <3>1 DEF Ask
    <3>3. inside' \subseteq holder' /\ holder' \subseteq Threads
      BY <2>4 DEF Ask
    <3>4. /\ pc' \in [Threads -> {"idle", "lock", "decide", "build", "emit", "done"}]
          /\ res' \in [Threads -> {"true", "false", "err"}]
      BY <2>4 DEF Ask
    <3>5. QED BY <2>4, <3>2, <3>3, <3>4 DEF Ask
  <2>5. ASSUME NEW t \in Threads, AskFails(t) PROVE TypeOK'
    BY <2>5 DEF AskFails
  <2>6. ASSUME NEW t \in Threads, Build(t) PROVE TypeOK'
    BY <2>6 DEF Build
  <2>7. ASSUME NEW t \in Threads, Emit(t) PROVE TypeOK'
    <3>1. emitted' \in [Threads -> BOOLEAN]
      BY <2>7 DEF Emit
    <3>2. /\ pc' \in [Threads -> {"idle", "lock", "decide", "build", "emit", "done"}]
          /\ res' \in [Threads -> {"true", "false", "err"}]
      BY <2>7 DEF Emit
    <3>3. QED BY <2>7, <3>1, <3>2 DEF Emit
  <2>8. ASSUME NEW t \in Threads, Return(t) PROVE TypeOK'
    BY <2>8 DEF Return
  <2>9. CASE UNCHANGED vars
    BY <2>9 DEF vars
  <2>10. QED
    BY <2>1, <2>2, <2>3, <2>4, <2>5, <2>6, <2>7, <2>8, <2>9 DEF Next, Thread
<1>3. QED BY <1>1, <1>2, PTL DEF Spec

(* The mutex: whoever holds it is inside the C call, alone. *)
MutexInv ==
  /\ \A t \in Threads : t \in holder <=> pc[t] = "decide"
  /\ \A t, u \in holder : t = u

\* The mutex has one holder, in every state that is reached.
LEMMA MutexCorrect == Spec => []MutexInv
<1>1. Init => MutexInv
  BY DEF Init, MutexInv
<1>2. TypeOK /\ MutexInv /\ [Next]_vars => MutexInv'
  <2> SUFFICES ASSUME TypeOK, MutexInv, [Next]_vars PROVE MutexInv'
    OBVIOUS
  <2> USE DEF TypeOK, MutexInv, Goto, Finish
  <2>1. CASE Commit BY <2>1 DEF Commit
  <2>2. ASSUME NEW t \in Threads, NEW tr \in Tiers, NEW n \in Lengths, EmitWith(t, tr, n)
        PROVE  MutexInv'
    BY <2>2 DEF EmitWith
  <2>3. ASSUME NEW t \in Threads, Lock(t) PROVE MutexInv'
    BY <2>3 DEF Lock
  <2>4. ASSUME NEW t \in Threads, Ask(t) \/ AskFails(t) PROVE MutexInv'
    <3>1. holder' = holder \ {t} /\ \E l \in {"build", "done"} : pc' = [pc EXCEPT ![t] = l]
      BY <2>4 DEF Ask, AskFails
    <3>2. QED BY <3>1
  <2>5. ASSUME NEW t \in Threads, Build(t) \/ Emit(t) \/ Return(t) PROVE MutexInv'
    <3>1. /\ holder' = holder /\ pc[t] # "decide"
          /\ \E l \in {"emit", "done", "idle"} : pc' = [pc EXCEPT ![t] = l]
      BY <2>5 DEF Build, Emit, Return
    <3>2. QED BY <3>1
  <2>6. CASE UNCHANGED vars BY <2>6 DEF vars
  <2>7. QED BY <2>1, <2>2, <2>3, <2>4, <2>5, <2>6 DEF Next, Thread
<1>3. QED BY <1>1, <1>2, EmitTypeCorrect, PTL DEF Spec

(* The policy handle is never inside two calls. *)
THEOREM MutualExclusion == Spec => []OneAtATime
<1>1. TypeOK /\ MutexInv => OneAtATime
  <2> SUFFICES ASSUME TypeOK, MutexInv PROVE Cardinality(inside) <= 1
    BY DEF OneAtATime
  <2>1. CASE inside = {}
    BY <2>1, FS_EmptySet
  <2>2. CASE inside # {}
    <3>1. PICK t : t \in inside
      BY <2>2
    <3>2. inside = {t}
      BY <3>1 DEF TypeOK, MutexInv
    <3>3. QED BY <3>2, FS_Singleton
  <2>3. QED BY <2>1, <2>2
<1>2. QED BY <1>1, EmitTypeCorrect, MutexCorrect, PTL

-----------------------------------------------------------------------------
(* What a call has done by each of its steps: the setting in force now is  *)
(* among those of the call, an event is built and emitted only after a     *)
(* decision for it, and only a finished call has emitted.                  *)
CallInv == \A t \in Threads :
  /\ pc[t] # "idle" => setting \in inForce[t]
  /\ pc[t] \in {"build", "emit"} \/ emitted[t] \/ built[t]
       => \E s \in inForce[t] : Decide(tier[t], s)
  /\ built[t] => pc[t] \in {"emit", "done"}
  /\ emitted[t] => pc[t] = "done"

\* Every step of every call keeps its answer explained by a policy in force.
LEMMA CallCorrect == Spec => [](CallInv /\ AnswerMatchesPolicy)
<1>1. Init => CallInv /\ AnswerMatchesPolicy
  BY DEF Init, CallInv, AnswerMatchesPolicy
<1>2. TypeOK /\ CallInv /\ AnswerMatchesPolicy /\ [Next]_vars
      => CallInv' /\ AnswerMatchesPolicy'
  <2> SUFFICES ASSUME TypeOK, CallInv, AnswerMatchesPolicy, [Next]_vars
               PROVE  CallInv' /\ AnswerMatchesPolicy'
    OBVIOUS
  <2> USE DEF TypeOK, CallInv, AnswerMatchesPolicy, Goto, Finish, call
  <2>1. CASE Commit
    <3>1. \A t \in Threads : /\ inForce[t] \subseteq inForce'[t] \/ pc[t] = "idle"
                             /\ pc[t] # "idle" => setting' \in inForce'[t]
      BY <2>1 DEF Commit
    <3>2. QED BY <2>1, <3>1 DEF Commit
  <2>2. ASSUME NEW t \in Threads, NEW tr \in Tiers, NEW n \in Lengths, EmitWith(t, tr, n)
        PROVE  CallInv' /\ AnswerMatchesPolicy'
    BY <2>2 DEF EmitWith
  <2>3. ASSUME NEW t \in Threads, Lock(t) PROVE CallInv' /\ AnswerMatchesPolicy'
    BY <2>3 DEF Lock
  <2>4. ASSUME NEW t \in Threads, Ask(t) PROVE CallInv' /\ AnswerMatchesPolicy'
    <3>1. CASE Decide(tier[t], setting)
      BY <2>4, <3>1 DEF Ask
    <3>2. CASE ~Decide(tier[t], setting)
      BY <2>4, <3>2 DEF Ask
    <3>3. QED BY <3>1, <3>2
  <2>5. ASSUME NEW t \in Threads, AskFails(t) PROVE CallInv' /\ AnswerMatchesPolicy'
    BY <2>5 DEF AskFails
  <2>6. ASSUME NEW t \in Threads, Build(t) PROVE CallInv' /\ AnswerMatchesPolicy'
    BY <2>6 DEF Build
  <2>7. ASSUME NEW t \in Threads, Emit(t) PROVE CallInv' /\ AnswerMatchesPolicy'
    BY <2>7 DEF Emit
  <2>8. ASSUME NEW t \in Threads, Return(t) PROVE CallInv' /\ AnswerMatchesPolicy'
    BY <2>8 DEF Return
  <2>9. CASE UNCHANGED vars
    BY <2>9 DEF vars
  <2>10. QED
    BY <2>1, <2>2, <2>3, <2>4, <2>5, <2>6, <2>7, <2>8, <2>9 DEF Next, Thread
<1>3. QED BY <1>1, <1>2, EmitTypeCorrect, PTL DEF Spec

(* However the policy changes under a call of emit_with, its answer is one *)
(* that was right during the call.                                         *)
THEOREM AnswerCorrect == Spec => []AnswerMatchesPolicy
BY CallCorrect, PTL

-----------------------------------------------------------------------------
(* EventReader: the events given are named ones, in the order of the       *)
(* stream, up to the position; with the types of the reader's state.       *)
ReaderInv ==
  /\ published \in Seq({"named", "unnamed", "dropped"})
  /\ position \in 0 .. Len(published) /\ gaps \in Nat /\ errors \in Nat
  /\ given \in Seq(Nat)
  /\ \A i \in 1 .. Len(given) : /\ given[i] \in 1 .. position
                                /\ published[given[i]] = "named"
  /\ \A i \in 2 .. Len(given) : given[i - 1] < given[i]

\* The way the reader has come: returned events, losses, and errors.
Accounted == position - gaps - Len(given) \in 0 .. errors

(* Every event the reader is past was returned, counted as lost, or had an *)
(* error of its own, for every ring and every stream of events, whatever   *)
(* other errors `next` returns.                                            *)
THEOREM ReaderCorrect == ReaderSpec => []EveryEventIsAccountedFor
<1>1. ReaderInit => ReaderInv /\ Accounted
  <2> SUFFICES ASSUME ReaderInit PROVE ReaderInv /\ Accounted
    OBVIOUS
  <2>1. given = <<>> /\ Len(given) = 0
    BY EmptySeq DEF ReaderInit
  <2>2. ReaderInv
    BY EmptySeq, <2>1 DEF ReaderInit, ReaderInv
  <2>3. position = 0 /\ gaps = 0 /\ errors = 0 /\ Len(given) = 0
    BY <2>1 DEF ReaderInit
  <2>4. Accounted
    BY <2>3, SMT DEF Accounted
  <2>5. QED BY <2>2, <2>4
<1>2. ReaderInv /\ Accounted /\ [ReaderNext]_readerState => ReaderInv' /\ Accounted'
  <2> SUFFICES ASSUME ReaderInv, Accounted, [ReaderNext]_readerState
               PROVE  ReaderInv' /\ Accounted'
    OBVIOUS
  <2> USE DEF ReaderInv, Accounted
  <2>1. CASE Publish
    <3>1. PICK e \in {"named", "unnamed", "dropped"} : published' = Append(published, e)
      BY <2>1 DEF Publish
    <3>2. /\ published' \in Seq({"named", "unnamed", "dropped"})
          /\ Len(published') = Len(published) + 1
          /\ \A i \in 1 .. Len(published) : published'[i] = published[i]
      BY <3>1, AppendProperties
    <3>3. QED BY <2>1, <3>2 DEF Publish
  <2>2. CASE NextEvent
    <3>1. PICK i \in Stored :
             /\ position' = i /\ gaps' = gaps + i - 1 - position
             /\ IF published[i] = "named"
                THEN given' = Append(given, i) /\ UNCHANGED errors
                ELSE errors' = errors + 1 /\ UNCHANGED given
      BY <2>2 DEF NextEvent, Advance
    <3>2. i \in 1 .. Len(published) /\ i \in Nat /\ i > position
      BY LenProperties DEF Stored
    <3>3. published' = published
      BY <2>2 DEF NextEvent
    <3>4. CASE published[i] = "named"
      <4>1. given' = Append(given, i) /\ errors' = errors
        BY <3>1, <3>4
      <4>2. /\ given' \in Seq(Nat) /\ Len(given') = Len(given) + 1
            /\ \A j \in 1 .. Len(given) : given'[j] = given[j]
            /\ given'[Len(given) + 1] = i
        BY <3>2, <4>1, AppendProperties
      <4>3. \A j \in 1 .. Len(given') : /\ given'[j] \in 1 .. position'
                                       /\ published'[given'[j]] = "named"
        <5> SUFFICES ASSUME NEW j \in 1 .. Len(given')
                     PROVE  given'[j] \in 1 .. position' /\ published'[given'[j]] = "named"
          OBVIOUS
        <5>1. CASE j \in 1 .. Len(given)
          <6>1. given'[j] = given[j] /\ given[j] \in 1 .. position /\ position' = i
            BY <3>1, <4>2, <5>1
          <6>2. QED BY <3>2, <3>3, <5>1, <6>1
        <5>2. CASE j = Len(given) + 1
          <6>1. given'[j] = i /\ position' = i
            BY <3>1, <4>2, <5>2
          <6>2. QED BY <3>2, <3>3, <3>4, <6>1
        <5>3. QED BY <4>2, <5>1, <5>2, LenProperties
      <4>4. \A j \in 2 .. Len(given') : given'[j - 1] < given'[j]
        <5> SUFFICES ASSUME NEW j \in 2 .. Len(given') PROVE given'[j - 1] < given'[j]
          OBVIOUS
        <5> DEFINE k == j - 1
        <5>1. k \in 1 .. Len(given)
          BY <4>2, LenProperties
        <5> HIDE DEF k
        <5>2. given'[k] = given[k]
          BY <4>2, <5>1
        <5>3. j - 1 \in 1 .. Len(given) /\ given'[j - 1] = given[j - 1]
          BY <5>1, <5>2 DEF k
        <5>4. CASE j \in 2 .. Len(given)
          BY <4>2, <5>3, <5>4
        <5>5. CASE j = Len(given) + 1
          <6>1. given'[j] = i /\ given[j - 1] \in 1 .. position
            BY <4>2, <5>3, <5>5
          <6>2. QED BY <3>2, <5>3, <6>1
        <5>6. QED BY <4>2, <5>4, <5>5, LenProperties
      <4>5. Accounted' /\ gaps' \in Nat
        BY <3>1, <3>2, <4>1, <4>2
      <4>6. position' \in 0 .. Len(published')
        BY <3>1, <3>2, <3>3
      <4>7. QED BY <3>3, <4>1, <4>2, <4>3, <4>4, <4>5, <4>6
    <3>5. CASE published[i] # "named"
      BY <3>1, <3>2, <3>3, <3>5
    <3>6. QED BY <3>4, <3>5
  <2>3. CASE NextFails \/ NextNone \/ Wait \/ UNCHANGED readerState
    <3>1. /\ UNCHANGED <<published, position, gaps, given>>
          /\ errors' \in {errors, errors + 1} /\ mode' \in {mode, "wait", "drain"}
      BY <2>3 DEF NextFails, NextNone, Wait, readerState
    <3>2. QED BY <3>1
  <2>4. QED BY <2>1, <2>2, <2>3 DEF ReaderNext
<1>3. ReaderInv /\ Accounted => EveryEventIsAccountedFor
  <2> SUFFICES ASSUME ReaderInv, Accounted, NEW i \in DOMAIN given
               PROVE  published[given[i]] = "named" /\ (i > 1 => given[i - 1] < given[i])
    BY DEF EveryEventIsAccountedFor, Accounted
  <2>1. i \in 1 .. Len(given)
    BY LenProperties DEF ReaderInv
  <2>2. i > 1 => i \in 2 .. Len(given)
    BY <2>1, LenProperties DEF ReaderInv
  <2>3. QED BY <2>1, <2>2 DEF ReaderInv
<1>4. QED BY <1>1, <1>2, <1>3, PTL DEF ReaderSpec

-----------------------------------------------------------------------------
(* emit_batch: `raw` is the marshalled beginning of the caller's slice and *)
(* the ring holds the beginning of `raw`, all of it good; nothing is in    *)
(* the ring before the whole slice is marshalled.                          *)
BatchInv ==
  /\ entries \in Seq(Entry) /\ raw \in Seq(Entry) /\ ring \in Seq(Entry)
  /\ Len(raw) <= Len(entries) /\ Len(ring) <= Len(raw)
  /\ \A i \in 1 .. Len(raw) : raw[i] = entries[i] /\ raw[i] # "too_long"
  /\ \A i \in 1 .. Len(ring) : ring[i] = raw[i]
  /\ Len(ring) > 0 \/ stage = "kernel" => Len(raw) = Len(entries)
  /\ stage = "done" /\ outcome = "ok"
       => Len(raw) = Len(entries) /\ Len(ring) = Len(raw) /\ count = Len(ring)

\* emit_batch's result tells what is in the ring, however the kernel stops it.
THEOREM BatchCorrect == BatchSpec => []ResultTellsTheRing
<1>1. BatchInit => BatchInv
  <2> SUFFICES ASSUME BatchInit PROVE BatchInv
    OBVIOUS
  <2>1. PICK n \in 0 .. MaxBatch : entries \in [1 .. n -> Entry]
    BY DEF BatchInit
  <2>2. n \in Nat
    BY EmitBatchAssumption
  <2>3. entries \in Seq(Entry) /\ Len(entries) = n
    BY <2>1, <2>2
  <2>4. QED BY <2>3, EmptySeq DEF BatchInit, BatchInv
<1>2. BatchInv /\ [BatchNext]_batchVars => BatchInv'
  <2> SUFFICES ASSUME BatchInv, [BatchNext]_batchVars PROVE BatchInv'
    OBVIOUS
  <2> USE DEF BatchInv, BatchEnd
  <2>1. CASE CountEntries BY <2>1 DEF CountEntries
  <2>2. CASE Marshal
    <3> DEFINE e == entries[Len(raw) + 1]
    <3>1. Len(raw) + 1 \in 1 .. Len(entries) /\ e \in Entry
      BY <2>2, LenProperties, ElementOfSeq DEF Marshal
    <3>2. CASE e = "too_long"
      BY <2>2, <3>2 DEF Marshal
    <3>3. CASE e # "too_long"
      <4>1. raw' = Append(raw, e) /\ UNCHANGED <<stage, outcome, count, entries, ring>>
        BY <2>2, <3>3 DEF Marshal
      <4>2. /\ raw' \in Seq(Entry) /\ Len(raw') = Len(raw) + 1
            /\ \A i \in 1 .. Len(raw) : raw'[i] = raw[i]
            /\ raw'[Len(raw) + 1] = e
        BY <3>1, <4>1, AppendProperties
      <4>3. stage = "marshal" /\ Len(ring) = 0
        BY <2>2, LenProperties DEF Marshal
      <4>4. QED BY <3>1, <3>3, <4>1, <4>2, <4>3
    <3>4. QED BY <3>2, <3>3
  <2>3. CASE Submit BY <2>3 DEF Submit
  <2>4. CASE KernelTakes
    <3>1. ring' = Append(ring, "good") /\ UNCHANGED <<entries, raw, stage, outcome, count>>
      BY <2>4 DEF KernelTakes
    <3>2. /\ ring' \in Seq(Entry) /\ Len(ring') = Len(ring) + 1
          /\ \A i \in 1 .. Len(ring) : ring'[i] = ring[i]
          /\ ring'[Len(ring) + 1] = "good"
      BY <3>1, AppendProperties DEF Entry
    <3>3. stage = "kernel" /\ Len(ring) < Len(raw) /\ raw[Len(ring) + 1] = "good"
      BY <2>4 DEF KernelTakes
    <3>4. QED BY <3>1, <3>2, <3>3
  <2>5. CASE Failed \/ Succeeded BY <2>5 DEF Failed, Succeeded
  <2>6. CASE Finished \/ UNCHANGED batchVars BY <2>6 DEF Finished, batchVars
  <2>7. QED BY <2>1, <2>2, <2>3, <2>4, <2>5, <2>6 DEF BatchNext
<1>3. BatchInv => ResultTellsTheRing
  <2> SUFFICES ASSUME BatchInv PROVE ResultTellsTheRing
    OBVIOUS
  <2> USE DEF BatchInv
  <2>1. ASSUME stage = "done", outcome = "ok" PROVE ring = entries /\ count = Len(entries)
    <3>1. Len(ring) = Len(entries) /\ \A i \in 1 .. Len(ring) : ring[i] = entries[i]
      BY <2>1
    <3>2. ring = entries
      BY <3>1, SeqEqual
    <3>3. QED BY <2>1, <3>2
  <2>2. ASSUME NEW i \in DOMAIN entries, entries[i] = "too_long" PROVE ring = <<>>
    <3>1. i \in 1 .. Len(entries)
      BY LenProperties
    <3>2. Len(ring) = 0
      BY <2>2, <3>1, LenProperties
    <3>3. QED BY <3>2, EmptySeq
  <2>3. QED BY <2>1, <2>2 DEF ResultTellsTheRing
<1>4. QED BY <1>1, <1>2, <1>3, PTL DEF BatchSpec

-----------------------------------------------------------------------------
(* MessagePack.  The cursor stays inside the buffer, and a buffer is not   *)
(* changed while a reader is over it.                                      *)
CursorInside == cursor \in Nat /\ input \in Seq(Item \cup {BadStr}) /\ cursor <= Len(input)

\* What a writer writes is UTF-8.
LEMMA ItemsAreUtf8 == \A item \in Item : item.utf8
  BY DEF Item

(* Whatever a reader consumes is given to the program, was skipped at its  *)
(* request, or is a string that is not UTF-8.                              *)
THEOREM ReaderLosesOnlyBadStrings == MsgSpec => []OnlyBadStringsAreLost
<1> DEFINE Inv == /\ items \in Seq(Item \cup {BadStr}) /\ packed \in Seq(Item \cup {BadStr})
                  /\ CursorInside /\ OnlyBadStringsAreLost
<1>1. MsgInit => Inv
  BY DEF MsgInit, NoBytes, CursorInside, OnlyBadStringsAreLost
<1>2. Inv /\ [MsgNext]_mpVars => Inv'
  <2> SUFFICES ASSUME Inv, [MsgNext]_mpVars PROVE Inv'
    OBVIOUS
  <2>1. CASE Reset
    BY <2>1 DEF Reset, readerVars, CursorInside, OnlyBadStringsAreLost
  <2>2. CASE to_bytes
    BY <2>2 DEF to_bytes, NoBytes, readerVars, CursorInside, OnlyBadStringsAreLost
  <2>3. CASE Over
    <3>1. input' \in Seq(Item \cup {BadStr})
      <4>1. CASE input' = packed
        BY <4>1
      <4>2. CASE input' = <<BadStr>>
        BY <4>2
      <4>3. ASSUME NEW pair \in Item, NEW item \in Item, input' = <<pair, BadStr, item>>
            PROVE  input' \in Seq(Item \cup {BadStr})
        BY <4>3
      <4> QED
        BY <2>3, <4>1, <4>2, <4>3 DEF Over
    <3> QED
      BY <2>3, <3>1 DEF Over, NoBytes, CursorInside, OnlyBadStringsAreLost
  <2>4. CASE skip
    BY <2>4 DEF skip, writerVars, CursorInside, OnlyBadStringsAreLost
  <2>5. ASSUME NEW item \in Item \cup {BadStr}, NEW taken \in BOOLEAN, WriteItem(item, taken)
        PROVE  Inv'
    BY <2>5 DEF WriteItem, readerVars, CursorInside, OnlyBadStringsAreLost
  <2>6. ASSUME NEW type \in Scalars \cup {"array", "map"}, read(type) PROVE Inv'
    <3>1. Next_ \in Item \cup {BadStr}
      BY <2>6 DEF read, AtEnd, Next_, CursorInside
    <3>2. ~Next_.utf8 => Next_.type = "str"
      BY <3>1, ItemsAreUtf8 DEF BadStr
    <3> QED
      BY <2>6, <3>2 DEF read, AtEnd, Next_, writerVars, CursorInside, OnlyBadStringsAreLost
  <2>7. CASE UNCHANGED mpVars
    BY <2>7 DEF mpVars, CursorInside, OnlyBadStringsAreLost
  <2> QED
    BY <2>1, <2>2, <2>3, <2>4, <2>5, <2>6, <2>7 DEF MsgNext
<1> QED
  BY <1>1, <1>2, PTL DEF MsgSpec
=============================================================================
