----------------------------- MODULE EventEmit -----------------------------
(***************************************************************************)
(* The emission side of peios::event: threads that share one EventPolicy   *)
(* and call emit_with, racing an administrator who commits changes to the  *)
(* emission policy in the registry.                                        *)
(*                                                                         *)
(* libpeios' policy view is external: its handle serves one thread at a    *)
(* time, it follows the registry's committed setting, and it decides by    *)
(* tier when nothing is set or the registry cannot be read.                *)
(***************************************************************************)
EXTENDS Integers, FiniteSets

CONSTANTS
  Threads,     \* threads sharing the EventPolicy
  MaxChanges   \* bound: policy changes in a behaviour

ASSUME EventEmitAssumption == MaxChanges \in Nat

Tiers == {"essential", "standard", "verbose", "debug"}
Settings == {"unset", "on", "off", "unreadable"}
Lengths == {"fits", "too_long"}     \* the event type against a u16

VARIABLES
  setting,    \* the registry's committed setting for the event type
  changes,    \* how often it was changed
  holder,     \* who holds the EventPolicy's mutex: a set of threads
  inside,     \* threads inside peios_event_policy_enabled
  pc, tier, length,  \* per thread: where emit_with stands, its arguments
  decision,   \* per thread: what `enabled` returned
  built,      \* per thread: the payload was built
  emitted,    \* per thread: the event reached the kernel
  res,        \* per thread: "true", "false" or "err"
  inForce     \* history, per thread: settings in force during the call

call == <<tier, length, decision, built, emitted, res>>
vars == <<setting, changes, holder, inside, pc, call, inForce>>

\* The policy's decision for a tier under a setting (PGSS 6.8).
Decide(t, s) ==
  \/ t = "essential"
  \/ s = "on"
  \/ s \in {"unset", "unreadable"} /\ t = "standard"

Init ==
  /\ setting \in Settings /\ changes = 0
  /\ holder = {} /\ inside = {}
  /\ pc = [t \in Threads |-> "idle"]
  /\ tier = [t \in Threads |-> "debug"]
  /\ length = [t \in Threads |-> "fits"]
  /\ decision = [t \in Threads |-> FALSE]
  /\ built = [t \in Threads |-> FALSE]
  /\ emitted = [t \in Threads |-> FALSE]
  /\ res = [t \in Threads |-> "false"]
  /\ inForce = [t \in Threads |-> {}]

\* An administrator commits a change, or the registry comes or goes.
Commit ==
  /\ changes < MaxChanges
  /\ setting' \in Settings \ {setting}
  /\ changes' = changes + 1
  /\ inForce' = [t \in Threads |-> IF pc[t] = "idle" THEN {} ELSE inForce[t] \cup {setting'}]
  /\ UNCHANGED <<holder, inside, pc, call>>

Goto(t, l) == pc' = [pc EXCEPT ![t] = l]
Finish(t, r) == Goto(t, "done") /\ res' = [res EXCEPT ![t] = r]

\* emit_with is called; `enabled` refuses a type longer than a u16 at once.
EmitWith(t, tr, n) ==
  /\ pc[t] = "idle"
  /\ tier' = [tier EXCEPT ![t] = tr]
  /\ length' = [length EXCEPT ![t] = n]
  /\ inForce' = [inForce EXCEPT ![t] = {setting}]
  /\ IF n = "too_long" THEN Finish(t, "err") ELSE Goto(t, "lock") /\ UNCHANGED res
  /\ UNCHANGED <<setting, changes, holder, inside, decision, built, emitted>>

\* Mutant: the handle is used without the mutex.
LockSkipped(t) ==
  /\ pc[t] = "lock"
  /\ inside' = inside \cup {t}
  /\ Goto(t, "decide")
  /\ UNCHANGED <<setting, changes, holder, call, inForce>>

\* Mutant: a decision of an earlier call is used again.
AskReusesDecision(t) ==
  /\ pc[t] = "decide"
  /\ decision' = [decision EXCEPT ![t] = decision[t] \/ Decide(tier[t], setting)]
  /\ holder' = holder \ {t} /\ inside' = inside \ {t}
  /\ IF decision'[t] THEN Goto(t, "build") /\ UNCHANGED res ELSE Finish(t, "false")
  /\ UNCHANGED <<setting, changes, tier, length, built, emitted, inForce>>

\* Mutant: the guard is not dropped when the decision is "off".
AskKeepsLock(t) ==
  /\ pc[t] = "decide"
  /\ decision' = [decision EXCEPT ![t] = Decide(tier[t], setting)]
  /\ inside' = inside \ {t}
  /\ holder' = IF decision'[t] THEN holder \ {t} ELSE holder
  /\ IF decision'[t] THEN Goto(t, "build") /\ UNCHANGED res ELSE Finish(t, "false")
  /\ UNCHANGED <<setting, changes, tier, length, built, emitted, inForce>>

\* self.raw.lock(): waits for the mutex; a poisoned one is taken all the same.
Lock(t) ==
  /\ pc[t] = "lock"
  /\ holder = {}
  /\ holder' = {t} /\ inside' = inside \cup {t}
  /\ Goto(t, "decide")
  /\ UNCHANGED <<setting, changes, call, inForce>>

\* The C call answers and the guard is dropped with `enabled`'s return: an
\* event that is off ends here, before its payload is built.
Ask(t) ==
  /\ pc[t] = "decide"
  /\ decision' = [decision EXCEPT ![t] = Decide(tier[t], setting)]
  /\ holder' = holder \ {t} /\ inside' = inside \ {t}
  /\ IF decision'[t] THEN Goto(t, "build") /\ UNCHANGED res ELSE Finish(t, "false")
  /\ UNCHANGED <<setting, changes, tier, length, built, emitted, inForce>>

\* `enabled` may also fail (a malformed type): nothing is emitted.
AskFails(t) ==
  /\ pc[t] = "decide"
  /\ holder' = holder \ {t} /\ inside' = inside \ {t}
  /\ Finish(t, "err")
  /\ UNCHANGED <<setting, changes, tier, length, decision, built, emitted, inForce>>

\* The caller's closure runs outside the lock.
Build(t) ==
  /\ pc[t] = "build"
  /\ built' = [built EXCEPT ![t] = TRUE]
  /\ Goto(t, "emit")
  /\ UNCHANGED <<setting, changes, holder, inside, tier, length, decision, emitted, res, inForce>>

\* emit: the kernel takes the event, or refuses it (rate, payload, privilege).
Emit(t) ==
  /\ pc[t] = "emit"
  /\ \/ emitted' = [emitted EXCEPT ![t] = TRUE] /\ Finish(t, "true")
     \/ UNCHANGED emitted /\ Finish(t, "err")
  /\ UNCHANGED <<setting, changes, holder, inside, tier, length, decision, built, inForce>>

Return(t) ==
  /\ pc[t] = "done"
  /\ Goto(t, "idle")
  /\ built' = [built EXCEPT ![t] = FALSE]
  /\ emitted' = [emitted EXCEPT ![t] = FALSE]
  /\ res' = [res EXCEPT ![t] = "false"]
  /\ inForce' = [inForce EXCEPT ![t] = {}]
  /\ UNCHANGED <<setting, changes, holder, inside, tier, length, decision>>

Thread(t) ==
  \/ \E tr \in Tiers, n \in Lengths : EmitWith(t, tr, n)
  \/ Lock(t) \/ Ask(t) \/ AskFails(t) \/ Build(t) \/ Emit(t) \/ Return(t)

Next == Commit \/ \E t \in Threads : Thread(t)

Spec == Init /\ [][Next]_vars

\* A call that started goes on, and a mutex that keeps being released is
\* eventually granted; nobody has to call, nobody has to change the policy.
Step(t) == Ask(t) \/ AskFails(t) \/ Build(t) \/ Emit(t)
Fairness == \A t \in Threads : WF_vars(Step(t)) /\ SF_vars(Lock(t))
FairSpec == Spec /\ Fairness

-----------------------------------------------------------------------------
\* The types of the shared state and of every thread's call.
TypeOK ==
  /\ setting \in Settings /\ changes \in 0 .. MaxChanges
  /\ holder \subseteq Threads
  /\ inside \subseteq holder
  /\ pc \in [Threads -> {"idle", "lock", "decide", "build", "emit", "done"}]
  /\ tier \in [Threads -> Tiers] /\ length \in [Threads -> Lengths]
  /\ decision \in [Threads -> BOOLEAN]
  /\ built \in [Threads -> BOOLEAN] /\ emitted \in [Threads -> BOOLEAN]
  /\ res \in [Threads -> {"true", "false", "err"}]
  /\ inForce \in [Threads -> SUBSET Settings]

\* libpeios' handle, usable "one thread at a time", is never inside two
\* calls: the mutex covers every use of it.
OneAtATime == Cardinality(inside) <= 1

\* emit_with's answer is right for a setting that was in force during the
\* call, however the policy changes under it: nothing is emitted that was
\* off throughout, nothing is dropped that was on throughout.  And it is
\* "true" exactly when the kernel has the event.
AnswerMatchesPolicy ==
  \A t \in Threads : pc[t] = "done" =>
    /\ emitted[t] \/ built[t] => \E s \in inForce[t] : Decide(tier[t], s)
    /\ res[t] = "false" => \E s \in inForce[t] : ~Decide(tier[t], s)
    /\ res[t] = "true" <=> emitted[t]

\* Every call to emit_with returns: no decision leaves the mutex held, and no
\* thread waits on it for ever.
EveryCallReturns == \A t \in Threads : pc[t] = "lock" ~> pc[t] = "done"
=============================================================================
