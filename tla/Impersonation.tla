--------------------------- MODULE Impersonation ---------------------------
(***************************************************************************)
(* Impersonation and access checks: the Token handles a thread opens,      *)
(* Token::impersonate, impersonate_peer, impersonate_scoped, revert and    *)
(* the Impersonation guard (token.rs), and AccessCheck (access.rs).        *)
(*                                                                         *)
(* The kernel keeps one impersonation token per thread.  A guard records   *)
(* only that it is active: its drop reverts whatever its thread then       *)
(* impersonates, and the kernel's revert restores no earlier token.        *)
(* Guards of a thread may overlap and be dropped in any order; they are    *)
(* not Send, so each is dropped by the thread that made it.                *)
(***************************************************************************)
EXTENDS Integers, Sequences, FiniteSets, SequencesExt

CONSTANTS Threads, Clients, Rights,
          Self,       \* the process's real identity
          NoToken,       \* Option::None, fd -1, "not impersonating"
          Held,       \* Held[k]: the rights the guarded object grants identity k
          Word,       \* 2^32: check_list passes its count as a u32
          MaxGuards, MaxSteps   \* bounds: live guards of a thread, calls in all

Identities == Clients \cup {Self}

ASSUME IdentityAssumption ==
    /\ Self \notin Clients /\ NoToken \notin Identities
    /\ Held \in [Identities -> SUBSET Rights]
    /\ Word \in Nat \ {0} /\ MaxGuards \in Nat /\ MaxSteps \in Nat

VARIABLES
    imp,        \* imp[t]: the client whose token the kernel has installed on t, or NoToken
    handle,     \* handle[t]: the identity of the token t has open, or NoToken
    guards,     \* guards[t]: the tokens of t's live Impersonation guards, oldest first
    check,      \* check[t]: the fields of t's AccessCheck builder
    decision,     \* decision[t]: t's last decision and how t stood when it asked
    adopted,    \* adopted[t]: the token taken without a guard since the last revert
    overstay,   \* overstay[t]: the token a failed revert left in place
    fresh,      \* fresh[t]: making its newest guard was t's last change of identity
    steps       \* calls made so far

identity == <<imp, guards, adopted, overstay, fresh>>
threadVars == <<imp, handle, guards, check, decision, adopted, overstay, fresh, steps>>

Unanswered == [granted |-> <<>>, allowed |-> {}]
NewCheck == [token |-> NoToken, desired |-> Rights]

ThreadInit ==
    /\ imp = [t \in Threads |-> NoToken]
    /\ handle \in [Threads -> Clients \cup {NoToken}]
    /\ guards = [t \in Threads |-> <<>>]
    /\ check = [t \in Threads |-> NewCheck]
    /\ decision = [t \in Threads |-> Unanswered]
    /\ adopted = [t \in Threads |-> NoToken]
    /\ overstay = [t \in Threads |-> NoToken]
    /\ fresh = [t \in Threads |-> FALSE]
    /\ steps = 0

Call == steps < MaxSteps /\ steps' = steps + 1

Effective(t) == IF imp[t] = NoToken THEN Self ELSE imp[t]

----------------------------------------------------------------------------
(* Handles: open_self, with or without `real`, and open_peer of a socket.  *)
Open(t, who) ==
    /\ Call
    /\ handle' = [handle EXCEPT ![t] = who]
    /\ UNCHANGED <<identity, check, decision>>

open_self(t, real) == Open(t, IF real THEN Self ELSE Effective(t))
open_peer(t, c) == Open(t, c)

(* Adopting a token without a guard: Token::impersonate of the open        *)
(* handle, or impersonate_peer, which opens, installs and closes.          *)
Adopt(t, c) ==
    /\ Call
    /\ imp' = [imp EXCEPT ![t] = c]
    /\ adopted' = [adopted EXCEPT ![t] = c]
    /\ fresh' = [fresh EXCEPT ![t] = FALSE]
    /\ UNCHANGED <<handle, guards, check, decision, overstay>>

impersonate(t) == handle[t] \in Clients /\ Adopt(t, handle[t])
impersonate_peer(t, c) == Adopt(t, c)

(* A guard is made only after the kernel installed the token: a primary    *)
(* token is refused, and so may any other be, with no guard returned.      *)
impersonate_scoped(t, ok) ==
    /\ Call
    /\ handle[t] # NoToken /\ Len(guards[t]) < MaxGuards
    /\ ok => handle[t] \in Clients
    /\ IF ok THEN /\ imp' = [imp EXCEPT ![t] = handle[t]]
                  /\ guards' = [guards EXCEPT ![t] = Append(@, handle[t])]
                  /\ fresh' = [fresh EXCEPT ![t] = TRUE]
             ELSE UNCHANGED <<imp, guards, fresh>>
    /\ UNCHANGED <<handle, check, decision, adopted, overstay>>

(* Token::revert on the calling thread: it clears the thread's             *)
(* impersonation entirely, or it fails and leaves it.                      *)
Reverted(t, ok) ==
    /\ imp' = IF ok THEN [imp EXCEPT ![t] = NoToken] ELSE imp
    /\ adopted' = IF ok THEN [adopted EXCEPT ![t] = NoToken] ELSE adopted
    /\ overstay' = [overstay EXCEPT ![t] = IF ok THEN NoToken ELSE imp[t]]
    /\ fresh' = [fresh EXCEPT ![t] = FALSE]

revert(t, ok) ==
    /\ Call
    /\ Reverted(t, ok)
    /\ UNCHANGED <<handle, guards, check, decision>>

\* A bug: the guard's revert clears `active` and leaves the revert to the drop.
DropWithoutRevert(t, i, ok) ==
    /\ Call
    /\ guards' = [guards EXCEPT ![t] = RemoveAt(@, i)]
    /\ fresh' = [fresh EXCEPT ![t] = FALSE]
    /\ UNCHANGED <<imp, adopted, overstay, handle, check, decision>>

(* Impersonation::revert, which clears `active` so that the drop after it  *)
(* does nothing, and Drop, which ignores the result: one revert each.      *)
DropGuard(t, i, ok) ==
    /\ Call
    /\ guards' = [guards EXCEPT ![t] = RemoveAt(@, i)]
    /\ Reverted(t, ok)
    /\ UNCHANGED <<handle, check, decision>>

----------------------------------------------------------------------------
(* AccessCheck::new and its setters.  The builder borrows: it is built     *)
(* once and checked many times, whatever happens to the thread between.    *)
Configure(t, tok, want) ==
    /\ Call
    /\ check' = [check EXCEPT ![t] = [token |-> tok, desired |-> want]]
    /\ UNCHANGED <<identity, handle, decision>>

\* A bug: the request always asks for the effective token.
SubjectForgetsToken(t) == Effective(t)

(* build_request: the explicit token's descriptor, or -1, which the kernel *)
(* takes as the thread's effective token at the time of the call.          *)
Subject(t) == IF check[t].token # NoToken THEN check[t].token ELSE Effective(t)

(* What the kernel makes of n nodes (1 for check): it grants what the      *)
(* subject holds, or refuses the call with EACCES and nothing granted.     *)
Granted(t, done) == IF done THEN Held[Subject(t)] \cap check[t].desired ELSE {}

(* check and check_list.  0 is a grant; EACCES is a denial with the mask   *)
(* the kernel filled in, even when it refused the call itself; another     *)
(* errno is an error.  A list's results beyond its count modulo 2^32 keep  *)
(* their initial value, nothing granted.  The rest of it records how       *)
(* the thread stood, for the properties.                                   *)
Check(t, n, done) ==
    /\ Call
    /\ LET granted == Granted(t, done) IN
       decision' = [decision EXCEPT ![t] =
         [granted |-> [i \in 1 .. n |-> IF i <= n % Word THEN granted ELSE {}],
          allowed |-> IF n = 1 /\ granted = check[t].desired /\ done
                      THEN check[t].desired ELSE {},
          token |-> check[t].token, guard |-> IF fresh[t] THEN Last(guards[t]) ELSE NoToken,
          alone |-> guards[t] = <<>> /\ adopted[t] = NoToken /\ overstay[t] = NoToken]]
    /\ UNCHANGED <<identity, handle, check>>

ThreadNext == \E t \in Threads :
    \/ \E real \in BOOLEAN : open_self(t, real)
    \/ \E c \in Clients : open_peer(t, c) \/ impersonate_peer(t, c)
    \/ impersonate(t)
    \/ \E ok \in BOOLEAN : impersonate_scoped(t, ok) \/ revert(t, ok)
    \/ \E i \in 1 .. Len(guards[t]), ok \in BOOLEAN : DropGuard(t, i, ok)
    \/ \E tok \in {NoToken, handle[t]}, want \in SUBSET Rights : Configure(t, tok, want)
    \/ \E n \in 1 .. Word + 1, done \in BOOLEAN : Check(t, n, done)

ThreadSpec == ThreadInit /\ [][ThreadNext]_threadVars

----------------------------------------------------------------------------
(* Types.                                                                  *)
ThreadTypeOK ==
    /\ imp \in [Threads -> Clients \cup {NoToken}]
    /\ handle \in [Threads -> Identities \cup {NoToken}]
    /\ guards \in [Threads -> Seq(Clients)]
    /\ check \in [Threads -> [token : Identities \cup {NoToken}, desired : SUBSET Rights]]
    /\ adopted \in [Threads -> Clients \cup {NoToken}]
    /\ overstay \in [Threads -> Clients \cup {NoToken}]
    /\ fresh \in [Threads -> BOOLEAN]
    /\ steps \in Nat

(* A thread acts as a client only while a guard for that client lives on   *)
(* it, or it adopted the client without a guard and has not reverted, or a *)
(* revert failed: no order of overlapping guards, explicit reverts and     *)
(* drops (token.rs:566-593, 921-944) leaves a client's identity behind.    *)
NeverOverstays == \A t \in Threads :
    imp[t] \in ToSet(guards[t]) \cup {NoToken, adopted[t], overstay[t]}

(* A check answers for the identity its caller has in mind, although the   *)
(* request names none and the kernel looks it up at the call: the explicit *)
(* token when there is one; the client of the guard just made; the process *)
(* itself once guards, adoptions and failed reverts are all gone.  What is *)
(* granted or allowed is held by that identity (access.rs:272-372).        *)
Expected(a) == CASE a.token # NoToken -> {a.token}
                 [] a.token = NoToken /\ a.guard # NoToken -> {a.guard}
                 [] a.token = NoToken /\ a.guard = NoToken /\ a.alone -> {Self}
                 [] OTHER -> {}
DecidedForRightSubject == \A t \in Threads : decision[t] # Unanswered =>
    \A who \in Expected(decision[t]) :
        /\ decision[t].allowed \subseteq Held[who]
        /\ \A i \in DOMAIN decision[t].granted : decision[t].granted[i] \subseteq Held[who]

============================================================================
