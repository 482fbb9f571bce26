----------------------------- MODULE SizeProbe -----------------------------
(***************************************************************************)
(* Reading a variable-size object whose size must be learnt first, while   *)
(* other processes replace the object.  Five loops of the crate:           *)
(*   "probe"       util::probe      (Token::query, File::fd_get_sd, ...)   *)
(*   "probe_str"   util::probe_str  (the SDDL formatters)                  *)
(*   "descriptor"  Key::query_value, enum_value, enum_subkey, info         *)
(*   "security"    Key::get_security                                       *)
(*   "batch"       Key::query_values_batch                                 *)
(* One system call is one atomic step; the object may change between any   *)
(* two of them.                                                            *)
(***************************************************************************)
EXTENDS Integers

CONSTANTS
  Sizes,       \* sizes the object may have, in bytes
  MaxChanges   \* bound: how often others replace the object

ASSUME SizeProbeAssumption == Sizes \subseteq Nat /\ MaxChanges \in Nat

Kinds == {"probe", "probe_str", "descriptor", "security", "batch"}

VARIABLES
  ver, len,    \* the object: which content it holds, and its size
  kind, pc,    \* the running loop and where it stands
  cap,         \* the loop's local `cap`
  tries,       \* fills refused with ERANGE
  res,         \* what the call returned: "ok", "erange" or "errno"
  out, outVer, \* the bytes returned: how many, and of which content
  seen,        \* history: the contents the object had during the call
  changes      \* history: how often it was replaced during the call

object == <<ver, len>>
history == <<seen, changes>>
vars == <<object, kind, pc, cap, tries, res, out, outVer, history>>

\* The crate's loops run at most 4 fills; query_values_batch does one.
Attempts == IF kind = "batch" THEN 1 ELSE 4

\* The buffer a fill passes, and the room it takes: a string comes with a NUL.
Nul == IF kind = "probe_str" THEN 1 ELSE 0
Buffer == cap + Nul
Needed == len + Nul

\* libpeios' getxattr convention: a zero-length buffer only asks for the size.
Xattr == kind \in {"probe", "probe_str"}

Init ==
  /\ ver = 0 /\ len \in Sizes
  /\ kind = "probe" /\ pc = "idle"
  /\ cap = 0 /\ tries = 0
  /\ res = "errno" /\ out = 0 /\ outVer = 0
  /\ seen = {} /\ changes = 0

-----------------------------------------------------------------------------
(* Other processes replace the object. *)
Change ==
  /\ ver < MaxChanges
  /\ ver' = ver + 1
  /\ len' \in Sizes
  /\ IF pc = "idle" THEN UNCHANGED history
     ELSE /\ changes' = changes + 1
          /\ seen' = seen \cup {[ver |-> ver', len |-> len']}
  /\ UNCHANGED <<kind, pc, cap, tries, res, out, outVer>>

-----------------------------------------------------------------------------
Done(r) == pc' = "done" /\ res' = r

\* The loop's next turn, or its end: the attempts are used up.
NextTurn(n) == IF n = Attempts THEN Done("erange") ELSE pc' = "fill" /\ UNCHANGED res

\* Mutant: the buffer is returned at its allocated length.
FillNotTruncated ==
  /\ pc = "fill"
  /\ IF Needed <= Buffer \/ (Xattr /\ Buffer = 0)
     THEN Done("ok") /\ out' = cap /\ outVer' = ver /\ UNCHANGED <<cap, tries>>
     ELSE /\ tries' = tries + 1
          /\ UNCHANGED <<out, outVer>>
          /\ IF Xattr THEN pc' = "reprobe" /\ UNCHANGED <<cap, res>>
             ELSE cap' = len /\ NextTurn(tries')
  /\ UNCHANGED <<object, kind, history>>

\* Mutant: the retry keeps the size learnt before the object grew.
FillRetriesSameSize ==
  /\ pc = "fill"
  /\ IF Xattr /\ Buffer = 0 THEN Done("ok") /\ out' = 0 /\ UNCHANGED <<cap, tries, outVer>>
     ELSE IF Needed <= Buffer
     THEN Done("ok") /\ out' = len /\ outVer' = ver /\ UNCHANGED <<cap, tries>>
     ELSE /\ tries' = tries + 1
          /\ UNCHANGED <<cap, out, outVer>>
          /\ NextTurn(tries')
  /\ UNCHANGED <<object, kind, history>>

-----------------------------------------------------------------------------
(* The loops. *)

\* The descriptor calls start with empty buffers; the others ask for the size.
Call(k) ==
  /\ pc = "idle"
  /\ kind' = k
  /\ pc' = IF k = "descriptor" THEN "fill" ELSE "probe"
  /\ seen' = {[ver |-> ver, len |-> len]}
  /\ UNCHANGED <<object, cap, tries, res, out, outVer, changes>>

Probe ==
  /\ pc = "probe"
  /\ cap' = len
  /\ pc' = "fill"
  /\ UNCHANGED <<object, kind, tries, res, out, outVer, history>>

\* The call with a buffer.  Zero bytes under the getxattr convention is a
\* probe again: it succeeds and fills nothing.  Otherwise a buffer that is
\* too small is ERANGE; the registry calls report the size they needed.
Fill ==
  /\ pc = "fill"
  /\ \/ /\ Xattr /\ Buffer = 0
        /\ Done("ok") /\ out' = 0
        /\ UNCHANGED <<cap, tries, outVer>>
     \/ /\ ~(Xattr /\ Buffer = 0)
        /\ Needed <= Buffer
        /\ Done("ok") /\ out' = len /\ outVer' = ver
        /\ UNCHANGED <<cap, tries>>
     \/ /\ ~(Xattr /\ Buffer = 0)
        /\ Needed > Buffer
        /\ tries' = tries + 1
        /\ IF Xattr THEN pc' = "reprobe" /\ UNCHANGED <<cap, res>>
           ELSE cap' = len /\ NextTurn(tries')
        /\ UNCHANGED <<out, outVer>>
  /\ UNCHANGED <<object, kind, history>>

\* util::probe asks for the size again, even after its last fill.
Reprobe ==
  /\ pc = "reprobe"
  /\ cap' = len
  /\ NextTurn(tries)
  /\ UNCHANGED <<object, kind, tries, out, outVer, history>>

\* Any of the calls may fail for a reason of its own (access, I/O), and a
\* string that is not UTF-8 is EINVAL: the error goes to the caller at once.
Fail ==
  /\ pc \in {"probe", "fill", "reprobe"}
  /\ Done("errno")
  /\ UNCHANGED <<object, kind, cap, tries, out, outVer, history>>

\* The caller takes the result.
Return ==
  /\ pc = "done"
  /\ pc' = "idle"
  /\ cap' = 0 /\ tries' = 0 /\ res' = "errno" /\ out' = 0 /\ outVer' = 0
  /\ seen' = {} /\ changes' = 0
  /\ UNCHANGED <<object, kind>>

Next ==
  \/ Change
  \/ \E k \in Kinds : Call(k)
  \/ Probe \/ Fill \/ Reprobe \/ Fail \/ Return

Spec == Init /\ [][Next]_vars

-----------------------------------------------------------------------------
\* The types; in particular no loop makes more fills than it allows itself.
TypeOK ==
  /\ ver \in Nat /\ len \in Nat
  /\ kind \in Kinds /\ pc \in {"idle", "probe", "fill", "reprobe", "done"}
  /\ cap \in Nat /\ tries \in 0 .. Attempts
  /\ pc \in {"idle", "probe"} => tries = 0
  /\ pc = "fill" => tries < Attempts
  /\ res \in {"ok", "erange", "errno"}
  /\ out \in Nat /\ outVer \in Nat /\ changes \in Nat
  /\ \A s \in seen : s.ver \in Nat /\ s.len \in Nat

\* The buffer returned is the whole object as it stood at one instant of the
\* call: never a prefix, never stale bytes past the end, never two contents.
ReadIsSnapshot ==
  pc = "done" /\ res = "ok" =>
    \E s \in seen : s.len = out /\ (out > 0 => s.ver = outVer)

\* Fills lost to ERANGE that mean the object outgrew a size just learnt: all
\* of them, except that a descriptor loop's first call is its probe.
Outgrown == IF kind = "descriptor" THEN tries - 1 ELSE tries

\* ERANGE reaches the caller only when the object really outgrew the reader
\* on every fill: one replacement per fill, at least, happened during the
\* call.  A single concurrent write is always absorbed, except by the batch.
ErangeMeansOutgrown ==
  pc = "done" /\ res = "erange" =>
    changes >= IF kind = "batch" THEN 1 ELSE IF kind = "descriptor" THEN 3 ELSE 4

\* The inductive invariant: a size that differs from the object's cost the
\* others one more replacement, and every size learnt was one the object had.
ProbeInv ==
  /\ pc # "idle" => [ver |-> ver, len |-> len] \in seen
  /\ pc = "idle" => cap = 0 /\ changes = 0
  /\ pc = "probe" => kind # "descriptor"
  /\ pc = "reprobe" => Xattr
  /\ pc \in {"fill", "reprobe"} => changes >= Outgrown
  /\ pc = "fill" /\ cap # len => changes >= Outgrown + 1
  /\ pc = "fill" /\ Xattr => \E s \in seen : s.len = cap
  /\ ReadIsSnapshot /\ ErangeMeansOutgrown
=============================================================================
