---------------------------- MODULE MountPolicy ----------------------------
(***************************************************************************)
(* File::mount_get_policy reads a superblock's mount policy (kind, flags,  *)
(* generation) together with its template security descriptor, in several  *)
(* system calls, while File::mount_set_policy of other processes replaces  *)
(* both.  A policy is identified by its generation; its template by the    *)
(* generation it belongs to and its length.                                *)
(***************************************************************************)
EXTENDS Integers

CONSTANTS
  TemplateSizes,  \* lengths a template may have; 0 is "no template"
  MaxSets         \* bound: policies set in a behaviour

ASSUME MountPolicyAssumption == TemplateSizes \subseteq Nat /\ MaxSets \in Nat

None == -1        \* no template in a result

VARIABLES
  generation, template_sd_len,  \* the superblock's policy
  stage,
  reply,                        \* local `out`: the generation of the policy kept so far
  room,                         \* local `cap`
  refusals,                     \* reads refused with ERANGE
  got,                          \* local `got`: the generation of the template read, or None
  status,                       \* "ok" or "errno"
  policies,                     \* history: the policies the superblock had during the call
  sets                          \* history: how often it was replaced during the call

sb == <<generation, template_sd_len>>
mountHistory == <<policies, sets>>
mountVars == <<sb, stage, reply, room, refusals, got, status, mountHistory>>

Max2(a, b) == IF a > b THEN a ELSE b

Policy == [gen |-> generation, len |-> template_sd_len]

MountInit ==
  /\ generation = 0 /\ template_sd_len \in TemplateSizes
  /\ stage = "idle" /\ reply = 0 /\ room = 0 /\ refusals = 0 /\ got = None /\ status = "errno"
  /\ policies = {} /\ sets = 0

\* Another process sets policy and template in one call.
mount_set_policy ==
  /\ generation < MaxSets
  /\ generation' = generation + 1
  /\ template_sd_len' \in TemplateSizes
  /\ IF stage = "idle" THEN UNCHANGED mountHistory
     ELSE sets' = sets + 1 /\ policies' = policies \cup {Policy'}
  /\ UNCHANGED <<stage, reply, room, refusals, got, status>>

Finish(r) == stage' = "done" /\ status' = r

\* The NULL-buffer read: policy fields and the template's length.
FirstRead ==
  /\ stage = "idle"
  /\ policies' = {Policy}
  /\ reply' = generation
  /\ room' = template_sd_len
  /\ IF template_sd_len = 0 THEN Finish("ok") ELSE stage' = "reread" /\ UNCHANGED status
  /\ UNCHANGED <<sb, refusals, got, sets>>

\* Mutant: the template of this read is kept with the first read's policy.
RereadKeepsFirstPolicy ==
  /\ stage = "reread"
  /\ template_sd_len <= room
  /\ got' = IF template_sd_len = 0 THEN None ELSE generation
  /\ Finish("ok")
  /\ UNCHANGED <<sb, reply, room, refusals, mountHistory>>

\* Mutant: the buffer does not grow.
GrowKeepsSize ==
  /\ stage = "reread"
  /\ template_sd_len > room
  /\ room' = room
  /\ refusals' = refusals + 1
  /\ IF refusals' = 4 THEN Finish("ok") ELSE UNCHANGED <<stage, status>>
  /\ UNCHANGED <<sb, reply, got, mountHistory>>

\* A read with a buffer that is large enough: a template replaces `out` and
\* `got` together; a template that is gone leaves both as they were.
Reread ==
  /\ stage = "reread"
  /\ template_sd_len <= room
  /\ IF template_sd_len = 0
     THEN UNCHANGED <<reply, got>>
     ELSE reply' = generation /\ got' = generation
  /\ Finish("ok")
  /\ UNCHANGED <<sb, room, refusals, mountHistory>>

\* ERANGE: grow and try again; after the fourth the loop ends without a
\* template, and the call still succeeds.
Grow ==
  /\ stage = "reread"
  /\ template_sd_len > room
  /\ room' = Max2(template_sd_len, room + 1)
  /\ refusals' = refusals + 1
  /\ IF refusals' = 4 THEN Finish("ok") ELSE UNCHANGED <<stage, status>>
  /\ UNCHANGED <<sb, reply, got, mountHistory>>

\* Any of the reads may fail for another reason.
MountFail ==
  /\ stage \in {"idle", "reread"}
  /\ Finish("errno")
  /\ UNCHANGED <<sb, reply, room, refusals, got, mountHistory>>

MountReturn ==
  /\ stage = "done"
  /\ stage' = "idle"
  /\ reply' = 0 /\ room' = 0 /\ refusals' = 0 /\ got' = None /\ status' = "errno"
  /\ policies' = {} /\ sets' = 0
  /\ UNCHANGED sb

MountNext == mount_set_policy \/ FirstRead \/ Reread \/ Grow \/ MountFail \/ MountReturn

MountSpec == MountInit /\ [][MountNext]_mountVars

-----------------------------------------------------------------------------
\* The types; the loop makes at most four reads.
MountTypeOK ==
  /\ generation \in Nat /\ template_sd_len \in Nat
  /\ stage \in {"idle", "reread", "done"} /\ status \in {"ok", "errno"}
  /\ reply \in Nat /\ room \in Nat
  /\ refusals \in 0 .. 4 /\ (refusals = 4 => stage = "done")
  /\ got \in Nat \cup {None} /\ sets \in Nat

\* A template that is returned belongs to the policy it is returned with:
\* kind, flags and generation come from the read that filled the buffer.
TemplateBelongsToPolicy ==
  stage = "done" /\ status = "ok" /\ got # None =>
    /\ got = reply
    /\ \E s \in policies : s.gen = reply /\ s.len > 0

\* A policy that had a template is returned without one only if the template
\* was removed meanwhile or outgrew the reader on each of the four reads.
MissingTemplateMeansRemovedOrOutgrown ==
  stage = "done" /\ status = "ok" /\ got = None =>
    (\E s \in policies : s.len = 0) \/ sets >= 4

\* The inductive invariant behind both: while the loop runs, the policy in
\* force is among those seen, and every read the template outgrew, the coming
\* one included, was preceded by a replacement of its own.
RereadInv ==
  /\ stage = "reread" =>
       /\ Policy \in policies /\ got = None
       /\ sets >= refusals
       /\ template_sd_len > room => sets >= refusals + 1
  /\ stage = "idle" => refusals = 0 /\ sets = 0 /\ got = None
  /\ TemplateBelongsToPolicy
  /\ MissingTemplateMeansRemovedOrOutgrown

\* The promise a caller would read into "Read the mount policy of the
\* superblock": policy and template are the ones of a single instant of the
\* call.  The code breaks it when the template goes away between two reads,
\* and when the template outgrows the buffer four times.
PolicyIsSnapshot ==
  stage = "done" /\ status = "ok" =>
    \E s \in policies : s.gen = reply /\ (got = None <=> s.len = 0)
=============================================================================
