----------------------------- MODULE EmitBatch -----------------------------
(***************************************************************************)
(* peios::event::emit_batch: several events in one call.  An entry is      *)
(* "good", "bad" (the kernel refuses it: malformed payload or type) or     *)
(* "too_long" (its lengths do not fit the u16 and u32 of the C entry).     *)
(***************************************************************************)
EXTENDS Integers, Sequences

CONSTANTS
  MaxBatch,   \* bound: the longest batch a caller passes
  MaxCount    \* the largest entry count the C call can be given

ASSUME EmitBatchAssumption == MaxBatch \in Nat /\ MaxCount \in Nat

Entry == {"good", "bad", "too_long"}
NoCount == -1

VARIABLES
  entries,  \* the caller's slice
  raw,      \* local `raw`: the C entries marshalled so far
  ring,     \* the events of this call that reached the kernel's ring
  stage,
  outcome,  \* "ok", "einval" (refused in the crate) or "errno"
  count     \* the count the result carries

batchVars == <<entries, raw, ring, stage, outcome, count>>

BatchInit ==
  /\ entries \in UNION {[1 .. n -> Entry] : n \in 0 .. MaxBatch}
  /\ raw = <<>> /\ ring = <<>>
  /\ stage = "count" /\ outcome = "ok" /\ count = NoCount

BatchEnd(r, n) == stage' = "done" /\ outcome' = r /\ count' = n

\* u32::try_from(entries.len())
CountEntries ==
  /\ stage = "count"
  /\ IF Len(entries) > MaxCount
     THEN BatchEnd("einval", NoCount)
     ELSE stage' = "marshal" /\ UNCHANGED <<outcome, count>>
  /\ UNCHANGED <<entries, raw, ring>>

\* event_lengths of each entry in turn; the first refusal ends the call
\* before anything is emitted.
Marshal ==
  /\ stage = "marshal"
  /\ Len(raw) < Len(entries)
  /\ LET e == entries[Len(raw) + 1] IN
       IF e = "too_long" THEN BatchEnd("einval", NoCount) /\ UNCHANGED raw
       ELSE raw' = Append(raw, e) /\ UNCHANGED <<stage, outcome, count>>
  /\ UNCHANGED <<entries, ring>>

\* The system call starts: the rate limit is all or nothing.
Submit ==
  /\ stage = "marshal"
  /\ Len(raw) = Len(entries)
  /\ \/ BatchEnd("errno", NoCount)
     \/ stage' = "kernel" /\ UNCHANGED <<outcome, count>>
  /\ UNCHANGED <<entries, raw, ring>>

\* The kernel takes the entries one after another, up to the first bad one.
KernelTakes ==
  /\ stage = "kernel"
  /\ Len(ring) < Len(raw)
  /\ raw[Len(ring) + 1] = "good"
  /\ ring' = Append(ring, "good")
  /\ UNCHANGED <<entries, raw, stage, outcome, count>>

\* Mutant: a failed call is reported as a short success.
FailAsShortSuccess ==
  /\ stage = "kernel"
  /\ Len(ring) < Len(raw)
  /\ raw[Len(ring) + 1] = "bad"
  /\ BatchEnd("ok", Len(ring))
  /\ UNCHANGED <<entries, raw, ring>>

\* r != 0: the error is returned and the local `emitted` is dropped with it.
Failed ==
  /\ stage = "kernel"
  /\ Len(ring) < Len(raw)
  /\ raw[Len(ring) + 1] = "bad"
  /\ BatchEnd("errno", NoCount)
  /\ UNCHANGED <<entries, raw, ring>>

\* r == 0: Ok(emitted).
Succeeded ==
  /\ stage = "kernel"
  /\ Len(ring) = Len(raw)
  /\ BatchEnd("ok", Len(ring))
  /\ UNCHANGED <<entries, raw, ring>>

Finished == stage = "done" /\ UNCHANGED batchVars

BatchNext ==
  \/ CountEntries \/ Marshal \/ Submit
  \/ KernelTakes \/ Failed \/ Succeeded \/ Finished

BatchSpec == BatchInit /\ [][BatchNext]_batchVars

-----------------------------------------------------------------------------
\* The result tells what is in the ring wherever it can: Ok(n) means that
\* every entry of the caller's slice reached it, in order, and that n is their
\* number; a batch with an entry the crate itself refuses emits nothing, not
\* even the entries before it, since the whole slice is marshalled first.
ResultTellsTheRing ==
  /\ stage = "done" /\ outcome = "ok" => ring = entries /\ count = Len(entries)
  /\ (\E i \in DOMAIN entries : entries[i] = "too_long") => ring = <<>>

\* What emit_batch's documentation promises on failure: "the error is from
\* the first entry that failed, and the returned count is how many preceded
\* it", so that a caller knows which events of a batch are already in the ring.
FailureCarriesCount ==
  stage = "done" /\ outcome = "errno" /\ ring # <<>> => count = Len(ring)
=============================================================================
