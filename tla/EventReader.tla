---------------------------- MODULE EventReader ----------------------------
(***************************************************************************)
(* peios::event::EventReader: the reader that owns its ring and its        *)
(* position.  The position, the skipping of what was overwritten and the   *)
(* count of what was lost are libpeios'; the copy of the event, and what   *)
(* becomes of one whose type is not UTF-8, are the crate's.                *)
(***************************************************************************)
EXTENDS Integers, Sequences, FiniteSets

CONSTANTS
  Slots,        \* events the kernel's ring holds
  MaxPublished, \* bound: events published
  MaxFails      \* bound: the errors up to which libpeios' next may still fail

ASSUME EventReaderAssumption ==
  Slots \in Nat \ {0} /\ MaxPublished \in Nat /\ MaxFails \in Nat

VARIABLES
  published,  \* "named", "unnamed" (its type is not UTF-8) or "dropped", by sequence
  position,   \* events libpeios' reader is past
  gaps,       \* libpeios: the cumulative count of lost events
  given,      \* history: the events `next` returned, in order
  errors,     \* history: the calls of `next` that returned an error
  mode        \* the program: "drain", "wait" or "off", having no reader

readerState == <<published, position, gaps, given, errors, mode>>

ReaderInit ==
  /\ published = <<>> /\ position = 0 /\ gaps = 0
  /\ given = <<>> /\ errors = 0
  /\ mode \in {"drain", "off"}

\* The kernel numbers every event; one it cannot store leaves a gap.
Publish ==
  /\ mode # "off" /\ Len(published) < MaxPublished
  /\ \E e \in {"named", "unnamed", "dropped"} : published' = Append(published, e)
  /\ UNCHANGED <<position, gaps, given, errors, mode>>

\* What is left for the reader: the events still in the ring behind its
\* position.  libpeios' cursor goes to the next of them, i, and counts what
\* it skipped.
Stored == {i \in DOMAIN published : i > position /\ i > Len(published) - Slots
                                    /\ published[i] # "dropped"}
Advance(i) ==
  /\ \A j \in Stored : i <= j
  /\ position' = i /\ gaps' = gaps + i - 1 - position

\* Mutant: an event that cannot be converted ends the drain as None does.
NextSwallows ==
  /\ mode = "drain"
  /\ \E i \in Stored :
       /\ Advance(i)
       /\ IF published[i] = "named"
          THEN given' = Append(given, i) /\ UNCHANGED <<errors, mode>>
          ELSE mode' = "wait" /\ UNCHANGED <<given, errors>>
  /\ UNCHANGED published

\* next: an owned copy of the event.  The cursor has moved when from_raw
\* finds that the type is not UTF-8: the call returns EINVAL.
NextEvent ==
  /\ mode = "drain"
  /\ \E i \in Stored :
       /\ Advance(i)
       /\ IF published[i] = "named"
          THEN given' = Append(given, i) /\ UNCHANGED errors
          ELSE errors' = errors + 1 /\ UNCHANGED given
  /\ UNCHANGED <<published, mode>>

\* next: any other answer of libpeios is returned as its errno.  No event was
\* handed out and the reader stays where it was; the program goes on draining.
NextFails ==
  /\ mode = "drain" /\ errors < MaxFails
  /\ errors' = errors + 1
  /\ UNCHANGED <<published, position, gaps, given, mode>>

\* next: None, nothing is available right now.
NextNone ==
  /\ mode = "drain" /\ Stored = {}
  /\ mode' = "wait"
  /\ UNCHANGED <<published, position, gaps, given, errors>>

\* wait: true when there is something to drain, false on a timeout or an
\* interruption, or an error; the program drains in every case.
Wait ==
  /\ mode = "wait"
  /\ mode' = "drain"
  /\ UNCHANGED <<published, position, gaps, given, errors>>

ReaderNext == Publish \/ NextEvent \/ NextFails \/ NextNone \/ Wait

ReaderSpec == ReaderInit /\ [][ReaderNext]_readerState

-----------------------------------------------------------------------------
\* Every event the reader is past was returned, counted as lost, or had a call
\* of `next` of its own that returned an error: what a program saw returned, what
\* lost() says and the errors it saw cover the reader's way, and lost() counts no
\* event that was returned.  An event whose type is not UTF-8 does not vanish
\* silently and takes no event behind it along (event.rs:344-357, 374-379).
\* (An error need not stand for an event: libpeios' next may also just fail.)
EveryEventIsAccountedFor ==
  /\ position - gaps - Len(given) \in 0 .. errors
  /\ \A i \in DOMAIN given : published[given[i]] = "named" /\ (i > 1 => given[i - 1] < given[i])
=============================================================================
