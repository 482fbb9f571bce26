---------------------------- MODULE EventStream ----------------------------
(***************************************************************************)
(* What one CPU's event ring promises its consumer, with no memory, no     *)
(* races and no program counters: the kernel appends events to a stream,   *)
(* it may forget the oldest ones, and the consumer takes them in order,    *)
(* each one exactly as it was emitted, jumping only over forgotten events. *)
(* EventRing implements this specification.                                *)
(***************************************************************************)
EXTENDS Integers

VARIABLES
  log,        \* the events emitted since the consumer mapped the ring
  end,        \* the position one past the last emitted event
  oldest,     \* the position of the oldest event the kernel still keeps
  cursor,     \* the consumer's read position
  delivered   \* the events the consumer accepted

vars == <<log, end, oldest, cursor, delivered>>

\* A position where an event starts, or where the next one will start.
Boundary(p) == p = end \/ \E e \in log : e.pos = p

Init ==
  /\ log = {}
  /\ end = 0
  /\ oldest = 0
  /\ cursor = 0
  /\ delivered = {}

\* The kernel appends one event; its type string may or may not be UTF-8.
Emit ==
  /\ end' > end
  /\ \E named \in BOOLEAN :
       log' = log \cup {[pos |-> end, len |-> end' - end, named |-> named]}
  /\ UNCHANGED <<oldest, cursor, delivered>>

\* The kernel forgets events to make room.
Forget ==
  /\ oldest' > oldest
  /\ oldest' <= end
  /\ Boundary(oldest')
  /\ UNCHANGED <<log, end, cursor, delivered>>

\* The consumer takes the event at its cursor, whole and as emitted; it never
\* takes one whose type it cannot read, and never steps over it either.
Deliver ==
  \E e \in log :
    /\ e.pos = cursor
    /\ e.named
    /\ cursor' = cursor + e.len
    /\ delivered' = delivered \cup {e}
    /\ UNCHANGED <<log, end, oldest>>

\* The consumer was lapped and moves to the oldest event still kept.
CatchUp ==
  /\ cursor < oldest
  /\ cursor' = oldest
  /\ UNCHANGED <<log, end, oldest, delivered>>

\* The ring was resized: the consumer starts again on a new mapping.
Remap == log' = {} /\ end' = 0 /\ oldest' = 0 /\ cursor' = 0 /\ delivered' = {}

Next == Emit \/ Forget \/ Deliver \/ CatchUp \/ Remap

Spec == Init /\ [][Next]_vars
=============================================================================
