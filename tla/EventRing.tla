----------------------------- MODULE EventRing -----------------------------
(***************************************************************************)
(* peios::event::EventRing: a consumer that drains one CPU's event ring    *)
(* through event_at, racing the kernel that overwrites the ring.           *)
(*                                                                         *)
(* The kernel side is external.  It is modelled from what event.rs relies  *)
(* on: free-running positions, tail_pos advanced before a slot is reused,  *)
(* write_pos published after the event is written, generation advanced     *)
(* before the memory of a resized ring is reused.  Loads are acquire       *)
(* loads, so one load is one atomic step.                                  *)
(***************************************************************************)
EXTENDS Integers

CONSTANTS
  Cap,      \* capacity of the data region, in cells
  MaxLen,   \* longest event, in cells (the first cell is its header)
  MaxPos,   \* bound: the positions the kernel may write up to
  MaxGen    \* bound: how often the ring may be resized

ASSUME EventRingAssumption ==
  /\ Cap \in Nat \ {0}
  /\ MaxLen \in 1 .. Cap
  /\ MaxPos \in Nat
  /\ MaxGen \in Nat

Torn == -1                       \* a cell that holds no position's bytes

VARIABLES
  slot,         \* data region: the position whose bytes a cell holds
  write_pos, tail_pos, generation,    \* the producer page
  reserved,     \* length of the event the kernel is emitting, 0 for none
  phase,        \* its emission: "quiet", "reserved" or "overwriting"
  log,          \* history: the events published in this mapping, with whether
                \* the type string of each is UTF-8
  mapGen,       \* generation the consumer's mapping was made in
  read_pos,     \* the caller's read position
  pc,           \* where event_at stands
  gen, write,   \* its locals `generation` and `write`
  size,         \* its local `size`; -1 when libpeios refused the header
  copied,       \* cells copied so far
  bytes,        \* "own": every byte read so far was read_pos's own event's
  event,        \* its local `event`: "ok" or the deferred "err"
  ret,          \* what event_at returned
  delivered     \* history: the events the caller accepted

kernel == <<slot, write_pos, tail_pos, generation, reserved, phase, log>>
locals == <<gen, write, size, copied, bytes, event>>
vars == <<kernel, mapGen, read_pos, pc, locals, ret, delivered>>

Cells == 0 .. Cap - 1

Init ==
  /\ slot = [i \in Cells |-> Torn]
  /\ write_pos = 0 /\ tail_pos = 0 /\ generation = 0
  /\ reserved = 0 /\ phase = "quiet"
  /\ log = {}
  /\ mapGen = 0 /\ read_pos = 0
  /\ pc = "idle"
  /\ gen = 0 /\ write = 0 /\ size = 0 /\ copied = 0
  /\ bytes = "torn" /\ event = "err" /\ ret = "eagain"
  /\ delivered = {}

-----------------------------------------------------------------------------
(* The kernel, as event.rs relies on it. *)

Boundary(p) == p = write_pos \/ \E e \in log : e.pos = p

Target == write_pos .. write_pos + reserved - 1

\* Room for n more cells is made by giving up the oldest events.
Reserve(n) ==
  /\ generation = mapGen
  /\ phase = "quiet"
  /\ write_pos + n <= MaxPos
  /\ \E b \in tail_pos .. write_pos :
       /\ Boundary(b)
       /\ write_pos + n <= b + Cap
       /\ tail_pos' = b
  /\ reserved' = n
  /\ phase' = "reserved"
  /\ UNCHANGED <<slot, write_pos, generation, log,
                 mapGen, read_pos, pc, locals, ret, delivered>>

\* From here until Publish a reserved cell may hold any mix of bytes.
Overwrite ==
  /\ phase = "reserved"
  /\ slot' = [i \in Cells |-> IF \E p \in Target : p % Cap = i THEN Torn ELSE slot[i]]
  /\ phase' = "overwriting"
  /\ UNCHANGED <<write_pos, tail_pos, generation, reserved, log,
                 mapGen, read_pos, pc, locals, ret, delivered>>

\* The kernel does not look at an event's type string: an event may be published
\* whose type is not UTF-8 (named = FALSE).
Publish ==
  /\ phase = "overwriting"
  /\ slot' = [i \in Cells |-> IF \E p \in Target : p % Cap = i
                              THEN CHOOSE p \in Target : p % Cap = i
                              ELSE slot[i]]
  /\ write_pos' = write_pos + reserved
  /\ \E named \in BOOLEAN :
       log' = log \cup {[pos |-> write_pos, len |-> reserved, named |-> named]}
  /\ reserved' = 0
  /\ phase' = "quiet"
  /\ UNCHANGED <<tail_pos, generation, mapGen, read_pos, pc, locals, ret, delivered>>

\* The old mapping is retired: its generation moves on and its memory is the
\* kernel's to reuse, so no cell can be relied on any more.
Resize ==
  /\ generation < MaxGen
  /\ generation' = generation + 1
  /\ slot' = [i \in Cells |-> Torn]
  /\ reserved' = 0
  /\ phase' = "quiet"
  /\ UNCHANGED <<write_pos, tail_pos, log, mapGen, read_pos, pc, locals, ret, delivered>>

-----------------------------------------------------------------------------
(* Mutants of event_at: each is what one plausible slip in the code would do. *)

Return(r) == pc' = "returned" /\ ret' = r

\* A cell read gives position p's bytes when the cell holds them, and
\* otherwise anything at all: a read may straddle the kernel's writes.
Holds(p) == slot[p % Cap] = p

\* Mutant: the deferred error is returned at once, before the re-checks.
ParseHeaderEarlyReturn ==
  /\ pc = "parse"
  /\ bytes' = IF Holds(read_pos) THEN "own" ELSE "torn"
  /\ IF Holds(read_pos)
     THEN \E e \in log : e.pos = read_pos /\ size' = e.len
     ELSE size' \in {-1} \cup 1 .. Cap
  /\ copied' = 1
  /\ IF size' < 0 \/ size' > write - read_pos
     THEN event' = "err" /\ Return("err")
     ELSE event' = "ok"  /\ pc' = "copy" /\ UNCHANGED ret
  /\ UNCHANGED <<kernel, mapGen, read_pos, gen, write, delivered>>

\* Mutant: tail_pos is not read again after the copy.
RecheckTailDropped ==
  /\ pc = "tail"
  /\ pc' = "gen"
  /\ UNCHANGED <<kernel, mapGen, read_pos, locals, ret, delivered>>

\* Mutant: the oldest readable event counts as overwritten.
RecheckTailOffByOne ==
  /\ pc = "tail"
  /\ IF tail_pos >= read_pos
     THEN Return("eagain")
     ELSE pc' = "gen" /\ UNCHANGED ret
  /\ UNCHANGED <<kernel, mapGen, read_pos, locals, delivered>>

\* Mutant: generation is not read again after the copy.
RecheckGenerationDropped ==
  /\ pc = "gen"
  /\ Return(event)
  /\ UNCHANGED <<kernel, mapGen, read_pos, locals, delivered>>

-----------------------------------------------------------------------------
(* EventRing::event_at, one action per access to the shared mapping. *)

LoadGeneration ==
  /\ pc = "idle"
  /\ gen' = generation
  /\ pc' = "write"
  /\ UNCHANGED <<kernel, mapGen, read_pos, write, size, copied, bytes, event, ret, delivered>>

LoadWrite ==
  /\ pc = "write"
  /\ write' = write_pos
  /\ pc' = "range"
  /\ UNCHANGED <<kernel, mapGen, read_pos, gen, size, copied, bytes, event, ret, delivered>>

CheckRange ==
  /\ pc = "range"
  /\ IF read_pos < tail_pos \/ read_pos >= write
     THEN Return("eagain")
     ELSE pc' = "parse" /\ UNCHANGED ret
  /\ UNCHANGED <<kernel, mapGen, read_pos, locals, delivered>>

\* peios_event_ring_event_at takes a private copy of the header and checks
\* its ranges; a header that is not the event's own may have any size.
ParseHeader ==
  /\ pc = "parse"
  /\ bytes' = IF Holds(read_pos) THEN "own" ELSE "torn"
  /\ IF Holds(read_pos)
     THEN \E e \in log : e.pos = read_pos /\ size' = e.len
     ELSE size' \in {-1} \cup 1 .. Cap
  /\ copied' = 1
  /\ IF size' < 0 \/ size' > write - read_pos
     THEN event' = "err" /\ pc' = "tail"
     ELSE event' = "ok"  /\ pc' = "copy"
  /\ UNCHANGED <<kernel, mapGen, read_pos, gen, write, ret, delivered>>

\* copy_event_bytes: one volatile read after another.
CopyCell ==
  /\ pc = "copy"
  /\ copied < size
  /\ bytes' = IF Holds(read_pos + copied) THEN bytes ELSE "torn"
  /\ copied' = copied + 1
  /\ UNCHANGED <<kernel, mapGen, read_pos, pc, gen, write, size, event, ret, delivered>>

\* Event::from_raw checks the type string when it has copied it, before the
\* payload: EINVAL, deferred, unless it is UTF-8.  The event's own bytes are
\* refused when it was published so; torn bytes may be taken for either.
Refusable == bytes = "torn" \/ \E e \in log : e.pos = read_pos /\ ~e.named

RefuseType ==
  /\ pc = "copy"
  /\ Refusable
  /\ event' = "err"
  /\ pc' = "tail"
  /\ UNCHANGED <<kernel, mapGen, read_pos, gen, write, size, copied, bytes, ret, delivered>>

FinishCopy ==
  /\ pc = "copy"
  /\ copied = size
  /\ bytes = "own" => ~Refusable
  /\ event' = "ok"
  /\ pc' = "tail"
  /\ UNCHANGED <<kernel, mapGen, read_pos, gen, write, size, copied, bytes, ret, delivered>>

RecheckTail ==
  /\ pc = "tail"
  /\ IF tail_pos > read_pos
     THEN Return("eagain")
     ELSE pc' = "gen" /\ UNCHANGED ret
  /\ UNCHANGED <<kernel, mapGen, read_pos, locals, delivered>>

RecheckGeneration ==
  /\ pc = "gen"
  /\ Return(IF generation # gen THEN "eagain" ELSE event)
  /\ UNCHANGED <<kernel, mapGen, read_pos, locals, delivered>>

-----------------------------------------------------------------------------
(* The caller's side of the contract: it owns the read position and the    *)
(* lapping and generation checks (external code).                          *)

Idle ==
  /\ pc = "returned"
  /\ pc' = "idle"
  /\ gen' = 0 /\ write' = 0 /\ size' = 0 /\ copied' = 0
  /\ bytes' = "torn" /\ event' = "err" /\ ret' = "eagain"

Accept ==
  /\ Idle
  /\ generation = mapGen
  /\ ret = "ok"
  /\ read_pos' = read_pos + size
  /\ delivered' = delivered \cup 
       {[pos |-> IF bytes = "own" THEN read_pos ELSE Torn, len |-> size, named |-> TRUE]}
  /\ UNCHANGED <<kernel, mapGen>>

CatchUp ==
  /\ Idle
  /\ generation = mapGen
  /\ ret # "ok"
  /\ read_pos < tail_pos
  /\ read_pos' = tail_pos
  /\ UNCHANGED <<kernel, mapGen, delivered>>

\* After EAGAIN, and after EINVAL too: an error comes without the event's size,
\* so the caller has nothing to advance by and can only ask again.
Poll ==
  /\ Idle
  /\ generation = mapGen
  /\ ret # "ok"
  /\ read_pos >= tail_pos
  /\ UNCHANGED <<kernel, mapGen, read_pos, delivered>>

\* EventRing::map on the resized ring.
Remap ==
  /\ Idle
  /\ generation # mapGen
  /\ mapGen' = generation
  /\ slot' = [i \in Cells |-> Torn]
  /\ write_pos' = 0 /\ tail_pos' = 0 /\ read_pos' = 0
  /\ log' = {} /\ delivered' = {}
  /\ UNCHANGED <<generation, reserved, phase>>

Kernel == (\E n \in 1 .. MaxLen : Reserve(n)) \/ Overwrite \/ Publish \/ Resize

event_at ==
  \/ LoadGeneration \/ LoadWrite \/ CheckRange \/ ParseHeader
  \/ CopyCell \/ RefuseType \/ FinishCopy \/ RecheckTail \/ RecheckGeneration

Caller == Accept \/ CatchUp \/ Poll \/ Remap

Next == Kernel \/ event_at \/ Caller

Spec == Init /\ [][Next]_vars

\* The consumer's thread keeps running; nothing is assumed of the kernel.
FairSpec == Spec /\ WF_vars(event_at \/ Caller)

-----------------------------------------------------------------------------
Events == [pos : Nat, len : 1 .. MaxLen, named : BOOLEAN]

\* The bytes at read_pos were published there as one event of this size.
Published(named) == [pos |-> read_pos, len |-> size, named |-> named] \in log

\* The types of the ring, of event_at's locals and of the histories; in
\* particular the copy never runs past the event it parsed.
TypeOK ==
  /\ slot \in [Cells -> Nat \cup {Torn}]
  /\ write_pos \in Nat /\ tail_pos \in Nat
  /\ generation \in 0 .. MaxGen /\ mapGen \in 0 .. MaxGen
  /\ reserved \in 0 .. MaxLen /\ phase \in {"quiet", "reserved", "overwriting"}
  /\ phase # "quiet" => reserved > 0
  /\ log \subseteq Events
  /\ read_pos \in Nat
  /\ pc \in {"idle", "write", "range", "parse", "copy", "tail", "gen", "returned"}
  /\ gen \in 0 .. MaxGen /\ write \in Nat
  /\ size \in -1 .. Cap
  /\ copied \in 0 .. Cap /\ (pc = "copy" => copied \in 1 .. size)
  /\ bytes \in {"own", "torn"} /\ event \in {"ok", "err"}
  /\ ret \in {"ok", "err", "eagain"}
  /\ "ok" \in {event, ret} => size >= 1
  /\ pc # "returned" => ret = "eagain"

\* event_at never returns a torn snapshot: an Ok event is, byte for byte, an
\* event the kernel published at read_pos, with its own size and a UTF-8 type.
\* (A ring that was resized before the call started is the caller's generation
\* check: event_at samples the generation at its own start, not at map time.)
SnapshotIsReal ==
  pc = "returned" /\ ret = "ok" /\ gen = mapGen => bytes = "own" /\ Published(TRUE)

\* Losing the race never surfaces as a parse error: errors found in bytes the
\* kernel was overwriting are deferred past the re-checks and become EAGAIN.
\* EINVAL is about the event at read_pos itself, read whole so far as it was
\* read, and published with a type that is not UTF-8.
RaceIsNeverAnError ==
  pc = "returned" /\ ret = "err" /\ gen = mapGen => bytes = "own" /\ Published(FALSE)

\* The drain skips an event only when the kernel gave it up: every published
\* event behind the read position was delivered or overwritten.
OnlyOverwrittenAreLost ==
  \A e \in log : e.pos < read_pos => e \in delivered \/ e.pos < tail_pos

-----------------------------------------------------------------------------
(* The inductive invariant behind the three properties above. *)

\* The window [tail_pos, write_pos) fits the region with the event being
\* written, and while the mapping is live each of its cells is intact.
WindowInv ==
  /\ tail_pos <= write_pos
  /\ write_pos + reserved <= tail_pos + Cap
  /\ Boundary(tail_pos)
  /\ generation # mapGen => reserved = 0 /\ phase = "quiet"
  /\ generation = mapGen => \A p \in tail_pos .. write_pos - 1 : Holds(p)

\* The events abut: each ends where another starts or at write_pos.
LogInv ==
  /\ \A e \in log : e.pos + e.len <= write_pos /\ Boundary(e.pos + e.len)
  /\ \A e, f \in log : e.pos < f.pos => e.pos + e.len <= f.pos
  /\ \A e, f \in log : e.pos = f.pos => e = f

\* What the consumer knows: positions it sampled are event boundaries, and
\* the generation it sampled lies between its mapping's and the ring's.
CursorInv ==
  /\ mapGen <= generation
  /\ pc # "idle" => mapGen <= gen /\ gen <= generation
  /\ read_pos <= write_pos /\ Boundary(read_pos)
  /\ pc \notin {"idle", "write"} => write <= write_pos /\ Boundary(write)
  /\ pc \in {"parse", "copy", "tail", "gen"} => read_pos < write

\* The snapshot taken so far is good unless the slot was given up since.
Fresh == gen = mapGen /\ generation = mapGen
CopyInv ==
  /\ bytes = "own" => \E named \in BOOLEAN : Published(named)
  /\ pc \in {"copy", "tail"} /\ Fresh /\ tail_pos <= read_pos => bytes = "own"
  /\ pc = "gen" /\ Fresh => bytes = "own"
  /\ pc \in {"tail", "gen"} /\ bytes = "own" =>
       (event = "ok" => Published(TRUE)) /\ (event = "err" => Published(FALSE))

\* WindowInv, LogInv, CursorInv and CopyInv together are preserved by every
\* step of the kernel, of event_at and of the caller.
RingInv ==
  /\ WindowInv /\ LogInv /\ CursorInv /\ CopyInv
  /\ SnapshotIsReal /\ RaceIsNeverAnError /\ OnlyOverwrittenAreLost

\* The ring with its races implements the plain event stream.
Stream == INSTANCE EventStream WITH
  end <- write_pos, oldest <- tail_pos, cursor <- read_pos
ImplementsStream == Stream!Spec

\* A consumer that keeps polling catches up whenever the kernel pauses: lapping
\* and resizing never leave event_at answering EAGAIN for a readable event.  The
\* one place it can stop at is an event whose type is not UTF-8: event_at refuses
\* it every time and hands out no size to step over it by.
StoppedAtUnnamed == \E e \in log : e.pos = read_pos /\ ~e.named
EventuallyDrained == []<>(read_pos = write_pos \/ StoppedAtUnnamed)
=============================================================================
