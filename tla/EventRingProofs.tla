-------------------------- MODULE EventRingProofs --------------------------
(***************************************************************************)
(* event_at never returns a torn event, never reports a lost race as a     *)
(* parse error (its only EINVAL is for an event published with a type that *)
(* is not UTF-8), and the drain loop implements EventStream, for every     *)
(* capacity, event length and number of resizes.                           *)
(***************************************************************************)
EXTENDS EventRing, TLAPS

(* A position's cell lies in the data region. *)
LEMMA CellInRegion ==
  ASSUME NEW p \in Nat
  PROVE  p % Cap \in Cells
BY EventRingAssumption DEF Cells

(* Division with remainder by the capacity. *)
LEMMA DivMod ==
  ASSUME NEW p \in Nat
  PROVE  p \div Cap \in Nat /\ p = Cap * (p \div Cap) + (p % Cap)
BY EventRingAssumption

(* Two positions less than a capacity apart never share a cell. *)
LEMMA NoAlias ==
  ASSUME NEW p \in Nat, NEW q \in Nat, p < q, q < p + Cap
  PROVE  p % Cap # q % Cap
<1> DEFINE a == p \div Cap
           b == q \div Cap
<1>1. SUFFICES ASSUME p % Cap = q % Cap PROVE FALSE
  OBVIOUS
<1>2. /\ a \in Nat /\ b \in Nat /\ Cap \in Nat \ {0}
      /\ p = Cap * a + (p % Cap) /\ q = Cap * b + (q % Cap)
  BY DivMod, EventRingAssumption
<1>3. p % Cap \in Nat /\ q % Cap \in Nat
  BY CellInRegion, EventRingAssumption DEF Cells
<1> HIDE DEF a, b
<1>4. Cap * b - Cap * a > 0 /\ Cap * b - Cap * a < Cap
  BY <1>1, <1>2, <1>3
<1>5. CASE b <= a
  <2>1. a - b \in Nat /\ a = b + (a - b)
    BY <1>2, <1>5
  <2>2. PICK k \in Nat : a = b + k
    BY <2>1
  <2>3. Cap * a = Cap * b + Cap * k /\ Cap * k >= 0
    BY <1>2, <2>2
  <2>4. QED BY <1>2, <1>4, <2>3
<1>6. CASE a < b
  <2>1. b - a - 1 \in Nat /\ b = a + 1 + (b - a - 1)
    BY <1>2, <1>6
  <2>2. PICK k \in Nat : b = a + 1 + k
    BY <2>1
  <2>3. Cap * b = Cap * a + Cap + Cap * k /\ Cap * k >= 0
    BY <1>2, <2>2
  <2>4. QED BY <1>2, <1>4, <2>3
<1>7. QED BY <1>2, <1>5, <1>6

-----------------------------------------------------------------------------
(* The types hold in every reachable state: the copy loop stays inside the *)
(* event that was parsed.                                                  *)
THEOREM TypeCorrect == Spec => []TypeOK
<1> USE EventRingAssumption
<1>1. Init => TypeOK
  BY DEF Init, TypeOK, Cells, Torn
<1>2. TypeOK /\ [Next]_vars => TypeOK'
  <2> SUFFICES ASSUME TypeOK, [Next]_vars PROVE TypeOK'
    OBVIOUS
  <2> USE DEF TypeOK
  <2>1. ASSUME NEW n \in 1 .. MaxLen, Reserve(n) PROVE TypeOK'
    BY <2>1 DEF Reserve, locals
  <2>2. CASE Overwrite
    BY <2>2 DEF Overwrite, locals, Torn
  <2>3. CASE Publish
    <3>1. ASSUME NEW i \in Cells, \E p \in Target : p % Cap = i
          PROVE  (CHOOSE p \in Target : p % Cap = i) \in Nat
      <4>1. (CHOOSE p \in Target : p % Cap = i) \in Target
        BY <3>1, Zenon
      <4>2. Target \subseteq Nat
        BY DEF Target
      <4>3. QED BY <4>1, <4>2
    <3>2. slot' \in [Cells -> Nat \cup {Torn}]
      BY <2>3, <3>1 DEF Publish
    <3>3. ASSUME NEW named \in BOOLEAN
          PROVE  [pos |-> write_pos, len |-> reserved, named |-> named] \in Events
      BY <2>3 DEF Publish, Events
    <3>4. QED BY <2>3, <3>2, <3>3 DEF Publish, locals
  <2>4. CASE Resize
    BY <2>4 DEF Resize, locals, Torn
  <2>5. CASE event_at
    <3>1. CASE LoadGeneration BY <3>1 DEF LoadGeneration, kernel
    <3>2. CASE LoadWrite BY <3>2 DEF LoadWrite, kernel
    <3>3. CASE CheckRange BY <3>3 DEF CheckRange, Return, kernel, locals
    <3>4. CASE ParseHeader
      <4>1. size' \in -1 .. Cap
        BY <3>4 DEF ParseHeader, Events
      <4>2. size' >= 0 => size' >= 1
        BY <3>4 DEF ParseHeader, Events
      <4>3. QED BY <3>4, <4>1, <4>2 DEF ParseHeader, Holds, kernel
    <3>5. CASE CopyCell BY <3>5 DEF CopyCell, Holds, kernel
    <3>6. CASE RefuseType \/ FinishCopy BY <3>6 DEF RefuseType, FinishCopy, kernel
    <3>7. CASE RecheckTail BY <3>7 DEF RecheckTail, Return, kernel, locals
    <3>8. CASE RecheckGeneration BY <3>8 DEF RecheckGeneration, Return, kernel, locals
    <3>9. QED BY <2>5, <3>1, <3>2, <3>3, <3>4, <3>5, <3>6, <3>7, <3>8 DEF event_at
  <2>6. CASE Accept BY <2>6 DEF Accept, Idle, kernel
  <2>7. CASE CatchUp BY <2>7 DEF CatchUp, Idle, kernel
  <2>8. CASE Poll BY <2>8 DEF Poll, Idle, kernel
  <2>9. CASE Remap BY <2>9 DEF Remap, Idle, Torn
  <2>10. CASE UNCHANGED vars BY <2>10 DEF vars, kernel, locals
  <2>11. QED
    BY <2>1, <2>2, <2>3, <2>4, <2>5, <2>6, <2>7, <2>8, <2>9, <2>10 DEF Next, Kernel, Caller
<1>3. QED BY <1>1, <1>2, PTL DEF Spec

-----------------------------------------------------------------------------
(* The kernel's steps: what each leaves of the window and of the log. *)

(* Cells of the readable window are not the cells being written. *)
LEMMA TargetMissesWindow ==
  ASSUME TypeOK, WindowInv, NEW p \in tail_pos .. write_pos - 1, NEW q \in Target
  PROVE  p % Cap # q % Cap
<1>1. p \in Nat /\ q \in Nat /\ p < q /\ q < p + Cap
  BY EventRingAssumption DEF TypeOK, WindowInv, Target
<1>2. QED BY <1>1, NoAlias

(* Making room only moves tail_pos, forward, to an event boundary. *)
LEMMA ReservePreserves ==
  ASSUME TypeOK, RingInv, NEW n \in 1 .. MaxLen, Reserve(n)
  PROVE  RingInv'
<1> USE EventRingAssumption DEF TypeOK, RingInv, Reserve, locals
<1>1. Boundary(tail_pos') /\ tail_pos <= tail_pos' /\ tail_pos' <= write_pos
  BY DEF WindowInv
<1>2. \A p : Boundary(p)' <=> Boundary(p)
  BY DEF Boundary
<1>3. \A p : Holds(p)' <=> Holds(p)
  BY DEF Holds
<1>4. WindowInv'
  BY <1>1, <1>2, <1>3 DEF WindowInv
<1>5. LogInv'
  BY <1>2 DEF LogInv
<1>6. CursorInv'
  BY <1>2 DEF CursorInv
<1>7. CopyInv'
  BY <1>1 DEF CopyInv, Fresh, Published
<1>8. SnapshotIsReal' /\ RaceIsNeverAnError'
  BY DEF SnapshotIsReal, RaceIsNeverAnError, Published
<1>9. OnlyOverwrittenAreLost'
  BY <1>1 DEF OnlyOverwrittenAreLost, Events
<1>10. QED BY <1>4, <1>5, <1>6, <1>7, <1>8, <1>9

(* Writing the reserved cells leaves the readable window intact. *)
LEMMA OverwritePreserves ==
  ASSUME TypeOK, RingInv, Overwrite
  PROVE  RingInv'
<1> USE EventRingAssumption DEF RingInv, Overwrite, locals
<1>1. \A p : Boundary(p)' <=> Boundary(p)
  BY DEF Boundary
<1>2. ASSUME generation = mapGen, NEW p \in tail_pos .. write_pos - 1
      PROVE  Holds(p)'
  <2>1. p \in Nat
    BY <1>2 DEF TypeOK
  <2>2. ~ \E q \in Target : q % Cap = p % Cap
    BY <1>2, TargetMissesWindow
  <2>3. slot'[p % Cap] = slot[p % Cap]
    BY <2>1, <2>2, CellInRegion
  <2>4. QED BY <1>2, <2>3 DEF Holds, WindowInv
<1>3. WindowInv'
  BY <1>1, <1>2 DEF WindowInv, TypeOK
<1>4. LogInv' /\ CursorInv' /\ CopyInv'
  BY <1>1 DEF LogInv, CursorInv, CopyInv, Fresh, Published
<1>5. SnapshotIsReal' /\ RaceIsNeverAnError' /\ OnlyOverwrittenAreLost'
  BY DEF SnapshotIsReal, RaceIsNeverAnError, OnlyOverwrittenAreLost, Published
<1>6. QED BY <1>3, <1>4, <1>5

(* Publishing appends one intact event that abuts the last one. *)
LEMMA PublishPreserves ==
  ASSUME TypeOK, RingInv, Publish
  PROVE  RingInv'
<1> USE EventRingAssumption DEF RingInv, Publish, locals
<1>0. PICK named \in BOOLEAN :
        log' = log \cup {[pos |-> write_pos, len |-> reserved, named |-> named]}
  OBVIOUS
<1> DEFINE new == [pos |-> write_pos, len |-> reserved, named |-> named]
<1>1. /\ reserved > 0 /\ reserved \in Nat /\ write_pos \in Nat /\ tail_pos \in Nat
      /\ log' = log \cup {new} /\ write_pos' = write_pos + reserved
      /\ new.pos = write_pos /\ new.len = reserved
  BY <1>0 DEF TypeOK
<1>2. \A e \in log : e.pos \in Nat /\ e.len \in Nat /\ e.len > 0
  BY DEF TypeOK, Events
<1> HIDE DEF new
<1>3. ASSUME NEW p, Boundary(p) PROVE Boundary(p)'
  BY <1>1, <1>3 DEF Boundary
<1>4. Boundary(write_pos)' /\ Boundary(write_pos + reserved)'
  BY <1>1 DEF Boundary
<1>5. ASSUME generation = mapGen, NEW p \in tail_pos .. write_pos' - 1
      PROVE  Holds(p)'
  <2>1. p \in Nat /\ p % Cap \in Cells
    BY <1>1, CellInRegion
  <2>2. CASE p < write_pos
    <3>1. p \in tail_pos .. write_pos - 1
      BY <1>1, <2>1, <2>2
    <3>2. ~ \E q \in Target : q % Cap = p % Cap
      BY <3>1, TargetMissesWindow
    <3>3. slot'[p % Cap] = slot[p % Cap]
      BY <2>1, <3>2
    <3>4. QED BY <1>5, <3>1, <3>3 DEF Holds, WindowInv
  <2>3. CASE write_pos <= p
    <3>1. p \in Target
      BY <1>1, <2>1, <2>3 DEF Target
    <3> DEFINE c == CHOOSE q \in Target : q % Cap = p % Cap
    <3>2. c \in Target /\ c % Cap = p % Cap
      BY <3>1, Zenon
    <3>3. slot'[p % Cap] = c
      BY <2>1, <3>1
    <3> HIDE DEF c
    <3>4. c \in Nat /\ c < p + Cap /\ p < c + Cap
      BY <1>1, <3>1, <3>2 DEF Target, TypeOK
    <3>5. c = p
      BY <2>1, <3>2, <3>4, NoAlias
    <3>6. QED BY <3>3, <3>5 DEF Holds
  <2>4. QED BY <1>1, <2>1, <2>2, <2>3
<1>6. WindowInv'
  <2>1. generation = mapGen
    BY DEF WindowInv
  <2>2. QED BY <1>1, <1>3, <1>5, <2>1 DEF WindowInv
<1>7. LogInv'
  <2>1. ASSUME NEW e \in log' PROVE (e.pos + e.len <= write_pos /\ Boundary(e.pos + e.len))'
    <3>1. CASE e \in log
      BY <1>1, <1>2, <1>3, <3>1 DEF LogInv
    <3>2. CASE e = new
      BY <1>1, <1>4, <3>2
    <3>3. QED BY <1>1, <2>1, <3>1, <3>2
  <2>2. ASSUME NEW e \in log', NEW f \in log', e.pos < f.pos PROVE e.pos + e.len <= f.pos
    BY <1>1, <1>2, <2>2 DEF LogInv
  <2>3. ASSUME NEW e \in log', NEW f \in log', e.pos = f.pos PROVE e = f
    BY <1>1, <1>2, <2>3 DEF LogInv
  <2>4. QED BY <2>1, <2>2, <2>3 DEF LogInv
<1>8. CursorInv'
  <2>1. write_pos <= write_pos'
    BY <1>1
  <2>2. QED BY <1>1, <1>3, <2>1 DEF CursorInv, TypeOK
<1>9. CopyInv' /\ SnapshotIsReal' /\ RaceIsNeverAnError'
  <2>1. ASSUME NEW n, Published(n) PROVE Published(n)'
    BY <1>1, <2>1 DEF Published
  <2>2. QED BY <1>1, <2>1 DEF CopyInv, Fresh, SnapshotIsReal, RaceIsNeverAnError
<1>10. OnlyOverwrittenAreLost'
  BY <1>1 DEF OnlyOverwrittenAreLost, CursorInv, TypeOK
<1>11. QED BY <1>6, <1>7, <1>8, <1>9, <1>10

(* A resize makes every sampled generation stale. *)
LEMMA ResizePreserves ==
  ASSUME TypeOK, RingInv, Resize
  PROVE  RingInv'
<1> USE DEF RingInv, Resize, locals
<1>1. \A p : Boundary(p)' <=> Boundary(p)
  BY DEF Boundary
<1>2. generation' = generation + 1 /\ generation \in Nat /\ mapGen \in Nat /\ gen \in Nat
  BY DEF TypeOK
<1>3. mapGen <= generation /\ generation' # mapGen /\ ~Fresh'
  BY <1>2 DEF CursorInv, Fresh
<1>4. WindowInv'
  BY <1>1, <1>3, EventRingAssumption DEF WindowInv, TypeOK
<1>5. LogInv' /\ CursorInv'
  BY <1>1, <1>2 DEF LogInv, CursorInv
<1>6. CopyInv'
  BY <1>3 DEF CopyInv, Published
<1>7. SnapshotIsReal' /\ RaceIsNeverAnError' /\ OnlyOverwrittenAreLost'
  BY DEF SnapshotIsReal, RaceIsNeverAnError, OnlyOverwrittenAreLost, Published
<1>8. QED BY <1>4, <1>5, <1>6, <1>7

-----------------------------------------------------------------------------
(* The steps of event_at: none of them moves the ring. *)
LEMMA EventAtPreserves ==
  ASSUME TypeOK, RingInv, event_at
  PROVE  RingInv'
<1> USE DEF RingInv, kernel, locals
<1>1. UNCHANGED <<kernel, mapGen, read_pos, delivered>>
  BY DEF event_at, LoadGeneration, LoadWrite, CheckRange, ParseHeader, CopyCell,
         RefuseType, FinishCopy, RecheckTail, RecheckGeneration
<1>2. \A p : (Boundary(p)' <=> Boundary(p)) /\ (Holds(p)' <=> Holds(p))
  BY <1>1 DEF Boundary, Holds
<1>3. WindowInv' /\ LogInv' /\ OnlyOverwrittenAreLost'
  BY <1>1, <1>2 DEF WindowInv, LogInv, OnlyOverwrittenAreLost
<1> DEFINE Reader == CursorInv /\ CopyInv /\ SnapshotIsReal /\ RaceIsNeverAnError
<1> USE DEF CursorInv, CopyInv, Fresh, SnapshotIsReal, RaceIsNeverAnError, Published
<1>4. CASE LoadGeneration
  <2>1. CursorInv'
    BY <1>1, <1>2, <1>4 DEF LoadGeneration, TypeOK
  <2>2. CopyInv' /\ SnapshotIsReal' /\ RaceIsNeverAnError'
    BY <1>1, <1>4 DEF LoadGeneration
  <2>3. QED BY <1>3, <2>1, <2>2
<1>5. CASE LoadWrite
  <2>1. Boundary(write_pos)
    BY DEF Boundary
  <2>2. Reader'
    BY <1>1, <1>2, <1>5, <2>1 DEF LoadWrite, TypeOK
  <2>3. QED BY <1>3, <2>2
<1>6. CASE CheckRange
  BY <1>1, <1>2, <1>3, <1>6 DEF CheckRange, Return, TypeOK
<1>7. CASE ParseHeader
  <2>1. CASE Holds(read_pos)
    <3>1. PICK e \in log : e.pos = read_pos /\ size' = e.len
      BY <1>7, <2>1 DEF ParseHeader
    <3>2. /\ e.named \in BOOLEAN /\ e.len > 0 /\ e.len \in Nat
          /\ e = [pos |-> read_pos, len |-> size', named |-> e.named]
      BY <3>1 DEF TypeOK, Events
    <3>3. read_pos + size' <= write
      BY <1>7, <3>1, <3>2 DEF ParseHeader, LogInv, Boundary, TypeOK
    <3>4. bytes' = "own" /\ event' = "ok" /\ pc' = "copy"
      BY <1>7, <2>1, <3>1, <3>2, <3>3 DEF ParseHeader, TypeOK
    <3>5. Reader'
      BY <1>1, <1>2, <1>7, <3>1, <3>2, <3>4 DEF ParseHeader
    <3>6. QED BY <1>3, <3>5
  <2>2. CASE ~Holds(read_pos)
    <3>1. ~(Fresh /\ tail_pos <= read_pos)
      BY <1>7, <2>2 DEF ParseHeader, WindowInv, TypeOK
    <3>2. Reader'
      BY <1>1, <1>2, <1>7, <2>2, <3>1 DEF ParseHeader
    <3>3. QED BY <1>3, <3>2
  <2>3. QED BY <2>1, <2>2
<1>8. CASE CopyCell
  <2>1. ASSUME Fresh, tail_pos <= read_pos PROVE Holds(read_pos + copied)
    <3>1. \E named \in BOOLEAN : [pos |-> read_pos, len |-> size, named |-> named] \in log
      BY <1>8, <2>1 DEF CopyCell
    <3>2. read_pos + size <= write_pos
      BY <3>1 DEF LogInv
    <3>3. read_pos + copied \in tail_pos .. write_pos - 1
      BY <1>8, <2>1, <3>2 DEF CopyCell, TypeOK
    <3>4. QED BY <2>1, <3>3 DEF WindowInv
  <2>2. Reader'
    BY <1>1, <1>2, <1>8, <2>1 DEF CopyCell
  <2>3. QED BY <1>3, <2>2
<1>9. CASE RefuseType \/ FinishCopy
  <2>1. ASSUME bytes = "own"
        PROVE  \E e \in log : /\ e.pos = read_pos /\ e.named \in BOOLEAN
                              /\ e = [pos |-> read_pos, len |-> size, named |-> e.named]
    BY <2>1
  <2>2. ASSUME bytes = "own", NEW e \in log, NEW f \in log, e.pos = read_pos, f.pos = read_pos
        PROVE  e = f
    BY <2>2 DEF LogInv
  <2>3. CASE RefuseType
    <3>1. bytes = "own" => Published(FALSE)
      BY <2>1, <2>2, <2>3 DEF RefuseType, Refusable
    <3>2. Reader'
      BY <1>1, <1>2, <2>3, <3>1 DEF RefuseType
    <3>3. QED BY <1>3, <3>2
  <2>4. CASE FinishCopy
    <3>1. bytes = "own" => Published(TRUE)
      BY <2>1, <2>4 DEF FinishCopy, Refusable
    <3>2. Reader'
      BY <1>1, <1>2, <2>4, <3>1 DEF FinishCopy
    <3>3. QED BY <1>3, <3>2
  <2>5. QED BY <1>9, <2>3, <2>4
<1>10. CASE RecheckTail
  BY <1>1, <1>2, <1>3, <1>10 DEF RecheckTail, Return, TypeOK
<1>11. CASE RecheckGeneration
  <2>1. ASSUME generation = gen, gen = mapGen
        PROVE  /\ bytes = "own"
               /\ event = "ok" => Published(TRUE)
               /\ event = "err" => Published(FALSE)
    BY <1>11, <2>1 DEF RecheckGeneration
  <2>2. Reader'
    BY <1>1, <1>2, <1>11, <2>1 DEF RecheckGeneration, Return, TypeOK
  <2>3. QED BY <1>3, <2>2
<1>12. QED
  BY <1>4, <1>5, <1>6, <1>7, <1>8, <1>9, <1>10, <1>11 DEF event_at

-----------------------------------------------------------------------------
(* The caller's steps. *)

(* An accepted event is a published one, and the cursor moves to a boundary. *)
LEMMA AcceptedIsReal ==
  ASSUME TypeOK, RingInv, Accept
  PROVE  /\ bytes = "own"
         /\ [pos |-> read_pos, len |-> size, named |-> TRUE] \in log
         /\ gen = mapGen
<1>1. mapGen <= gen /\ gen <= generation /\ generation = mapGen
  BY DEF RingInv, CursorInv, Accept, Idle
<1>2. gen = mapGen
  BY <1>1 DEF TypeOK
<1>3. QED BY <1>2 DEF RingInv, SnapshotIsReal, Published, Accept, Idle

\* A step of the program that asks for the next event keeps the invariant.
LEMMA CallerPreserves ==
  ASSUME TypeOK, RingInv, Caller
  PROVE  RingInv'
<1> USE DEF RingInv, Idle
<1>1. CASE Accept
  <2> DEFINE f == [pos |-> read_pos, len |-> size, named |-> TRUE]
  <2>1. f \in log /\ f.pos = read_pos /\ f.len = size /\ bytes = "own"
    BY <1>1, AcceptedIsReal
  <2>2. UNCHANGED <<kernel, mapGen>> /\ read_pos' = read_pos + size /\ delivered' = delivered \cup {f}
    BY <1>1, <2>1 DEF Accept
  <2> HIDE DEF f
  <2>3. \A p : (Boundary(p)' <=> Boundary(p)) /\ (Holds(p)' <=> Holds(p))
    BY <2>2 DEF Boundary, Holds, kernel
  <2>4. WindowInv' /\ LogInv'
    BY <2>2, <2>3 DEF WindowInv, LogInv, kernel
  <2>5. CursorInv'
    BY <1>1, <2>1, <2>2, <2>3 DEF Accept, CursorInv, LogInv, kernel
  <2>6. CopyInv' /\ SnapshotIsReal' /\ RaceIsNeverAnError'
    BY <1>1 DEF Accept, CopyInv, SnapshotIsReal, RaceIsNeverAnError
  <2>7. ASSUME NEW e \in log, e.pos < read_pos + size
        PROVE  e \in delivered \cup {f} \/ e.pos < tail_pos
    <3>1. e.pos \in Nat /\ read_pos \in Nat /\ size \in Int
      BY DEF TypeOK, Events
    <3>2. CASE e.pos < read_pos
      BY <3>2 DEF OnlyOverwrittenAreLost
    <3>3. CASE read_pos < e.pos
      BY <2>1, <2>7, <3>1, <3>3 DEF LogInv
    <3>4. CASE e.pos = read_pos
      BY <2>1, <3>4 DEF LogInv
    <3>5. QED BY <3>1, <3>2, <3>3, <3>4
  <2>8. OnlyOverwrittenAreLost'
    BY <2>2, <2>7 DEF OnlyOverwrittenAreLost, kernel
  <2>9. QED BY <2>4, <2>5, <2>6, <2>8
<1>2. CASE CatchUp
  <2>1. UNCHANGED <<kernel, mapGen, delivered>> /\ read_pos' = tail_pos /\ read_pos < tail_pos
    BY <1>2 DEF CatchUp
  <2>2. \A p : (Boundary(p)' <=> Boundary(p)) /\ (Holds(p)' <=> Holds(p))
    BY <2>1 DEF Boundary, Holds, kernel
  <2>3. WindowInv' /\ LogInv'
    BY <2>1, <2>2 DEF WindowInv, LogInv, kernel
  <2>4. CursorInv' /\ CopyInv' /\ SnapshotIsReal' /\ RaceIsNeverAnError'
    BY <1>2, <2>1, <2>2 DEF CatchUp, CursorInv, WindowInv, CopyInv, SnapshotIsReal,
                            RaceIsNeverAnError, kernel
  <2>5. OnlyOverwrittenAreLost'
    BY <2>1 DEF OnlyOverwrittenAreLost, kernel
  <2>6. QED BY <2>3, <2>4, <2>5
<1>3. CASE Poll
  <2>1. \A p : (Boundary(p)' <=> Boundary(p)) /\ (Holds(p)' <=> Holds(p))
    BY <1>3 DEF Poll, Boundary, Holds, kernel
  <2>2. QED
    BY <1>3, <2>1 DEF Poll, WindowInv, LogInv, CursorInv, CopyInv, SnapshotIsReal,
                      RaceIsNeverAnError, OnlyOverwrittenAreLost, kernel
<1>4. CASE Remap
  <2>1. Boundary(0)' /\ reserved' = 0 /\ phase' = "quiet"
    BY <1>4 DEF Remap, Boundary, WindowInv
  <2>2. QED
    BY <1>4, <2>1, EventRingAssumption
    DEF Remap, TypeOK, WindowInv, LogInv, CursorInv, CopyInv, SnapshotIsReal,
        RaceIsNeverAnError, OnlyOverwrittenAreLost
<1>5. QED BY <1>1, <1>2, <1>3, <1>4 DEF Caller

-----------------------------------------------------------------------------
(* RingInv is an invariant: in particular event_at returns only whole,     *)
(* published events with a UTF-8 type, an error is about a published event *)
(* whose type is not, never about a lost race, and only overwritten events *)
(* are skipped.                                                            *)
THEOREM RingCorrect == Spec => []RingInv
<1>1. Init => RingInv
  BY EventRingAssumption
  DEF Init, RingInv, WindowInv, LogInv, CursorInv, CopyInv, SnapshotIsReal,
      RaceIsNeverAnError, OnlyOverwrittenAreLost, Boundary
<1>2. TypeOK /\ RingInv /\ [Next]_vars => RingInv'
  <2> SUFFICES ASSUME TypeOK, RingInv, [Next]_vars PROVE RingInv'
    OBVIOUS
  <2>1. CASE Kernel
    BY <2>1, ReservePreserves, OverwritePreserves, PublishPreserves, ResizePreserves DEF Kernel
  <2>2. CASE UNCHANGED vars
    <3>1. \A p : (Boundary(p)' <=> Boundary(p)) /\ (Holds(p)' <=> Holds(p))
      BY <2>2 DEF vars, Boundary, Holds, kernel
    <3>2. QED
      BY <2>2, <3>1 DEF vars, RingInv, WindowInv, LogInv, CursorInv, CopyInv, Fresh,
                        SnapshotIsReal, RaceIsNeverAnError, OnlyOverwrittenAreLost, Published,
                        kernel, locals
  <2>3. QED BY <2>1, <2>2, EventAtPreserves, CallerPreserves DEF Next
<1>3. QED BY <1>1, <1>2, TypeCorrect, PTL DEF Spec

(* No torn snapshot. *)
THEOREM SnapshotCorrect == Spec => []SnapshotIsReal
BY RingCorrect, PTL DEF RingInv

(* A lost race is never a parse error: on a ring not resized before the    *)
(* call, EINVAL is returned only for an event that was published at        *)
(* read_pos with a type that is not UTF-8.                                 *)
THEOREM RaceCorrect == Spec => []RaceIsNeverAnError
BY RingCorrect, PTL DEF RingInv

(* What the drain skips, the kernel gave up. *)
THEOREM LossCorrect == Spec => []OnlyOverwrittenAreLost
BY RingCorrect, PTL DEF RingInv

(* Every step of the ring, races included, is a step of the plain stream:  *)
(* the drain delivers published events, whole and in order.                *)
THEOREM RingImplementsStream == Spec => ImplementsStream
<1>1. Init => Stream!Init
  BY DEF Init, Stream!Init
<1>2. TypeOK /\ RingInv /\ [Next]_vars => [Stream!Next]_(Stream!vars)
  <2> SUFFICES ASSUME TypeOK, RingInv, [Next]_vars PROVE [Stream!Next]_(Stream!vars)
    OBVIOUS
  <2> USE DEF Stream!Next, Stream!vars, kernel, locals
  <2>1. ASSUME NEW n \in 1 .. MaxLen, Reserve(n) PROVE [Stream!Next]_(Stream!vars)
    BY <2>1 DEF Reserve, Boundary, Stream!Forget, Stream!Boundary, TypeOK
  <2>2. CASE Overwrite BY <2>2 DEF Overwrite
  <2>3. CASE Publish
    BY <2>3 DEF Publish, Stream!Emit, TypeOK
  <2>4. CASE Resize BY <2>4 DEF Resize
  <2>5. CASE event_at
    BY <2>5 DEF event_at, LoadGeneration, LoadWrite, CheckRange, ParseHeader, CopyCell,
                RefuseType, FinishCopy, RecheckTail, RecheckGeneration
  <2>6. CASE Accept
    BY <2>6, AcceptedIsReal DEF Accept, Stream!Deliver
  <2>7. CASE CatchUp BY <2>7 DEF CatchUp, Stream!CatchUp
  <2>8. CASE Poll BY <2>8 DEF Poll
  <2>9. CASE Remap BY <2>9 DEF Remap, Stream!Remap
  <2>10. CASE UNCHANGED vars BY <2>10 DEF vars
  <2>11. QED
    BY <2>1, <2>2, <2>3, <2>4, <2>5, <2>6, <2>7, <2>8, <2>9, <2>10 DEF Next, Kernel, Caller
<1>3. QED BY <1>1, <1>2, TypeCorrect, RingCorrect, PTL DEF Spec, ImplementsStream, Stream!Spec
=============================================================================
