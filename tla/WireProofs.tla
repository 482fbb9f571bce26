----------------------------- MODULE WireProofs -----------------------------
(***************************************************************************)
(* The registry's byte formats.  Watch records and value records are read  *)
(* exactly as the kernel wrote them, or refused, and value data decodes to *)
(* what was stored, losing NULs only: for every set of events, of values   *)
(* and of stored data, and for buffers of any length.                      *)
(***************************************************************************)
EXTENDS WireFormats, CommonLemmas

(* FlattenSeq joins a sequence of sequences.                               *)
(* What FlattenSeq computes, place by place.                               *)
LEMMA FlattenSteps ==
  ASSUME NEW C, NEW s \in Seq(Seq(C)), s # <<>>
  PROVE  \E f \in [1 .. Len(s) -> Seq(C)] :
            /\ FlattenSeq(s) = f[Len(s)] /\ f[1] = s[1]
            /\ \A i \in 1 .. Len(s) : i # 1 => f[i] = f[i - 1] \o s[i]
<1> DEFINE D == 1 .. Len(s)
           step(g) == [i \in D |-> IF i = 1 THEN s[i] ELSE g[i - 1] \o s[i]]
           size == [i \in D |-> i]
           all == [g \in [D -> Seq(C)] |-> step(g)]
<1>1. Len(s) \in Nat \ {0} /\ \A i \in D : s[i] \in Seq(C)
  BY HeadAndTail, ElementOfSeq
<1>2. size \in [D -> Nat] /\ <<>> \in Seq(C)
  BY <1>1
<1>3. all \in [[D -> Seq(C)] -> [D -> Seq(C)]]
  <2>1. ASSUME NEW g \in [D -> Seq(C)], NEW i \in D
        PROVE (IF i = 1 THEN s[i] ELSE g[i - 1] \o s[i]) \in Seq(C)
    <3>1. CASE i = 1
      BY <1>1, <3>1
    <3>2. CASE i # 1
      <4>1. i - 1 \in D
        BY <1>1, <3>2
      <4>2. g[i - 1] \in Seq(C) /\ s[i] \in Seq(C)
        BY <1>1, <4>1
      <4>3. QED BY <3>2, <4>2, ConcatProperties
    <3>3. QED BY <3>1, <3>2
  <2>2. QED BY <2>1
<1>4. ASSUME NEW g \in [D -> Seq(C)], NEW h \in [D -> Seq(C)], NEW i \in D,
             \A j \in D : size[j] < size[i] => g[j] = h[j]
      PROVE  all[g][i] = all[h][i]
  <2>1. CASE i = 1
    BY <2>1
  <2>2. CASE i # 1
    <3>1. i - 1 \in D /\ i - 1 < i
      BY <1>1, <2>2
    <3>2. g[i - 1] = h[i - 1]
      BY <1>4, <3>1
    <3>3. QED BY <2>2, <3>2
  <2>3. QED BY <2>1, <2>2
<1>5. \E f \in [D -> Seq(C)] : f = all[f]
  <2>1. all \in Recursions(D, Seq(C), size)
    BY <1>3, <1>4 DEF Recursions
  <2>2. Seq(C) # {}
    BY <1>2
  <2> DEFINE R == Seq(C)
  <2>3. size \in [D -> Nat] /\ all \in Recursions(D, R, size) /\ R # {}
    BY <1>2, <2>1, <2>2
  <2> HIDE DEF D, size, all, R, step
  <2>4. Solvable(all)
    BY <2>3, RecursiveOnSize
  <2>5. QED BY <2>3, <2>4 DEF R, Solvable, Recursions
<1> DEFINE f == CHOOSE g : g = step(g)
<1>6. \E g : g = step(g) /\ g \in [D -> Seq(C)]
  BY <1>5
<1>7. f = step(f)
  BY <1>6
<1>8. FlattenSeq(s) = f[Len(s)]
  BY <1>1 DEF FlattenSeq
<1> HIDE DEF f
<1>9. PICK g : g = step(g) /\ g \in [D -> Seq(C)]
  BY <1>6
<1>10. \A i \in D : f[i] = g[i]
  <2> DEFINE Same == {i \in D : f[i] = g[i]}
  <2>1. ASSUME NEW i \in D, \A j \in D : size[j] < size[i] => j \in Same PROVE i \in Same
    <3>1. CASE i = 1
      BY <1>7, <1>9, <3>1
    <3>2. CASE i # 1
      <4>1. i - 1 \in D /\ i - 1 < i
        BY <1>1, <3>2
      <4>2. f[i - 1] = g[i - 1]
        BY <2>1, <4>1
      <4>3. f[i] = f[i - 1] \o s[i]
        BY <1>7, <3>2
      <4>4. g[i] = g[i - 1] \o s[i]
        BY <1>9, <3>2
      <4>5. QED BY <4>2, <4>3, <4>4
    <3>3. QED BY <3>1, <3>2
  <2>2. Same \in Inductive(D, size)
    BY <2>1 DEF Inductive
  <2> HIDE DEF Same, size, D
  <2>4. \A i \in D : i \in Same
    BY <1>2, <2>2, BySize
  <2>5. QED BY <2>4 DEF Same
<1>11. f \in [D -> Seq(C)]
  <2>1. \A i \in D : f[i] \in Seq(C)
    BY <1>9, <1>10
  <2>2. f = [i \in D |-> f[i]]
    BY <1>7, Zenon
  <2>3. QED BY <2>1, <2>2
<1>12. f[1] = s[1] /\ \A i \in D : i # 1 => f[i] = f[i - 1] \o s[i]
  <2>1. 1 \in D
    BY <1>1
  <2>2. \A i \in D : f[i] = IF i = 1 THEN s[i] ELSE f[i - 1] \o s[i]
    BY <1>7, Zenon
  <2>3. QED BY <2>1, <2>2
<1>13. QED BY <1>8, <1>11, <1>12

(* Nothing flattens to nothing.                                            *)
LEMMA FlattenEmpty == FlattenSeq(<<>>) = <<>>
BY DEF FlattenSeq

(* Flattening sequences over C gives one over C.                           *)
LEMMA FlattenTyped ==
  ASSUME NEW C, NEW s \in Seq(Seq(C))
  PROVE  FlattenSeq(s) \in Seq(C)
<1>1. CASE s = <<>>
  BY <1>1, FlattenEmpty, EmptySeq
<1>2. CASE s # <<>>
  <2>1. PICK f \in [1 .. Len(s) -> Seq(C)] : FlattenSeq(s) = f[Len(s)]
    BY <1>2, FlattenSteps
  <2>2. Len(s) \in 1 .. Len(s)
    BY <1>2, HeadAndTail
  <2>3. QED BY <2>1, <2>2
<1>3. QED BY <1>1, <1>2

(* Flattening with one more sequence at the end.                           *)
LEMMA FlattenAppend ==
  ASSUME NEW C, NEW s \in Seq(Seq(C)), NEW x \in Seq(C)
  PROVE  FlattenSeq(Append(s, x)) = FlattenSeq(s) \o x
<1> DEFINE t == Append(s, x)
<1>1. /\ t \in Seq(Seq(C)) /\ t # <<>> /\ Len(t) = Len(s) + 1 /\ Len(s) \in Nat
      /\ \A i \in 1 .. Len(s) : t[i] = s[i]
      /\ t[Len(s) + 1] = x
  BY AppendProperties, LenProperties
<1> HIDE DEF t
<1>2. PICK g \in [1 .. Len(t) -> Seq(C)] :
         /\ FlattenSeq(t) = g[Len(t)] /\ g[1] = t[1]
         /\ \A i \in 1 .. Len(t) : i # 1 => g[i] = g[i - 1] \o t[i]
  <2>1. t \in Seq(Seq(C)) /\ t # <<>>
    BY <1>1
  <2>2. QED BY <2>1, FlattenSteps
<1>3. CASE s = <<>>
  <2>1. Len(s) = 0
    BY <1>3
  <2>2. FlattenSeq(t) = x
    BY <1>1, <1>2, <2>1
  <2>3. <<>> \o x = x
    BY ConcatEmptySeq
  <2>4. QED BY <1>3, <2>2, <2>3, FlattenEmpty DEF t
<1>4. CASE s # <<>>
  <2>1. PICK f \in [1 .. Len(s) -> Seq(C)] :
           /\ FlattenSeq(s) = f[Len(s)] /\ f[1] = s[1]
           /\ \A i \in 1 .. Len(s) : i # 1 => f[i] = f[i - 1] \o s[i]
    BY <1>4, FlattenSteps
  <2>2. Len(s) \in Nat \ {0}
    BY <1>4, HeadAndTail
  <2> DEFINE D == 1 .. Len(s)
             size == [i \in D |-> i]
             Same == {i \in D : f[i] = g[i]}
  <2>3. ASSUME NEW i \in D, \A j \in D : size[j] < size[i] => j \in Same PROVE i \in Same
    <3>1. CASE i = 1
      BY <1>1, <1>2, <2>1, <2>2, <3>1
    <3>2. CASE i # 1
      <4>1. i - 1 \in D /\ i - 1 < i /\ i \in 1 .. Len(t)
        BY <1>1, <3>2
      <4>2. f[i - 1] = g[i - 1]
        BY <2>3, <4>1
      <4>3. f[i] = f[i - 1] \o s[i] /\ g[i] = g[i - 1] \o t[i] /\ t[i] = s[i]
        BY <1>1, <1>2, <2>1, <3>2, <4>1
      <4>4. QED BY <4>2, <4>3
    <3>3. QED BY <3>1, <3>2
  <2>4. size \in [D -> Nat]
    BY <2>2
  <2>5. Same \in Inductive(D, size)
    BY <2>3 DEF Inductive
  <2>6. \A i \in D : i \in Same
    <3> HIDE DEF Same, size, D
    <3>1. QED BY <2>4, <2>5, BySize
  <2>7. f[Len(s)] = g[Len(s)]
    BY <2>2, <2>6
  <2>8. Len(t) \in 1 .. Len(t) /\ Len(t) # 1 /\ Len(t) - 1 = Len(s)
    BY <1>1, <2>2
  <2>9. g[Len(t)] = g[Len(s)] \o t[Len(t)]
    BY <1>2, <2>8
  <2>10. t[Len(t)] = x
    BY <1>1
  <2>11. QED BY <1>2, <2>1, <2>7, <2>9, <2>10 DEF t
<1>5. QED BY <1>3, <1>4

(* Flattening with one more sequence in front.                             *)
LEMMA FlattenCons ==
  ASSUME NEW C, NEW s \in Seq(Seq(C)), NEW x \in Seq(C)
  PROVE  FlattenSeq(<<x>> \o s) = x \o FlattenSeq(s)
<1> DEFINE D == Seq(Seq(C))
           size == [r \in D |-> Len(r)]
           Good == {r \in D : FlattenSeq(<<x>> \o r) = x \o FlattenSeq(r)}
<1>1. ASSUME NEW r \in D, \A q \in D : size[q] < size[r] => q \in Good
      PROVE  r \in Good
  <2>1. CASE r = <<>>
    <3>1. <<x>> \o <<>> = Append(<<>>, x) /\ <<>> \in D
      OBVIOUS
    <3>2. FlattenSeq(Append(<<>>, x)) = FlattenSeq(<<>>) \o x
      BY <3>1, FlattenAppend
    <3>3. <<>> \o x = x /\ x \o <<>> = x
      BY ConcatEmptySeq
    <3>4. QED BY <2>1, <3>1, <3>2, <3>3, FlattenEmpty
  <2>2. CASE r # <<>>
    <3> DEFINE q == SubSeq(r, 1, Len(r) - 1)
               y == r[Len(r)]
    <3>1. Len(r) \in Nat \ {0} /\ Len(r) - 1 \in Nat /\ Len(r) - 1 <= Len(r)
      BY <2>2, HeadAndTail
    <3>2. q \in D /\ Len(q) = Len(r) - 1 /\ y \in Seq(C)
      <4>1. q \in D /\ Len(q) = Len(r) - 1
        <5> DEFINE T == Seq(C)  n == Len(r) - 1
        <5>1. r \in Seq(T) /\ n \in Nat /\ n <= Len(r)
          BY <3>1
        <5> HIDE DEF T, n
        <5>2. SubSeq(r, 1, n) \in Seq(T) /\ Len(SubSeq(r, 1, n)) = n
          BY <5>1, Cut
        <5>3. QED BY <5>2 DEF T, n
      <4>2. Len(r) \in 1 .. Len(r)
        BY <3>1
      <4>3. y \in Seq(C)
        BY <4>2, ElementOfSeq
      <4>4. QED BY <4>1, <4>3
    <3>3. r = Append(q, y)
      <4>1. /\ Append(q, y) \in D /\ Len(Append(q, y)) = Len(r)
            /\ \A i \in 1 .. Len(q) : Append(q, y)[i] = q[i]
            /\ Append(q, y)[Len(q) + 1] = y
        <5> HIDE DEF q, y
        <5>1. QED BY <3>1, <3>2, AppendProperties
      <4>2. \A i \in 1 .. Len(q) : q[i] = r[i]
        BY <3>1, <3>2, Cut
      <4> HIDE DEF q
      <4>3. ASSUME NEW i \in 1 .. Len(r) PROVE Append(q, y)[i] = r[i]
        <5>1. CASE i = Len(r)
          BY <3>1, <3>2, <4>1, <5>1
        <5>2. CASE i # Len(r)
          <6>1. i \in 1 .. Len(q)
            BY <3>1, <3>2, <5>2
          <6>2. QED BY <4>1, <4>2, <6>1
        <5>3. QED BY <5>1, <5>2
      <4> DEFINE p == Append(q, y)
      <4> HIDE DEF p
      <4>4. p \in D /\ Len(p) = Len(r) /\ \A i \in 1 .. Len(r) : p[i] = r[i]
        BY <4>1, <4>3 DEF p
      <4>5. p = r
        BY <4>4, SeqEqual
      <4>6. QED BY <4>5 DEF p
    <3> HIDE DEF q, y
    <3>4. q \in Good
      <4>1. size[q] < size[r]
        BY <3>1, <3>2
      <4>2. QED BY <1>1, <3>2, <4>1
    <3>5. <<x>> \o r = Append(<<x>> \o q, y)
      <4>1. <<x>> \in D /\ <<y>> \in D
        BY <3>2
      <4>2. r = q \o <<y>>
        BY <3>2, <3>3, AppendIsConcat
      <4>3. <<x>> \o q \in D
        BY <3>2, <4>1, ConcatProperties
      <4>4. Append(<<x>> \o q, y) = (<<x>> \o q) \o <<y>>
        BY <3>2, <4>3, AppendIsConcat
      <4>5. (<<x>> \o q) \o <<y>> = <<x>> \o (q \o <<y>>)
        BY <3>2, <4>1, ConcatAssociative, SMTT(30)
      <4>6. QED BY <4>2, <4>4, <4>5
    <3>6. <<x>> \o q \in D
      <4>1. <<x>> \in D
        OBVIOUS
      <4>2. QED BY <3>2, <4>1, ConcatProperties
    <3>7. FlattenSeq(<<x>> \o r) = FlattenSeq(<<x>> \o q) \o y
      BY <3>2, <3>5, <3>6, FlattenAppend
    <3>8. FlattenSeq(<<x>> \o q) = x \o FlattenSeq(q)
      BY <3>4
    <3>9. FlattenSeq(q) \in Seq(C)
      BY <3>2, FlattenTyped
    <3>10. (x \o FlattenSeq(q)) \o y = x \o (FlattenSeq(q) \o y)
      <4> DEFINE z == FlattenSeq(q)
      <4>1. x \in Seq(C) /\ y \in Seq(C) /\ z \in Seq(C)
        BY <3>2, <3>9
      <4> HIDE DEF z
      <4>2. (x \o z) \o y = x \o (z \o y)
        BY <4>1, ConcatAssociative, SMTT(30)
      <4>3. QED BY <4>2 DEF z
    <3>11. FlattenSeq(r) = FlattenSeq(q) \o y
      BY <3>2, <3>3, FlattenAppend
    <3>12. QED BY <3>7, <3>8, <3>10, <3>11
  <2>3. QED BY <2>1, <2>2
<1>2. size \in [D -> Nat]
  BY LenProperties
<1>3. Good \in Inductive(D, size)
  BY <1>1 DEF Inductive
<1>4. \A r \in D : r \in Good
  <2> HIDE DEF D, size, Good
  <2>1. QED BY <1>2, <1>3, BySize
<1>5. QED BY <1>4

(* The front of a joined sequence is a prefix of it.                       *)
LEMMA FrontIsPrefix ==
  ASSUME NEW S, NEW a \in Seq(S), NEW b \in Seq(S)
  PROVE  IsPrefix(a, a \o b)
<1> DEFINE joined == a \o b
<1>1. SubSeq(joined, 1, Len(a)) = a /\ SubSeq(a, 1, Len(a)) = a
  BY Parted, SubSeqFull
<1>2. Len(joined) = Len(a) + Len(b) /\ Len(a) \in Nat /\ Len(b) \in Nat
  BY Joined
<1> HIDE DEF joined
<1>3. IsPrefix(a, joined)
  BY <1>1, <1>2 DEF IsPrefix
<1>4. QED BY <1>3 DEF joined


-----------------------------------------------------------------------------
(* The path of a subtree watch: lengths and components.                   *)
(* A length cell says a number of cells.                                   *)
LEMMA CellsAreNumbers == Cells \subseteq Nat /\ NUL \in Cells /\ NUL \notin Garbled
BY WireAssumption

(* The first n cells of a buffer and those behind them, when there are n.  *)
LEMMA CutCells ==
  ASSUME NEW b \in Seq(Cells), NEW n \in Nat, n <= Len(b)
  PROVE  /\ Take(b, n) \in Seq(Cells) /\ Len(Take(b, n)) = n
         /\ Drop(b, n) \in Seq(Cells) /\ Len(Drop(b, n)) = Len(b) - n
         /\ \A i \in 1 .. n : Take(b, n)[i] = b[i]
         /\ \A i \in 1 .. Len(b) - n : Drop(b, n)[i] = b[n + i]
         /\ b = Take(b, n) \o Drop(b, n)
BY Cut DEF Take, Drop

(* The cells in front of and behind a joint.                               *)
LEMMA PartCells ==
  ASSUME NEW a \in Seq(Cells), NEW b \in Seq(Cells)
  PROVE  /\ Take(a \o b, Len(a)) = a /\ Drop(a \o b, Len(a)) = b
         /\ a \o b \in Seq(Cells) /\ Len(a \o b) = Len(a) + Len(b) /\ Len(a) \in Nat /\ Len(b) \in Nat
BY Parted, Joined DEF Take, Drop

(* What the loop over a path's components returns, and its step.           *)
PartsResult == [ok : BOOLEAN, out : Seq(Seq(Cells))]

PartsBody(parts, depth, rest) ==
    IF depth = 0 THEN IF rest = <<>> THEN Parsed(<<>>) ELSE Malformed
    ELSE IF rest = <<>> \/ Len(rest) - 1 < rest[1] THEN Malformed
    ELSE LET part == Take(Tail(rest), rest[1])
             more == parts[depth - 1][Drop(Tail(rest), rest[1])]
         IN IF decode_watch_component(part) /\ more.ok
            THEN Parsed(<<part>> \o more.out) ELSE Malformed

(* A length cell and what it measures.                                     *)
LEMMA Measured ==
  ASSUME NEW rest \in Seq(Cells), rest # <<>>, ~(Len(rest) - 1 < rest[1])
  PROVE  /\ rest[1] \in Nat /\ Tail(rest) \in Seq(Cells) /\ rest[1] <= Len(Tail(rest))
         /\ Take(Tail(rest), rest[1]) \in Seq(Cells) /\ Len(Take(Tail(rest), rest[1])) = rest[1]
         /\ Drop(Tail(rest), rest[1]) \in Seq(Cells)
         /\ rest = <<rest[1]>> \o Tail(rest)
         /\ Tail(rest) = Take(Tail(rest), rest[1]) \o Drop(Tail(rest), rest[1])
<1>1. /\ rest[1] \in Cells /\ Tail(rest) \in Seq(Cells) /\ Len(Tail(rest)) = Len(rest) - 1
      /\ rest = <<rest[1]>> \o Tail(rest) /\ Len(rest) \in Nat
  BY HeadAndTail
<1>2. rest[1] \in Nat /\ rest[1] <= Len(Tail(rest))
  <2>1. rest[1] \in Nat
    BY <1>1, CellsAreNumbers
  <2>2. QED BY <1>1, <2>1
<1> DEFINE t == Tail(rest)  n == rest[1]
<1>3. t \in Seq(Cells) /\ n \in Nat /\ n <= Len(t)
  BY <1>1, <1>2
<1> HIDE DEF t, n
<1>4. /\ Take(t, n) \in Seq(Cells) /\ Drop(t, n) \in Seq(Cells) /\ t = Take(t, n) \o Drop(t, n)
      /\ Len(Take(t, n)) = n
  BY <1>3, CutCells
<1>5. QED BY <1>1, <1>2, <1>4 DEF t, n

(* The loop returns a path or EINVAL.                                      *)
LEMMA PartsBodyTyped ==
  ASSUME NEW parts \in [Nat -> [Seq(Cells) -> PartsResult]], NEW depth \in Nat, NEW rest \in Seq(Cells)
  PROVE  PartsBody(parts, depth, rest) \in PartsResult
<1>1. Malformed \in PartsResult /\ Parsed(<<>>) \in PartsResult
  BY DEF Malformed, Parsed, PartsResult
<1>2. CASE depth # 0 /\ rest # <<>> /\ ~(Len(rest) - 1 < rest[1])
  <2> DEFINE part == Take(Tail(rest), rest[1])
             left == Drop(Tail(rest), rest[1])
             more == parts[depth - 1][left]
  <2>1. part \in Seq(Cells) /\ left \in Seq(Cells)
    BY <1>2, Measured
  <2>2. more \in PartsResult
    <3>1. depth - 1 \in Nat
      BY <1>2
    <3>2. QED BY <2>1, <3>1
  <2>3. PartsBody(parts, depth, rest) =
            IF decode_watch_component(part) /\ more.ok THEN Parsed(<<part>> \o more.out) ELSE Malformed
    BY <1>2 DEF PartsBody
  <2> HIDE DEF part, left, more
  <2>4. Parsed(<<part>> \o more.out) \in PartsResult
    BY <2>1, <2>2, Headed DEF Parsed, PartsResult
  <2>5. QED BY <1>1, <2>3, <2>4
<1>3. CASE ~(depth # 0 /\ rest # <<>> /\ ~(Len(rest) - 1 < rest[1]))
  BY <1>1, <1>3 DEF PartsBody
<1>4. QED BY <1>2, <1>3

(* PathParts satisfies the equation it is defined by.                      *)
LEMMA PathPartsSteps ==
  /\ PathParts \in [Nat -> [Seq(Cells) -> PartsResult]]
  /\ \A depth \in Nat : \A rest \in Seq(Cells) :
        PathParts[depth][rest] = PartsBody(PathParts, depth, rest)
<1> DEFINE R == [Seq(Cells) -> PartsResult]
           step(g) == [depth \in Nat |-> [rest \in Seq(Cells) |-> PartsBody(g, depth, rest)]]
           all == [g \in [Nat -> R] |-> step(g)]
           size == [n \in Nat |-> n]
<1>1. size \in [Nat -> Nat] /\ R # {}
  <2>1. [b \in Seq(Cells) |-> Malformed] \in R
    BY DEF Malformed, PartsResult
  <2>2. QED BY <2>1
<1>2. \A g, h : \A depth \in Nat :
         (\A n \in Nat : size[n] < size[depth] => g[n] = h[n]) => step(g)[depth] = step(h)[depth]
  <2>1. ASSUME NEW g, NEW h, NEW depth \in Nat, \A n \in Nat : size[n] < size[depth] => g[n] = h[n]
        PROVE  \A rest \in Seq(Cells) : PartsBody(g, depth, rest) = PartsBody(h, depth, rest)
    <3>1. CASE depth = 0
      BY <3>1 DEF PartsBody
    <3>2. CASE depth # 0
      <4>1. depth - 1 \in Nat /\ depth - 1 < depth
        BY <3>2
      <4>2. g[depth - 1] = h[depth - 1]
        BY <2>1, <4>1
      <4>3. QED BY <4>2 DEF PartsBody
    <3>3. QED BY <3>1, <3>2
  <2>2. ASSUME NEW g, NEW h, NEW depth \in Nat, \A n \in Nat : size[n] < size[depth] => g[n] = h[n]
        PROVE  step(g)[depth] = step(h)[depth]
    <3>1. [rest \in Seq(Cells) |-> PartsBody(g, depth, rest)] = [rest \in Seq(Cells) |-> PartsBody(h, depth, rest)]
      BY <2>1, <2>2, ZenonT(40)
    <3>2. QED BY <3>1
  <2>3. QED BY <2>2
<1>3. all \in Recursions(Nat, R, size)
  <2>1. ASSUME NEW g \in [Nat -> R] PROVE step(g) \in [Nat -> R]
    BY PartsBodyTyped
  <2> HIDE DEF R, step, size
  <2>2. all \in [[Nat -> R] -> [Nat -> R]] /\ \A g \in [Nat -> R] : all[g] = step(g)
    BY <2>1
  <2> HIDE DEF all
  <2>3. \A g, h \in [Nat -> R] : \A n \in Nat :
           (\A m \in Nat : size[m] < size[n] => g[m] = h[m]) => all[g][n] = all[h][n]
    BY <1>2, <2>2
  <2>4. QED BY <2>2, <2>3 DEF Recursions
<1>4. PICK f \in [Nat -> R] : f = step(f)
  <2> HIDE DEF R, size, step
  <2>1. Solvable(all)
    <3> HIDE DEF all
    <3>1. QED BY <1>1, <1>3, RecursiveOnSize
  <2>2. QED BY <2>1 DEF Solvable
<1>5. PathParts = step(PathParts)
  <2>1. PathParts = CHOOSE g : g = step(g)
    BY DEF PathParts, PartsBody
  <2>2. QED BY <1>4, <2>1
<1>6. \A depth \in Nat : PathParts[depth] = f[depth]
  <2> DEFINE Same == {depth \in Nat : PathParts[depth] = f[depth]}
  <2>1. ASSUME NEW depth \in Nat, \A n \in Nat : size[n] < size[depth] => n \in Same
        PROVE  depth \in Same
    <3>1. step(PathParts)[depth] = step(f)[depth]
      <4> HIDE DEF step, size
      <4>1. QED BY <1>2, <2>1
    <3>2. QED BY <1>4, <1>5, <3>1
  <2>2. Same \in Inductive(Nat, size)
    BY <2>1 DEF Inductive
  <2> HIDE DEF Same, size
  <2>3. \A depth \in Nat : depth \in Same
    BY <1>1, <2>2, BySize
  <2>4. QED BY <2>3 DEF Same
<1>7. PathParts = f
  BY <1>4, <1>5, <1>6
<1>8. QED BY <1>4, <1>5, <1>7

(* Text is cells without a NUL.                                            *)
LEMMA TextIsCells ==
  /\ Text \subseteq Seq(Cells) /\ Seq(Cells) \subseteq Seq(Nat) /\ Seq(Text) \subseteq Seq(Seq(Cells))
  /\ \A b \in Seq(Cells) : decode_watch_component(b) <=> b \in Text
<1>1. Text \subseteq Seq(Cells)
  BY SeqMonotonic DEF Text
<1>2. Seq(Cells) \subseteq Seq(Nat) /\ Seq(Text) \subseteq Seq(Seq(Cells))
  BY <1>1, CellsAreNumbers, SeqMonotonic
<1>3. ASSUME NEW b \in Seq(Cells) PROVE decode_watch_component(b) <=> b \in Text
  <2>1. Len(b) \in Nat /\ DOMAIN b = 1 .. Len(b) /\ \A i \in 1 .. Len(b) : b[i] \in Cells
    BY LenProperties, ElementOfSeq
  <2>2. ASSUME b \in Text PROVE decode_watch_component(b)
    <3>1. \A i \in 1 .. Len(b) : b[i] \in Cells \ {NUL}
      BY <2>2, ElementOfSeq DEF Text
    <3>2. QED BY <2>1, <3>1 DEF decode_watch_component, ToSet
  <2>3. ASSUME decode_watch_component(b) PROVE b \in Text
    <3>1. \A i \in 1 .. Len(b) : b[i] \in Cells \ {NUL}
      BY <2>1, <2>3 DEF decode_watch_component, ToSet
    <3>2. b = [i \in 1 .. Len(b) |-> b[i]]
      BY LenProperties
    <3>3. QED BY <2>1, <3>1, <3>2 DEF Text
  <2>4. QED BY <2>2, <2>3
<1>4. QED BY <1>1, <1>2, <1>3

(* A path's bytes are its first component's and the others'.               *)
LEMMA PathBytesCons ==
  ASSUME NEW path \in Seq(Seq(Nat))
  PROVE  /\ PathBytes(path) \in Seq(Nat)
         /\ path = <<>> => PathBytes(path) = <<>>
         /\ path # <<>> => PathBytes(path) = <<Len(path[1])>> \o (path[1] \o PathBytes(Tail(path)))
<1> DEFINE code(p) == [i \in DOMAIN p |-> <<Len(p[i])>> \o p[i]]
<1>1. ASSUME NEW p \in Seq(Seq(Nat))
      PROVE  code(p) \in Seq(Seq(Nat)) /\ Len(code(p)) = Len(p)
  <2>1. Len(p) \in Nat /\ DOMAIN p = 1 .. Len(p) /\ \A i \in 1 .. Len(p) : p[i] \in Seq(Nat) /\ Len(p[i]) \in Nat
    BY LenProperties, ElementOfSeq
  <2>2. \A i \in 1 .. Len(p) : <<Len(p[i])>> \o p[i] \in Seq(Nat)
    BY <2>1, Headed
  <2>3. QED BY <2>1, <2>2
<1>2. PathBytes(path) \in Seq(Nat)
  <2> DEFINE s == code(path)
  <2>1. s \in Seq(Seq(Nat)) /\ PathBytes(path) = FlattenSeq(s)
    BY <1>1 DEF PathBytes
  <2> HIDE DEF s
  <2>2. QED BY <2>1, FlattenTyped
<1>3. ASSUME path = <<>> PROVE PathBytes(path) = <<>>
  <2>1. code(path) = <<>>
    BY <1>3
  <2>2. QED BY <2>1, FlattenEmpty DEF PathBytes
<1>4. ASSUME path # <<>> PROVE PathBytes(path) = <<Len(path[1])>> \o (path[1] \o PathBytes(Tail(path)))
  <2> DEFINE s == code(path)  t == code(Tail(path))  x == <<Len(path[1])>> \o path[1]
  <2>1. /\ path[1] \in Seq(Nat) /\ Tail(path) \in Seq(Seq(Nat)) /\ Len(Tail(path)) = Len(path) - 1
        /\ Len(path) \in Nat \ {0} /\ \A i \in 1 .. Len(Tail(path)) : Tail(path)[i] = path[i + 1]
    BY <1>4, HeadAndTail
  <2>2. s \in Seq(Seq(Nat)) /\ t \in Seq(Seq(Nat)) /\ Len(s) = Len(path) /\ Len(t) = Len(Tail(path))
    BY <1>1, <2>1
  <2>3. <<Len(path[1])>> \in Seq(Nat)
    BY <2>1, LenProperties
  <2>4. x \in Seq(Nat)
    BY <2>1, <2>3, ConcatProperties
  <2>5. Len(s) = Len(t) + 1 /\ s[1] = x /\ \A i \in 1 .. Len(t) : s[i + 1] = t[i]
    <3>1. DOMAIN path = 1 .. Len(path) /\ DOMAIN Tail(path) = 1 .. Len(Tail(path))
      BY <2>1, LenProperties
    <3>2. s[1] = x
      BY <2>1, <3>1
    <3>3. ASSUME NEW i \in 1 .. Len(t) PROVE s[i + 1] = t[i]
      <4>1. i + 1 \in DOMAIN path /\ i \in DOMAIN Tail(path) /\ Tail(path)[i] = path[i + 1]
        BY <2>1, <2>2, <3>1
      <4>2. QED BY <4>1
    <3>4. Len(s) = Len(t) + 1
      BY <2>1, <2>2
    <3> HIDE DEF s, t, x
    <3>5. QED BY <3>2, <3>3, <3>4
  <2>6. PathBytes(path) = FlattenSeq(s) /\ PathBytes(Tail(path)) = FlattenSeq(t)
    BY DEF PathBytes
  <2> HIDE DEF s, t
  <2>7. s = <<x>> \o t /\ FlattenSeq(t) \in Seq(Nat)
    <3> HIDE DEF x
    <3>1. QED BY <2>2, <2>4, <2>5, Shifted, FlattenTyped, ZenonT(40)
  <2>8. FlattenSeq(s) = x \o FlattenSeq(t)
    <3> HIDE DEF x
    <3>1. QED BY <2>2, <2>4, <2>7, FlattenCons
  <2> DEFINE u == FlattenSeq(t)
  <2> HIDE DEF u
  <2>9. (<<Len(path[1])>> \o path[1]) \o u = <<Len(path[1])>> \o (path[1] \o u)
    <3>1. u \in Seq(Nat)
      BY <2>7 DEF u
    <3> DEFINE v == <<Len(path[1])>>  w == path[1]
    <3>2. v \in Seq(Nat) /\ w \in Seq(Nat)
      BY <2>1, <2>3
    <3> HIDE DEF v, w
    <3>3. (v \o w) \o u = v \o (w \o u)
      BY <3>1, <3>2, ConcatAssociative, SMTT(30)
    <3>4. QED BY <3>3 DEF v, w
  <2>10. QED BY <2>6, <2>8, <2>9 DEF u
<1>5. QED BY <1>2, <1>3, <1>4

(* The components of a path are read back as they were written.            *)
LEMMA PathReadsBack ==
  ASSUME NEW path \in Seq(Text), PathBytes(path) \in Seq(Cells)
  PROVE  PathParts[Len(path)][PathBytes(path)] = Parsed(path)
<1> DEFINE D == Seq(Text)
           size == [p \in D |-> Len(p)]
           Good == {p \in D : PathBytes(p) \in Seq(Cells) => PathParts[Len(p)][PathBytes(p)] = Parsed(p)}
<1>1. ASSUME NEW p \in D, \A q \in D : size[q] < size[p] => q \in Good, PathBytes(p) \in Seq(Cells)
      PROVE  PathParts[Len(p)][PathBytes(p)] = Parsed(p)
  <2>1. Len(p) \in Nat /\ p \in Seq(Seq(Nat))
    BY LenProperties, SeqMonotonic, TextIsCells
  <2>2. PathParts[Len(p)][PathBytes(p)] = PartsBody(PathParts, Len(p), PathBytes(p))
    BY <1>1, <2>1, PathPartsSteps
  <2>3. CASE p = <<>>
    <3>1. PathBytes(p) = <<>> /\ Len(p) = 0
      BY <2>1, <2>3, PathBytesCons
    <3>2. QED BY <2>2, <2>3, <3>1 DEF PartsBody
  <2>4. CASE p # <<>>
    <3> DEFINE x == p[1]  q == Tail(p)  n == Len(x)  left == PathBytes(q)  rest == PathBytes(p)
    <3>1. x \in Text /\ q \in D /\ Len(q) = Len(p) - 1 /\ p = <<x>> \o q /\ Len(p) \in Nat \ {0}
      BY <2>4, HeadAndTail
    <3>2. x \in Seq(Cells) /\ x \in Seq(Nat) /\ n \in Nat /\ q \in Seq(Seq(Nat)) /\ decode_watch_component(x)
      <4> HIDE DEF x, q
      <4>1. x \in Seq(Cells) /\ x \in Seq(Nat) /\ decode_watch_component(x)
        BY <3>1, TextIsCells
      <4>2. q \in Seq(Seq(Nat))
        BY <3>1, SeqMonotonic, TextIsCells
      <4>3. QED BY <4>1, <4>2, LenProperties
    <3>3. rest = <<n>> \o (x \o left) /\ left \in Seq(Nat)
      BY <2>1, <2>4, <3>2, PathBytesCons
    <3> HIDE DEF x, q, n, left, rest
    <3>4. <<n>> \in Seq(Nat) /\ x \o left \in Seq(Nat)
      BY <3>2, <3>3, ConcatProperties
    <3>5. x \o left \in Seq(Cells) /\ <<n>> \in Seq(Cells)
      BY <1>1, <3>3, <3>4, BothTyped DEF rest
    <3>6. left \in Seq(Cells)
      BY <3>2, <3>3, <3>5, BothTyped
    <3>7. n \in Cells
      BY <3>5
    <3>8. rest # <<>> /\ rest[1] = n /\ Tail(rest) = x \o left /\ Len(rest) = Len(x \o left) + 1
      BY <3>3, <3>5, <3>7, Headed
    <3>9. /\ Take(x \o left, n) = x /\ Drop(x \o left, n) = left
          /\ Len(x \o left) = n + Len(left) /\ Len(left) \in Nat
      BY <3>2, <3>6, PartCells DEF n
    <3>10. PathParts[Len(q)][left] = Parsed(q)
      <4>1. q \in Good
        BY <1>1, <3>1
      <4>2. QED BY <3>6, <4>1 DEF left
    <3>11. PartsBody(PathParts, Len(p), rest) = Parsed(<<x>> \o q)
      <4>1. Len(p) # 0 /\ ~(rest = <<>> \/ Len(rest) - 1 < rest[1])
        BY <3>1, <3>2, <3>8, <3>9
      <4>2. PathParts[Len(p) - 1][left] = Parsed(q)
        BY <3>1, <3>10
      <4>3. /\ PathParts[Len(p) - 1][Drop(Tail(rest), rest[1])] = Parsed(q)
            /\ Take(Tail(rest), rest[1]) = x
        BY <3>8, <3>9, <4>2
      <4> DEFINE more == PathParts[Len(p) - 1][Drop(Tail(rest), rest[1])]
      <4>4. PartsBody(PathParts, Len(p), rest) =
               IF decode_watch_component(Take(Tail(rest), rest[1])) /\ more.ok
               THEN Parsed(<<Take(Tail(rest), rest[1])>> \o more.out) ELSE Malformed
        BY <4>1 DEF PartsBody
      <4>5. more.ok /\ more.out = q
        BY <4>3 DEF Parsed
      <4>6. QED BY <3>2, <4>3, <4>4, <4>5
    <3>12. QED BY <2>2, <3>1, <3>11 DEF rest
  <2>5. QED BY <2>3, <2>4
<1>2. size \in [D -> Nat]
  BY LenProperties
<1>3. Good \in Inductive(D, size)
  BY <1>1 DEF Inductive
<1>4. path \in Good
  <2> HIDE DEF Good, size
  <2>1. QED BY <1>2, <1>3, BySize
<1>5. QED BY <1>4

(* What is read as a path is those bytes, no more and no less.             *)
LEMMA PathIsExact ==
  ASSUME NEW depth \in Nat, NEW rest \in Seq(Cells), PathParts[depth][rest].ok
  PROVE  LET path == PathParts[depth][rest].out IN
         path \in Seq(Text) /\ Len(path) = depth /\ PathBytes(path) = rest
<1> DEFINE Exact(d, b) ==
              LET path == PathParts[d][b].out IN
              PathParts[d][b].ok => path \in Seq(Text) /\ Len(path) = d /\ PathBytes(path) = b
           size == [n \in Nat |-> n]
           Good == {d \in Nat : \A b \in Seq(Cells) : Exact(d, b)}
<1>1. ASSUME NEW d \in Nat, \A n \in Nat : size[n] < size[d] => n \in Good, NEW b \in Seq(Cells),
             PathParts[d][b].ok
      PROVE  LET path == PathParts[d][b].out IN
             path \in Seq(Text) /\ Len(path) = d /\ PathBytes(path) = b
  <2>1. PathParts[d][b] = PartsBody(PathParts, d, b)
    BY PathPartsSteps
  <2>2. CASE d = 0
    <3>1. b = <<>> /\ PathParts[d][b].out = <<>>
      BY <1>1, <2>1, <2>2 DEF PartsBody, Parsed, Malformed
    <3>2. PathBytes(<<>>) = <<>> /\ <<>> \in Seq(Text)
      BY PathBytesCons, EmptySeq
    <3>3. QED BY <2>2, <3>1, <3>2
  <2>3. CASE d # 0
    <3> DEFINE x == Take(Tail(b), b[1])  left == Drop(Tail(b), b[1])  q == PathParts[d - 1][left].out
               p == <<x>> \o q
    <3>1. ~(b = <<>> \/ Len(b) - 1 < b[1])
      BY <1>1, <2>1, <2>3 DEF PartsBody, Malformed
    <3>2. PathParts[d][b] = IF decode_watch_component(x) /\ PathParts[d - 1][left].ok
                            THEN Parsed(<<x>> \o q) ELSE Malformed
      BY <2>1, <2>3, <3>1 DEF PartsBody
    <3>3. decode_watch_component(x) /\ PathParts[d - 1][left].ok /\ PathParts[d][b].out = p
      <4>1. decode_watch_component(x) /\ PathParts[d - 1][left].ok
        <5>1. ~Malformed.ok
          BY DEF Malformed
        <5>2. QED BY <1>1, <3>2, <5>1
      <4>2. Parsed(p).out = p
        BY DEF Parsed
      <4>3. QED BY <3>2, <4>1, <4>2
    <3>4. /\ b[1] \in Nat /\ Tail(b) \in Seq(Cells) /\ x \in Seq(Cells) /\ Len(x) = b[1]
          /\ left \in Seq(Cells) /\ b = <<b[1]>> \o Tail(b) /\ Tail(b) = x \o left
      BY <3>1, Measured
    <3>5. d - 1 \in Nat /\ d - 1 < d
      BY <2>3
    <3> HIDE DEF x, left
    <3>6. q \in Seq(Text) /\ Len(q) = d - 1 /\ PathBytes(q) = left
      <4>1. d - 1 \in Good
        BY <1>1, <3>5
      <4>2. QED BY <3>3, <3>4, <4>1
    <3>7. x \in Text
      BY <3>3, <3>4, TextIsCells
    <3> HIDE DEF q
    <3>8. p \in Seq(Text) /\ Len(p) = d /\ p # <<>> /\ p[1] = x /\ Tail(p) = q
      BY <3>5, <3>6, <3>7, Headed
    <3> HIDE DEF p
    <3>9. p \in Seq(Seq(Nat))
      BY <3>8, SeqMonotonic, TextIsCells
    <3>10. PathBytes(p) = <<b[1]>> \o (x \o left)
      BY <3>4, <3>6, <3>8, <3>9, PathBytesCons
    <3>11. PathBytes(p) = b
      BY <3>4, <3>10
    <3>12. QED BY <3>3, <3>8, <3>11
  <2>4. QED BY <2>2, <2>3
<1>2. size \in [Nat -> Nat]
  OBVIOUS
<1>3. Good \in Inductive(Nat, size)
  BY <1>1 DEF Inductive
<1>4. depth \in Good
  <2> HIDE DEF Good, size
  <2>1. QED BY <1>2, <1>3, BySize
<1>5. QED BY <1>4


-----------------------------------------------------------------------------
(* Watch records, and parse_watch_events over a buffer of them.            *)
(* The events the kernel can write, and what a reader is given of one.     *)
Writable == [kind : Cells, name : Text, path : Seq(Text), ext : BOOLEAN]
Received(e) == [kind |-> e.kind, name |-> e.name, path |-> Path(e)]

(* A sequence of at least three elements starts with its first three.      *)
LEMMA FirstThree ==
  ASSUME NEW b \in Seq(Cells), Len(b) >= 3
  PROVE  /\ b[1] \in Cells /\ b[2] \in Cells /\ b[3] \in Cells
         /\ b = <<b[1], b[2], b[3]>> \o Drop(b, 3) /\ Drop(b, 3) \in Seq(Cells)
         /\ Len(Drop(b, 3)) = Len(b) - 3
<1>1. Len(b) \in Nat /\ 3 \in Nat /\ 3 <= Len(b)
  BY LenProperties
<1>2. /\ Take(b, 3) \in Seq(Cells) /\ Len(Take(b, 3)) = 3 /\ \A i \in 1 .. 3 : Take(b, 3)[i] = b[i]
      /\ b = Take(b, 3) \o Drop(b, 3) /\ Drop(b, 3) \in Seq(Cells) /\ Len(Drop(b, 3)) = Len(b) - 3
  BY <1>1, CutCells
<1>3. b[1] \in Cells /\ b[2] \in Cells /\ b[3] \in Cells
  BY <1>1, ElementOfSeq
<1> DEFINE f == Take(b, 3)  h == <<b[1], b[2], b[3]>>
<1>4. h \in Seq(Cells) /\ Len(h) = 3 /\ h[1] = b[1] /\ h[2] = b[2] /\ h[3] = b[3]
  BY <1>3
<1>5. f \in Seq(Cells) /\ Len(f) = 3 /\ \A i \in 1 .. 3 : f[i] = b[i]
  BY <1>2
<1>6. f = h
  <2> HIDE DEF f, h
  <2>1. \A i \in 1 .. 3 : f[i] = h[i]
    BY <1>4, <1>5
  <2>2. QED BY <1>4, <1>5, <2>1, SeqEqual
<1>7. QED BY <1>2, <1>3, <1>6

(* What follows the name of an event: nothing, or the path's bytes behind  *)
(* their number.                                                           *)
LEMMA ExtensionIsNumbers ==
  ASSUME NEW e \in Writable
  PROVE  /\ Extension(e) \in Seq(Nat)
         /\ Extension(e) \in Seq(Cells) => parse_watch_path(Extension(e)) = Parsed(Path(e))
<1>1. e.path \in Seq(Text) /\ e.ext \in BOOLEAN /\ Len(e.path) \in Nat
  BY LenProperties DEF Writable
<1>2. e.path \in Seq(Seq(Nat))
  BY <1>1, SeqMonotonic, TextIsCells
<1>3. CASE e.ext
  <2> DEFINE n == Len(e.path)  code == PathBytes(e.path)
  <2>1. Extension(e) = <<n>> \o code
    BY <1>3 DEF Extension
  <2>2. n \in Nat /\ code \in Seq(Nat) /\ <<n>> \in Seq(Nat)
    <3>1. code \in Seq(Nat)
      BY <1>2, PathBytesCons
    <3>2. QED BY <1>1, <3>1
  <2>3. Extension(e) \in Seq(Nat) /\ Extension(e) # <<>> /\ Extension(e)[1] = n /\ Tail(Extension(e)) = code
    <3> HIDE DEF n, code
    <3>1. QED BY <2>1, <2>2, Headed
  <2>4. ASSUME Extension(e) \in Seq(Cells) PROVE parse_watch_path(Extension(e)) = Parsed(Path(e))
    <3>1. code \in Seq(Cells)
      <4> HIDE DEF n, code
      <4>1. QED BY <2>1, <2>2, <2>4, BothTyped
    <3>2. PathParts[n][code] = Parsed(e.path)
      BY <1>1, <3>1, PathReadsBack
    <3>3. QED BY <1>3, <2>3, <3>2 DEF parse_watch_path, Path
  <2>5. QED BY <2>3, <2>4
<1>4. CASE ~e.ext
  <2>1. Extension(e) = <<>> /\ Path(e) = <<>>
    BY <1>4 DEF Extension, Path
  <2>2. QED BY <2>1, EmptySeq DEF parse_watch_path
<1>5. QED BY <1>1, <1>3, <1>4

(* The parts of an event's record.                                         *)
LEMMA WatchRecordParts ==
  ASSUME NEW e \in Writable
  PROVE  LET tail == e.name \o Extension(e)
             head == <<3 + Len(tail), e.kind, Len(e.name)>>
         IN /\ tail \in Seq(Nat) /\ head \in Seq(Nat) /\ Len(head) = 3 /\ e.name \in Seq(Nat)
            /\ WatchRecord(e) = head \o tail /\ WatchRecord(e) \in Seq(Nat)
            /\ Len(WatchRecord(e)) = 3 + Len(tail) /\ Len(tail) \in Nat
            /\ WatchRecord(e)[1] = 3 + Len(tail) /\ WatchRecord(e)[2] = e.kind
            /\ WatchRecord(e)[3] = Len(e.name)
<1> DEFINE tail == e.name \o Extension(e)
           head == <<3 + Len(tail), e.kind, Len(e.name)>>
<1>1. e.name \in Text /\ e.kind \in Cells
  BY DEF Writable
<1>2. e.name \in Seq(Nat) /\ e.kind \in Nat /\ Len(e.name) \in Nat
  BY <1>1, TextIsCells, CellsAreNumbers, LenProperties
<1>3. tail \in Seq(Nat) /\ Len(tail) \in Nat
  BY <1>2, ExtensionIsNumbers, Joined
<1>4. WatchRecord(e) = head \o tail
  BY DEF WatchRecord
<1> HIDE DEF tail
<1>5. head \in Seq(Nat) /\ Len(head) = 3 /\ head[1] = 3 + Len(tail) /\ head[2] = e.kind /\ head[3] = Len(e.name)
  BY <1>2, <1>3
<1> HIDE DEF head
<1>6. /\ head \o tail \in Seq(Nat) /\ Len(head \o tail) = 3 + Len(tail)
      /\ \A i \in 1 .. 3 : (head \o tail)[i] = head[i]
  <2>1. /\ head \o tail \in Seq(Nat) /\ Len(head \o tail) = Len(head) + Len(tail)
        /\ \A i \in 1 .. Len(head) : (head \o tail)[i] = head[i]
    <3>1. head \in Seq(Nat) /\ tail \in Seq(Nat)
      BY <1>3, <1>5
    <3>2. QED BY <3>1, Joined
  <2>2. QED BY <1>5, <2>1
<1>7. QED BY <1>2, <1>3, <1>4, <1>5, <1>6 DEF head, tail

(* An event's record, whatever is behind it, is read as that event.        *)
LEMMA WatchRecordReadsBack ==
  ASSUME NEW e \in Writable, WatchRecord(e) \in Seq(Cells), NEW t \in Seq(Cells),
         NEW b, b = WatchRecord(e) \o t
  PROVE  /\ b \in Seq(Cells) /\ Len(b) \in Nat /\ Len(b) >= 3 /\ b # <<>>
         /\ b[1] \in Nat /\ b[1] >= 3 /\ b[1] <= Len(b)
         /\ Drop(b, b[1]) = t /\ WatchEvent(b) = Parsed(Received(e))
<1> DEFINE rec == WatchRecord(e)
           tail == e.name \o Extension(e)
           head == <<3 + Len(tail), e.kind, Len(e.name)>>
<1>1. /\ tail \in Seq(Nat) /\ head \in Seq(Nat) /\ Len(head) = 3 /\ e.name \in Seq(Nat)
      /\ rec = head \o tail /\ Len(rec) = 3 + Len(tail) /\ Len(tail) \in Nat
      /\ rec[1] = 3 + Len(tail) /\ rec[2] = e.kind /\ rec[3] = Len(e.name)
  BY WatchRecordParts
<1>2. e.name \in Text /\ e.name \in Seq(Cells) /\ Extension(e) \in Seq(Nat)
  BY ExtensionIsNumbers, TextIsCells DEF Writable
<1> HIDE DEF rec, head, tail
<1>3. rec \in Seq(Cells) /\ b = rec \o t
  BY DEF rec
<1>4. head \in Seq(Cells) /\ tail \in Seq(Cells)
  BY <1>1, <1>3, BothTyped
<1>5. Extension(e) \in Seq(Cells)
  BY <1>1, <1>2, <1>4, BothTyped DEF tail
<1>6. /\ b \in Seq(Cells) /\ Len(b) = Len(rec) + Len(t) /\ Len(t) \in Nat
      /\ Take(b, Len(rec)) = rec /\ Drop(b, Len(rec)) = t
      /\ \A i \in 1 .. Len(rec) : b[i] = rec[i]
  BY <1>3, PartCells, Joined
<1>7. b[1] = Len(rec) /\ b[2] = e.kind /\ b[3] = Len(e.name)
  BY <1>1, <1>6
<1>8. Drop(rec, 3) = tail
  BY <1>1, <1>4, PartCells
<1>9. /\ Take(tail, Len(e.name)) = e.name /\ Drop(tail, Len(e.name)) = Extension(e)
      /\ Len(e.name) <= Len(tail)
  <2>1. Len(tail) = Len(e.name) + Len(Extension(e)) /\ Len(Extension(e)) \in Nat /\ Len(e.name) \in Nat
    BY <1>2, <1>5, PartCells DEF tail
  <2>2. QED BY <1>2, <1>5, <2>1, PartCells DEF tail
<1>10. parse_watch_path(Extension(e)) = Parsed(Path(e))
  BY <1>5, ExtensionIsNumbers
<1>11. decode_watch_component(e.name)
  BY <1>2, TextIsCells
<1>12. WatchEvent(b) = Parsed(Received(e))
  <2>1. Drop(Take(b, b[1]), 3) = tail
    BY <1>6, <1>7, <1>8
  <2>2. /\ Take(Drop(Take(b, b[1]), 3), b[3]) = e.name
        /\ parse_watch_path(Drop(Drop(Take(b, b[1]), 3), b[3])) = Parsed(Path(e))
        /\ b[3] <= Len(Drop(Take(b, b[1]), 3))
    BY <1>7, <1>9, <1>10, <2>1
  <2>3. Parsed(Path(e)).ok /\ Parsed(Path(e)).out = Path(e)
    BY DEF Parsed
  <2>4. QED BY <1>7, <1>11, <2>2, <2>3 DEF WatchEvent, Received
<1>13. Len(rec) \in Nat /\ Len(rec) >= 3 /\ Len(rec) <= Len(b) /\ Len(b) \in Nat
  BY <1>1, <1>6
<1>14. b # <<>>
  BY <1>13
<1>15. QED BY <1>6, <1>7, <1>12, <1>13, <1>14

(* What is read as an event is its record.                                 *)
LEMMA WatchEventIsExact ==
  ASSUME NEW b \in Seq(Cells), Len(b) >= 3, b[1] >= 3, b[1] <= Len(b), WatchEvent(b).ok
  PROVE  LET out == WatchEvent(b).out IN
         /\ out \in [kind : Cells, name : Text, path : Seq(Text)]
         /\ \E ext \in BOOLEAN : Take(b, b[1]) = WatchRecord(
               [kind |-> out.kind, name |-> out.name, path |-> out.path, ext |-> ext])
<1> DEFINE r == Take(b, b[1])
           body == Drop(r, 3)
           name == Take(body, b[3])
           left == Drop(body, b[3])
           path == parse_watch_path(left)
           out == WatchEvent(b).out
<1>1. b[1] \in Nat /\ b[2] \in Cells /\ b[3] \in Nat /\ b[1] \in Cells /\ b[3] \in Cells /\ Len(b) \in Nat
  BY FirstThree, CellsAreNumbers, LenProperties
<1>2. r \in Seq(Cells) /\ Len(r) = b[1] /\ \A i \in 1 .. b[1] : r[i] = b[i]
  BY <1>1, CutCells
<1>3. WatchEvent(b) = IF b[3] <= Len(body) /\ decode_watch_component(name) /\ path.ok
                      THEN Parsed([kind |-> b[2], name |-> name, path |-> path.out]) ELSE Malformed
  BY DEF WatchEvent
<1>4. /\ b[3] <= Len(body) /\ decode_watch_component(name) /\ path.ok
      /\ out = [kind |-> b[2], name |-> name, path |-> path.out]
  BY <1>3 DEF Parsed, Malformed
<1> HIDE DEF r
<1>5. r = <<b[1], b[2], b[3]>> \o body /\ body \in Seq(Cells) /\ Len(body) = b[1] - 3
  <2>1. Len(r) >= 3 /\ r[1] = b[1] /\ r[2] = b[2] /\ r[3] = b[3]
    BY <1>1, <1>2
  <2>2. QED BY <1>2, <2>1, FirstThree
<1> HIDE DEF body
<1>6. /\ name \in Seq(Cells) /\ Len(name) = b[3] /\ left \in Seq(Cells) /\ body = name \o left
  <2> DEFINE n == b[3]
  <2>1. n \in Nat /\ n <= Len(body)
    BY <1>1, <1>4
  <2> HIDE DEF n
  <2>2. /\ Take(body, n) \in Seq(Cells) /\ Len(Take(body, n)) = n /\ Drop(body, n) \in Seq(Cells)
        /\ body = Take(body, n) \o Drop(body, n)
    BY <1>5, <2>1, CutCells
  <2>3. QED BY <2>2 DEF n
<1> HIDE DEF name, left
<1>7. name \in Text
  BY <1>4, <1>6, TextIsCells
<1>8. PICK ext \in BOOLEAN :
         /\ path.out \in Seq(Text)
         /\ left = IF ext THEN <<Len(path.out)>> \o PathBytes(path.out) ELSE <<>>
  <2>1. CASE left = <<>>
    <3>1. path.out = <<>> /\ <<>> \in Seq(Text)
      BY <2>1, EmptySeq DEF parse_watch_path, Parsed
    <3>2. WITNESS FALSE \in BOOLEAN
    <3>3. QED BY <2>1, <3>1
  <2>2. CASE left # <<>>
    <3>1. left[1] \in Cells /\ Tail(left) \in Seq(Cells) /\ left = <<left[1]>> \o Tail(left)
      BY <1>6, <2>2, HeadAndTail
    <3>2. path = PathParts[left[1]][Tail(left)]
      BY <2>2 DEF parse_watch_path
    <3>3. left[1] \in Nat
      BY <3>1, CellsAreNumbers
    <3>4. path.out \in Seq(Text) /\ Len(path.out) = left[1] /\ PathBytes(path.out) = Tail(left)
      <4> HIDE DEF path
      <4>1. PathParts[left[1]][Tail(left)].ok
        BY <1>4, <3>2
      <4>2. QED BY <3>1, <3>2, <3>3, <4>1, PathIsExact
    <3>5. WITNESS TRUE \in BOOLEAN
    <3>6. QED BY <3>1, <3>4
  <2>3. QED BY <2>1, <2>2
<1> HIDE DEF path, out
<1> DEFINE e == [kind |-> out.kind, name |-> out.name, path |-> out.path, ext |-> ext]
<1>9. out \in [kind : Cells, name : Text, path : Seq(Text)]
  BY <1>1, <1>4, <1>7, <1>8
<1>10. e.kind = b[2] /\ e.name = name /\ e.path = path.out /\ e.ext = ext
  BY <1>4
<1> HIDE DEF e
<1>11. Extension(e) = left
  BY <1>8, <1>10 DEF Extension
<1>12. WatchRecord(e) = <<3 + Len(body), b[2], b[3]>> \o body
  BY <1>6, <1>10, <1>11 DEF WatchRecord
<1>13. 3 + Len(body) = b[1]
  BY <1>1, <1>5
<1>14. r = WatchRecord(e)
  BY <1>5, <1>12, <1>13
<1>15. QED BY <1>9, <1>14 DEF e, out, r

(* What parse_watch_events returns: the events that are read, or EINVAL.   *)
Readable == [kind : Cells, name : Text, path : Seq(Text)]
EventsResult == [ok : BOOLEAN, out : Seq(Readable)]

(* The parser's step: one record, and what it makes of the rest.           *)
EventsBody(events, rest) ==
    IF rest = <<>> THEN Parsed(<<>>)
    ELSE IF Len(rest) < 3 \/ rest[1] < 3 \/ rest[1] > Len(rest) THEN Malformed
    ELSE LET first == WatchEvent(rest)
             more == events[Drop(rest, rest[1])]
         IN IF first.ok /\ more.ok THEN Parsed(<<first.out>> \o more.out) ELSE Malformed

(* A record that is long enough, and what is behind it.                    *)
LEMMA RecordTaken ==
  ASSUME NEW rest \in Seq(Cells), rest # <<>>, ~(Len(rest) < 3 \/ rest[1] < 3 \/ rest[1] > Len(rest))
  PROVE  /\ Len(rest) \in Nat /\ rest[1] \in Nat /\ Len(rest) >= 3 /\ rest[1] >= 3 /\ rest[1] <= Len(rest)
         /\ Drop(rest, rest[1]) \in Seq(Cells) /\ Len(Drop(rest, rest[1])) < Len(rest)
         /\ rest = Take(rest, rest[1]) \o Drop(rest, rest[1]) /\ Take(rest, rest[1]) \in Seq(Cells)
<1>1. rest[1] \in Cells /\ Len(rest) \in Nat
  BY HeadAndTail
<1>2. rest[1] \in Nat
  BY <1>1, CellsAreNumbers
<1>3. Len(rest) >= 3 /\ rest[1] >= 3 /\ rest[1] <= Len(rest)
  BY <1>1, <1>2
<1> DEFINE n == rest[1]
<1>4. n \in Nat /\ n <= Len(rest)
  BY <1>2, <1>3
<1> HIDE DEF n
<1>5. /\ Drop(rest, n) \in Seq(Cells) /\ Len(Drop(rest, n)) = Len(rest) - n
      /\ rest = Take(rest, n) \o Drop(rest, n) /\ Take(rest, n) \in Seq(Cells)
  BY <1>4, CutCells
<1>6. QED BY <1>1, <1>2, <1>3, <1>5 DEF n

(* The parser returns events or EINVAL.                                    *)
LEMMA EventsBodyTyped ==
  ASSUME NEW events \in [Seq(Cells) -> EventsResult], NEW rest \in Seq(Cells)
  PROVE  EventsBody(events, rest) \in EventsResult
<1>1. Malformed \in EventsResult /\ Parsed(<<>>) \in EventsResult
  BY DEF Malformed, Parsed, EventsResult
<1>2. CASE rest # <<>> /\ ~(Len(rest) < 3 \/ rest[1] < 3 \/ rest[1] > Len(rest)) /\ WatchEvent(rest).ok
  <2> DEFINE left == Drop(rest, rest[1])
             more == events[left]
             out == WatchEvent(rest).out
  <2>1. left \in Seq(Cells) /\ Len(rest) >= 3 /\ rest[1] >= 3 /\ rest[1] <= Len(rest)
    BY <1>2, RecordTaken
  <2>2. more \in EventsResult /\ out \in Readable
    BY <1>2, <2>1, WatchEventIsExact DEF Readable
  <2>3. EventsBody(events, rest) = IF more.ok THEN Parsed(<<out>> \o more.out) ELSE Malformed
    BY <1>2 DEF EventsBody
  <2> HIDE DEF left, more, out
  <2>4. Parsed(<<out>> \o more.out) \in EventsResult
    BY <2>2, Headed DEF Parsed, EventsResult
  <2>5. QED BY <1>1, <2>3, <2>4
<1>3. CASE ~(rest # <<>> /\ ~(Len(rest) < 3 \/ rest[1] < 3 \/ rest[1] > Len(rest)) /\ WatchEvent(rest).ok)
  BY <1>1, <1>3 DEF EventsBody
<1>4. QED BY <1>2, <1>3

(* parse_watch_events satisfies the equation it is defined by.             *)
LEMMA WatchEventsSteps ==
  /\ parse_watch_events \in [Seq(Cells) -> EventsResult]
  /\ \A rest \in Seq(Cells) : parse_watch_events[rest] = EventsBody(parse_watch_events, rest)
<1> DEFINE D == Seq(Cells)
           R == EventsResult
           step(g) == [rest \in D |-> EventsBody(g, rest)]
           all == [g \in [D -> R] |-> step(g)]
           size == [b \in D |-> Len(b)]
<1>1. size \in [D -> Nat] /\ R # {}
  <2>1. Malformed \in R
    BY DEF Malformed, EventsResult
  <2>2. QED BY <2>1, LenProperties
<1>2. \A g, h : \A b \in D : (\A a \in D : size[a] < size[b] => g[a] = h[a]) => step(g)[b] = step(h)[b]
  <2>1. ASSUME NEW g, NEW h, NEW b \in D, \A a \in D : size[a] < size[b] => g[a] = h[a]
        PROVE  EventsBody(g, b) = EventsBody(h, b)
    <3>1. CASE b # <<>> /\ ~(Len(b) < 3 \/ b[1] < 3 \/ b[1] > Len(b))
      <4>1. Drop(b, b[1]) \in D /\ Len(Drop(b, b[1])) < Len(b)
        BY <3>1, RecordTaken
      <4>2. g[Drop(b, b[1])] = h[Drop(b, b[1])]
        BY <2>1, <4>1
      <4>3. QED BY <4>2 DEF EventsBody
    <3>2. CASE ~(b # <<>> /\ ~(Len(b) < 3 \/ b[1] < 3 \/ b[1] > Len(b)))
      BY <3>2 DEF EventsBody
    <3>3. QED BY <3>1, <3>2
  <2>2. QED BY <2>1
<1>3. all \in Recursions(D, R, size)
  <2>1. ASSUME NEW g \in [D -> R] PROVE step(g) \in [D -> R]
    BY EventsBodyTyped
  <2> HIDE DEF R, D, step, size
  <2>2. all \in [[D -> R] -> [D -> R]] /\ \A g \in [D -> R] : all[g] = step(g)
    BY <2>1
  <2> HIDE DEF all
  <2>3. \A g, h \in [D -> R] : \A n \in D :
           (\A m \in D : size[m] < size[n] => g[m] = h[m]) => all[g][n] = all[h][n]
    BY <1>2, <2>2
  <2>4. QED BY <2>2, <2>3 DEF Recursions
<1>4. PICK f \in [D -> R] : f = step(f)
  <2> HIDE DEF R, D, size, step
  <2>1. Solvable(all)
    <3> HIDE DEF all
    <3>1. QED BY <1>1, <1>3, RecursiveOnSize
  <2>2. QED BY <2>1 DEF Solvable
<1>5. parse_watch_events = step(parse_watch_events)
  <2>1. parse_watch_events = CHOOSE g : g = step(g)
    BY DEF parse_watch_events, EventsBody
  <2>2. QED BY <1>4, <2>1
<1>6. \A b \in D : parse_watch_events[b] = f[b]
  <2> DEFINE Same == {b \in D : parse_watch_events[b] = f[b]}
  <2>1. ASSUME NEW b \in D, \A a \in D : size[a] < size[b] => a \in Same
        PROVE  b \in Same
    <3>1. step(parse_watch_events)[b] = step(f)[b]
      <4> HIDE DEF step, size
      <4>1. QED BY <1>2, <2>1
    <3>2. QED BY <1>4, <1>5, <3>1
  <2>2. Same \in Inductive(D, size)
    BY <2>1 DEF Inductive
  <2> HIDE DEF Same, size, D
  <2>3. \A b \in D : b \in Same
    BY <1>1, <2>2, BySize
  <2>4. QED BY <2>3 DEF Same
<1>7. parse_watch_events = f
  <2> HIDE DEF step
  <2>1. parse_watch_events = [b \in D |-> parse_watch_events[b]]
    BY <1>5 DEF step
  <2>2. f = [b \in D |-> f[b]]
    BY <1>4
  <2>3. QED BY <1>6, <2>1, <2>2
<1>8. QED BY <1>4, <1>5, <1>7

(* The records of events, and what a reader is given of them.              *)
EventRecords(list) == [i \in DOMAIN list |-> WatchRecord(list[i])]
ReceivedAll(list) == [i \in DOMAIN list |-> Received(list[i])]

(* The events whose records are over the cells.                            *)
Sendable == {e \in Writable : WatchRecord(e) \in Seq(Cells)}

(* The records of sendable events are over the cells, and what a reader is *)
(* given of them is readable.                                              *)
LEMMA RecordsTyped ==
  ASSUME NEW list \in Seq(Sendable)
  PROVE  /\ EventRecords(list) \in Seq(Seq(Cells)) /\ Len(EventRecords(list)) = Len(list)
         /\ ReceivedAll(list) \in Seq(Readable) /\ Len(ReceivedAll(list)) = Len(list)
         /\ Len(list) \in Nat /\ DOMAIN list = 1 .. Len(list)
         /\ \A i \in 1 .. Len(list) : /\ EventRecords(list)[i] = WatchRecord(list[i])
                                      /\ ReceivedAll(list)[i] = Received(list[i])
<1>1. /\ Len(list) \in Nat /\ DOMAIN list = 1 .. Len(list)
      /\ \A i \in 1 .. Len(list) : list[i] \in Sendable
  BY LenProperties, ElementOfSeq
<1>2. \A i \in 1 .. Len(list) : WatchRecord(list[i]) \in Seq(Cells)
  BY <1>1 DEF Sendable
<1>3. ASSUME NEW i \in 1 .. Len(list) PROVE Received(list[i]) \in Readable
  <2>1. list[i] \in Writable
    BY <1>1 DEF Sendable
  <2>2. Path(list[i]) \in Seq(Text)
    BY <2>1, EmptySeq DEF Path, Writable
  <2>3. QED BY <2>1, <2>2 DEF Received, Readable, Writable
<1>4. /\ EventRecords(list) = [i \in 1 .. Len(list) |-> WatchRecord(list[i])]
      /\ ReceivedAll(list) = [i \in 1 .. Len(list) |-> Received(list[i])]
  BY <1>1 DEF EventRecords, ReceivedAll
<1>5. QED BY <1>1, <1>2, <1>3, <1>4

(* The records of a list are its first event's and the others'.            *)
LEMMA RecordsCons ==
  ASSUME NEW list \in Seq(Sendable), list # <<>>
  PROVE  /\ Tail(list) \in Seq(Sendable) /\ Len(Tail(list)) = Len(list) - 1
         /\ list[1] \in Sendable /\ Received(list[1]) \in Readable /\ Len(list) \in Nat
         /\ EventRecords(list) = <<WatchRecord(list[1])>> \o EventRecords(Tail(list))
         /\ ReceivedAll(list) = <<Received(list[1])>> \o ReceivedAll(Tail(list))
<1> DEFINE e == list[1]  q == Tail(list)
           s == EventRecords(list)  t == EventRecords(q)
           v == ReceivedAll(list)  w == ReceivedAll(q)
<1>1. /\ e \in Sendable /\ q \in Seq(Sendable) /\ Len(q) = Len(list) - 1 /\ Len(list) \in Nat \ {0}
      /\ \A i \in 1 .. Len(q) : q[i] = list[i + 1]
  BY HeadAndTail
<1> HIDE DEF e, q
<1>2. /\ s \in Seq(Seq(Cells)) /\ Len(s) = Len(list) /\ v \in Seq(Readable) /\ Len(v) = Len(list)
      /\ \A i \in 1 .. Len(list) : s[i] = WatchRecord(list[i]) /\ v[i] = Received(list[i])
  BY RecordsTyped
<1>3. /\ t \in Seq(Seq(Cells)) /\ Len(t) = Len(q) /\ w \in Seq(Readable) /\ Len(w) = Len(q)
      /\ \A i \in 1 .. Len(q) : t[i] = WatchRecord(q[i]) /\ w[i] = Received(q[i])
  BY <1>1, RecordsTyped
<1> HIDE DEF s, t, v, w
<1>4. s[1] = WatchRecord(e) /\ v[1] = Received(e)
  BY <1>1, <1>2 DEF e
<1>5. \A i \in 1 .. Len(q) : s[i + 1] = t[i] /\ v[i + 1] = w[i]
  <2>1. ASSUME NEW i \in 1 .. Len(q) PROVE s[i + 1] = t[i] /\ v[i + 1] = w[i]
    <3>1. i + 1 \in 1 .. Len(list)
      BY <1>1
    <3>2. s[i + 1] = WatchRecord(list[i + 1]) /\ v[i + 1] = Received(list[i + 1])
      BY <1>2, <3>1
    <3>3. QED BY <1>1, <1>3, <3>2
  <2>2. QED BY <2>1
<1>6. s[1] \in Seq(Cells) /\ v[1] \in Readable
  <2>1. 1 \in 1 .. Len(s) /\ 1 \in 1 .. Len(v)
    BY <1>1, <1>2
  <2>2. QED BY <1>2, <2>1, ElementOfSeq
<1>7. s = <<s[1]>> \o t
  <2>1. /\ s \in Seq(Seq(Cells)) /\ t \in Seq(Seq(Cells)) /\ s[1] \in Seq(Cells)
        /\ Len(s) = Len(t) + 1 /\ \A i \in 1 .. Len(t) : s[i + 1] = t[i]
    BY <1>1, <1>2, <1>3, <1>5, <1>6
  <2>2. QED BY <2>1, Shifted
<1>8. v = <<v[1]>> \o w
  <2>1. /\ v \in Seq(Readable) /\ w \in Seq(Readable) /\ v[1] \in Readable
        /\ Len(v) = Len(w) + 1 /\ \A i \in 1 .. Len(w) : v[i + 1] = w[i]
    BY <1>1, <1>2, <1>3, <1>5, <1>6
  <2>2. QED BY <2>1, Shifted
<1>9. QED BY <1>1, <1>4, <1>6, <1>7, <1>8 DEF e, q, s, t, v, w

(* A buffer that holds the records of events is read as those events.      *)
LEMMA EventsReadBack ==
  ASSUME NEW list \in Seq(Sendable)
  PROVE  /\ FlattenSeq(EventRecords(list)) \in Seq(Cells)
         /\ parse_watch_events[FlattenSeq(EventRecords(list))] = Parsed(ReceivedAll(list))
<1> DEFINE D == Seq(Sendable)
           size == [p \in D |-> Len(p)]
           Good == {p \in D : parse_watch_events[FlattenSeq(EventRecords(p))] = Parsed(ReceivedAll(p))}
<1>1. \A p \in D : FlattenSeq(EventRecords(p)) \in Seq(Cells)
  <2>1. ASSUME NEW p \in D PROVE FlattenSeq(EventRecords(p)) \in Seq(Cells)
    <3> DEFINE s == EventRecords(p)
    <3>1. s \in Seq(Seq(Cells))
      BY RecordsTyped
    <3> HIDE DEF s
    <3>2. FlattenSeq(s) \in Seq(Cells)
      BY <3>1, FlattenTyped
    <3>3. QED BY <3>2 DEF s
  <2>2. QED BY <2>1
<1>2. ASSUME NEW p \in D, \A q \in D : size[q] < size[p] => q \in Good
      PROVE  parse_watch_events[FlattenSeq(EventRecords(p))] = Parsed(ReceivedAll(p))
  <2>1. CASE p = <<>>
    <3>1. EventRecords(p) = <<>> /\ ReceivedAll(p) = <<>>
      BY <2>1 DEF EventRecords, ReceivedAll
    <3>2. parse_watch_events[<<>>] = Parsed(<<>>)
      BY EmptySeq, WatchEventsSteps DEF EventsBody
    <3>3. QED BY <3>1, <3>2, FlattenEmpty
  <2>2. CASE p # <<>>
    <3> DEFINE e == p[1]  q == Tail(p)  s == EventRecords(q)  t == FlattenSeq(s)
               rec == WatchRecord(e)  b == rec \o t
    <3>1. /\ q \in D /\ Len(q) = Len(p) - 1 /\ e \in Sendable /\ Len(p) \in Nat
          /\ EventRecords(p) = <<rec>> \o s /\ ReceivedAll(p) = <<Received(e)>> \o ReceivedAll(q)
      BY <2>2, RecordsCons
    <3>2. s \in Seq(Seq(Cells)) /\ t \in Seq(Cells) /\ e \in Writable /\ rec \in Seq(Cells)
      BY <1>1, <3>1, RecordsTyped DEF Sendable
    <3>3. parse_watch_events[t] = Parsed(ReceivedAll(q))
      <4>1. size[q] < size[p]
        BY <3>1
      <4>2. q \in Good
        BY <1>2, <3>1, <4>1
      <4>3. QED BY <4>2
    <3> HIDE DEF e, q, s
    <3>4. FlattenSeq(EventRecords(p)) = b
      <4> HIDE DEF rec
      <4>1. FlattenSeq(<<rec>> \o s) = rec \o FlattenSeq(s)
        BY <3>2, FlattenCons
      <4>2. QED BY <3>1, <4>1
    <3> HIDE DEF t
    <3>5. /\ b \in Seq(Cells) /\ Len(b) \in Nat /\ Len(b) >= 3 /\ b # <<>>
          /\ b[1] \in Nat /\ b[1] >= 3 /\ b[1] <= Len(b)
          /\ Drop(b, b[1]) = t /\ WatchEvent(b) = Parsed(Received(e))
      BY <3>2, WatchRecordReadsBack
    <3> HIDE DEF b
    <3>6. ~(Len(b) < 3 \/ b[1] < 3 \/ b[1] > Len(b))
      BY <3>5
    <3>7. EventsBody(parse_watch_events, b) = Parsed(<<Received(e)>> \o ReceivedAll(q))
      <4>1. EventsBody(parse_watch_events, b) =
               IF WatchEvent(b).ok /\ parse_watch_events[t].ok
               THEN Parsed(<<WatchEvent(b).out>> \o parse_watch_events[t].out) ELSE Malformed
        BY <3>5, <3>6 DEF EventsBody
      <4>2. WatchEvent(b).ok /\ WatchEvent(b).out = Received(e)
        BY <3>5 DEF Parsed
      <4>3. parse_watch_events[t].ok /\ parse_watch_events[t].out = ReceivedAll(q)
        BY <3>3 DEF Parsed
      <4>4. QED BY <4>1, <4>2, <4>3
    <3>8. parse_watch_events[b] = EventsBody(parse_watch_events, b)
      BY <3>5, WatchEventsSteps
    <3>9. QED BY <3>1, <3>4, <3>7, <3>8
  <2>3. QED BY <2>1, <2>2
<1>3. size \in [D -> Nat]
  BY LenProperties
<1>4. Good \in Inductive(D, size)
  BY <1>2 DEF Inductive
<1>5. list \in Good
  <2> HIDE DEF Good, size
  <2>1. QED BY <1>3, <1>4, BySize
<1>6. QED BY <1>1, <1>5

(* What one event is written as, with or without an extension.             *)
Sent(o, ext) == [kind |-> o.kind, name |-> o.name, path |-> o.path, ext |-> ext]
SentAll(out, exts) == [i \in DOMAIN out |-> WatchRecord(Sent(out[i], exts[i]))]

(* What is read from any buffer accounts for all of it.                    *)
LEMMA EventsAreExact ==
  ASSUME NEW b \in Seq(Cells), parse_watch_events[b].ok
  PROVE  LET out == parse_watch_events[b].out IN
         out \in Seq(Readable) /\ \E exts \in [DOMAIN out -> BOOLEAN] : b = FlattenSeq(SentAll(out, exts))
<1> DEFINE D == Seq(Cells)
           size == [c \in D |-> Len(c)]
           Accounted(c, out) == \E exts \in [DOMAIN out -> BOOLEAN] :
               SentAll(out, exts) \in Seq(Seq(Cells)) /\ c = FlattenSeq(SentAll(out, exts))
           Good == {c \in D : parse_watch_events[c].ok => Accounted(c, parse_watch_events[c].out)}
<1>1. \A c \in D : /\ parse_watch_events[c].out \in Seq(Readable)
                   /\ parse_watch_events[c] = EventsBody(parse_watch_events, c)
  <2>1. \A c \in D : parse_watch_events[c] \in EventsResult
    BY WatchEventsSteps
  <2>2. QED BY <2>1, WatchEventsSteps DEF EventsResult
<1>2. ASSUME NEW c \in D, \A a \in D : size[a] < size[c] => a \in Good, parse_watch_events[c].ok
      PROVE  Accounted(c, parse_watch_events[c].out)
  <2>4. parse_watch_events[c] = EventsBody(parse_watch_events, c)
    BY <1>1
  <2>1. CASE c = <<>>
    <3>1. parse_watch_events[c].out = <<>>
      BY <2>1, <2>4 DEF EventsBody, Parsed
    <3> DEFINE exts == [i \in DOMAIN <<>> |-> TRUE]
    <3>2. exts \in [DOMAIN <<>> -> BOOLEAN] /\ SentAll(<<>>, exts) = <<>>
      BY DEF SentAll
    <3>3. QED BY <2>1, <3>1, <3>2, FlattenEmpty, EmptySeq
  <2>2. CASE c # <<>>
    <3> DEFINE left == Drop(c, c[1])  rec == Take(c, c[1])  o == WatchEvent(c).out
               more == parse_watch_events[left].out  out == <<o>> \o more
    <3>1. ~(Len(c) < 3 \/ c[1] < 3 \/ c[1] > Len(c))
      BY <1>2, <2>2, <2>4 DEF EventsBody, Malformed
    <3>2. parse_watch_events[c] = IF WatchEvent(c).ok /\ parse_watch_events[left].ok
                                  THEN Parsed(<<o>> \o more) ELSE Malformed
      BY <2>2, <2>4, <3>1 DEF EventsBody
    <3>3. WatchEvent(c).ok /\ parse_watch_events[left].ok /\ parse_watch_events[c].out = out
      BY <1>2, <3>2 DEF Parsed, Malformed
    <3>4. /\ Len(c) \in Nat /\ c[1] \in Nat /\ Len(c) >= 3 /\ c[1] >= 3 /\ c[1] <= Len(c)
          /\ left \in D /\ Len(left) < Len(c) /\ c = rec \o left /\ rec \in Seq(Cells)
      BY <2>2, <3>1, RecordTaken
    <3>5. o \in Readable /\ \E ext \in BOOLEAN : rec = WatchRecord(Sent(o, ext))
      BY <3>3, <3>4, WatchEventIsExact DEF Readable, Sent
    <3>6. more \in Seq(Readable)
      BY <1>1, <3>4
    <3>7. Accounted(left, more)
      <4>1. size[left] < size[c]
        BY <3>4
      <4>2. QED BY <1>2, <3>3, <3>4, <4>1
    <3> HIDE DEF left, rec, o, more
    <3>8. PICK ext \in BOOLEAN : rec = WatchRecord(Sent(o, ext))
      BY <3>5
    <3>9. PICK exts \in [DOMAIN more -> BOOLEAN] :
             SentAll(more, exts) \in Seq(Seq(Cells)) /\ left = FlattenSeq(SentAll(more, exts))
      BY <3>7
    <3>10. /\ out \in Seq(Readable) /\ Len(out) = Len(more) + 1 /\ Len(more) \in Nat /\ out[1] = o
           /\ \A i \in 1 .. Len(more) : out[1 + i] = more[i]
           /\ DOMAIN out = 1 .. Len(out) /\ DOMAIN more = 1 .. Len(more)
      <4>1. <<o>> \in Seq(Readable) /\ Len(<<o>>) = 1
        BY <3>5
      <4>2. out \in Seq(Readable) /\ Len(out) = Len(more) + 1 /\ out[1] = o
        BY <3>5, <3>6, Headed
      <4>3. \A i \in 1 .. Len(more) : out[1 + i] = more[i]
        BY <3>6, <4>1, Joined
      <4>4. QED BY <3>6, <4>2, <4>3, LenProperties
    <3> HIDE DEF out
    <3> DEFINE all == [i \in DOMAIN out |-> IF i = 1 THEN ext ELSE exts[i - 1]]
               s == SentAll(out, all)  t == SentAll(more, exts)
    <3>11. all \in [DOMAIN out -> BOOLEAN]
      BY <3>8, <3>9, <3>10
    <3>12. s = <<rec>> \o t
      <4>1. /\ s = [i \in 1 .. Len(out) |-> WatchRecord(Sent(out[i], all[i]))]
            /\ t = [i \in 1 .. Len(more) |-> WatchRecord(Sent(more[i], exts[i]))]
        BY <3>10 DEF SentAll
      <4>2. t \in Seq(Seq(Cells)) /\ Len(t) = Len(more) /\ Len(s) = Len(out)
        BY <3>9, <3>10, <4>1
      <4>3. s[1] = rec
        BY <3>8, <3>10, <4>1
      <4>4. ASSUME NEW i \in 1 .. Len(more) PROVE s[i + 1] = t[i]
        <5>1. i + 1 \in 1 .. Len(out) /\ i + 1 \in DOMAIN out /\ i + 1 # 1 /\ (i + 1) - 1 = i
          BY <3>10
        <5>2. out[i + 1] = more[i] /\ all[i + 1] = exts[i]
          BY <3>10, <5>1
        <5> HIDE DEF s, t, all
        <5>3. s[i + 1] = WatchRecord(Sent(out[i + 1], all[i + 1]))
          BY <4>1, <5>1
        <5>4. QED BY <4>1, <5>2, <5>3
      <4> HIDE DEF t
      <4>5. s \in Seq(Seq(Cells))
        <5>1. \A i \in 1 .. Len(out) : s[i] \in Seq(Cells)
          <6>1. ASSUME NEW i \in 1 .. Len(out) PROVE s[i] \in Seq(Cells)
            <7>1. CASE i = 1
              BY <3>4, <4>3, <7>1
            <7>2. CASE i # 1
              <8>1. i - 1 \in 1 .. Len(more) /\ (i - 1) + 1 = i
                BY <3>10, <7>2
              <8>2. s[i] = t[i - 1]
                BY <4>4, <8>1
              <8>3. t[i - 1] \in Seq(Cells)
                BY <4>2, <8>1, ElementOfSeq
              <8>4. QED BY <8>2, <8>3
            <7>3. QED BY <7>1, <7>2
          <6>2. QED BY <6>1
        <5> HIDE DEF s
        <5>2. s = [i \in 1 .. Len(out) |-> s[i]]
          BY <4>1
        <5>3. QED BY <3>10, <5>1, <5>2
      <4> HIDE DEF s
      <4>6. Len(s) = Len(t) + 1 /\ \A i \in 1 .. Len(t) : s[i + 1] = t[i]
        BY <3>10, <4>2, <4>4
      <4> DEFINE C == Seq(Cells)
      <4>7. s \in Seq(C) /\ t \in Seq(C) /\ rec \in C
        BY <3>4, <4>2, <4>5
      <4> HIDE DEF C, D, all, rec
      <4>8. s[1] = rec
        BY <4>3 DEF rec
      <4>9. s = <<rec>> \o t
        BY <4>6, <4>7, <4>8, Shifted, SMTT(30)
      <4>10. QED BY <4>9 DEF rec
    <3>13. s \in Seq(Seq(Cells)) /\ FlattenSeq(s) = c
      <4>1. t \in Seq(Seq(Cells)) /\ FlattenSeq(t) = left
        BY <3>9
      <4> HIDE DEF s, t
      <4>2. FlattenSeq(<<rec>> \o t) = rec \o FlattenSeq(t)
        BY <3>4, <4>1, FlattenCons
      <4>3. <<rec>> \o t \in Seq(Seq(Cells))
        BY <3>4, <4>1, Headed
      <4>4. QED BY <3>4, <3>12, <4>1, <4>2, <4>3
    <3> HIDE DEF s
    <3>14. Accounted(c, out)
      BY <3>11, <3>13 DEF s
    <3>15. QED BY <3>3, <3>14 DEF out
  <2>3. QED BY <2>1, <2>2
<1>3. size \in [D -> Nat]
  BY LenProperties
<1>4. Good \in Inductive(D, size)
  BY <1>2 DEF Inductive
<1>5. b \in Good
  <2> HIDE DEF Good, size
  <2>1. QED BY <1>3, <1>4, BySize
<1>6. QED BY <1>1, <1>5


-----------------------------------------------------------------------------
(* Value records, and parse_value_records over a buffer of them.           *)
(* The value records that fit the cells, and what reading them returns.    *)
Values == [name : Seq(Cells), type : Cells, data : Seq(Cells)]
ValuesResult == [ok : BOOLEAN, out : Seq(Values)]

(* What is behind the name of the first record of a buffer, that record    *)
(* and what is behind it.                                                  *)
Behind(rest) == Drop(Tail(rest), rest[1])
FirstValue(rest) == [name |-> Take(Tail(rest), rest[1]), type |-> Behind(rest)[1],
                     data |-> Take(Drop(Behind(rest), 2), Behind(rest)[2])]
Remaining(rest) == Drop(Drop(Behind(rest), 2), Behind(rest)[2])

(* The parser's step.                                                      *)
ValuesBody(values, count, rest) ==
    IF count = 0 THEN Parsed(<<>>)
    ELSE IF rest = <<>> \/ Len(rest) < rest[1] + 3 THEN Malformed
    ELSE IF Behind(rest)[2] + 2 <= Len(Behind(rest)) /\ values[count - 1][Remaining(rest)].ok
         THEN Parsed(<<FirstValue(rest)>> \o values[count - 1][Remaining(rest)].out) ELSE Malformed

(* A sequence of at least two cells starts with its first two.             *)
LEMMA FirstTwo ==
  ASSUME NEW b \in Seq(Cells), Len(b) >= 2
  PROVE  /\ b[1] \in Cells /\ b[2] \in Cells /\ b = <<b[1], b[2]>> \o Drop(b, 2)
         /\ Drop(b, 2) \in Seq(Cells) /\ Len(Drop(b, 2)) = Len(b) - 2
<1>1. Len(b) \in Nat /\ 2 \in Nat /\ 2 <= Len(b)
  BY LenProperties
<1>2. /\ Take(b, 2) \in Seq(Cells) /\ Len(Take(b, 2)) = 2 /\ \A i \in 1 .. 2 : Take(b, 2)[i] = b[i]
      /\ b = Take(b, 2) \o Drop(b, 2) /\ Drop(b, 2) \in Seq(Cells) /\ Len(Drop(b, 2)) = Len(b) - 2
  BY <1>1, CutCells
<1>3. b[1] \in Cells /\ b[2] \in Cells
  BY <1>1, ElementOfSeq
<1> DEFINE f == Take(b, 2)  h == <<b[1], b[2]>>
<1>4. h \in Seq(Cells) /\ Len(h) = 2 /\ h[1] = b[1] /\ h[2] = b[2]
  BY <1>3
<1>5. f \in Seq(Cells) /\ Len(f) = 2 /\ \A i \in 1 .. 2 : f[i] = b[i]
  BY <1>2
<1>6. f = h
  <2> HIDE DEF f, h
  <2>1. \A i \in 1 .. 2 : f[i] = h[i]
    BY <1>4, <1>5
  <2>2. QED BY <1>4, <1>5, <2>1, SeqEqual
<1>7. QED BY <1>2, <1>3, <1>6

(* The first record of a buffer that is long enough is in front of what is *)
(* left.                                                                   *)
LEMMA ValueTaken ==
  ASSUME NEW rest \in Seq(Cells), rest # <<>>, ~(Len(rest) < rest[1] + 3),
         Behind(rest)[2] + 2 <= Len(Behind(rest))
  PROVE  /\ FirstValue(rest) \in Values /\ Remaining(rest) \in Seq(Cells)
         /\ ValueRecord(FirstValue(rest)) \in Seq(Cells)
         /\ rest = ValueRecord(FirstValue(rest)) \o Remaining(rest)
<1> DEFINE n == rest[1]  name == Take(Tail(rest), n)  b == Behind(rest)
           m == b[2]  d == Drop(b, 2)  data == Take(d, m)  left == Drop(d, m)
<1>1. rest[1] \in Cells /\ Len(rest) \in Nat /\ Len(Tail(rest)) = Len(rest) - 1
  BY HeadAndTail
<1>2. n \in Nat
  BY <1>1, CellsAreNumbers
<1>3. ~(Len(rest) - 1 < rest[1])
  BY <1>1, <1>2
<1>4. /\ Tail(rest) \in Seq(Cells) /\ name \in Seq(Cells) /\ Len(name) = n /\ b \in Seq(Cells)
      /\ rest = <<n>> \o Tail(rest) /\ Tail(rest) = name \o b
  BY <1>3, Measured DEF Behind
<1>6. FirstValue(rest) = [name |-> name, type |-> b[1], data |-> data] /\ Remaining(rest) = left
  BY DEF FirstValue, Remaining
<1>10. m + 2 <= Len(b)
  OBVIOUS
<1>18. n = rest[1]
  OBVIOUS
<1> HIDE DEF n, name, b
<1>5. Len(b) >= 2
  <2>1. Len(Tail(rest)) = Len(name) + Len(b) /\ Len(b) \in Nat
    BY <1>4, PartCells
  <2>2. ~(Len(rest) < n + 3)
    BY <1>18
  <2>3. Len(rest) - 1 = n + Len(b)
    BY <1>1, <1>4, <2>1
  <2>4. QED BY <1>1, <1>2, <2>1, <2>2, <2>3
<1>7. b[1] \in Cells /\ m \in Cells /\ b = <<b[1], m>> \o d /\ d \in Seq(Cells) /\ Len(d) = Len(b) - 2
  BY <1>4, <1>5, FirstTwo
<1>8. m \in Nat /\ m <= Len(d)
  <2>1. m \in Nat /\ Len(b) \in Nat
    BY <1>4, <1>7, CellsAreNumbers, LenProperties
  <2>2. QED BY <1>7, <1>10, <2>1
<1> HIDE DEF m, d
<1>9. data \in Seq(Cells) /\ left \in Seq(Cells) /\ Len(data) = m /\ d = data \o left
  BY <1>7, <1>8, CutCells
<1> HIDE DEF data, left
<1> DEFINE x == <<n>>  y == <<b[1], m>>
<1>11. x \in Seq(Cells) /\ y \in Seq(Cells)
  BY <1>1, <1>7 DEF n
<1>12. ValueRecord(FirstValue(rest)) = x \o (name \o (y \o data))
  <2>1. /\ FirstValue(rest).name = name /\ FirstValue(rest).type = b[1] /\ FirstValue(rest).data = data
    BY <1>6
  <2>2. QED BY <1>4, <1>9, <2>1 DEF ValueRecord
<1>13. rest = x \o (name \o (y \o (data \o left)))
  BY <1>4, <1>7, <1>9
<1> HIDE DEF x, y
<1>14. /\ x \in Seq(Cells) /\ y \in Seq(Cells) /\ name \in Seq(Cells)
       /\ data \in Seq(Cells) /\ left \in Seq(Cells)
  BY <1>4, <1>9, <1>11
<1>15. /\ x \o (name \o (y \o data)) \in Seq(Cells)
       /\ rest = (x \o (name \o (y \o data))) \o left
  <2>1. Cat(x, Cat(name, Cat(y, data))) \in Seq(Cells)
    BY <1>14, Associative
  <2>2. Cat(Cat(x, Cat(name, Cat(y, data))), left) = Cat(x, Cat(name, Cat(y, Cat(data, left))))
    BY <1>14, Associative
  <2>3. QED BY <1>13, <2>1, <2>2, Zenon DEF Cat
<1>16. FirstValue(rest) \in Values
  <2>1. name \in Seq(Cells) /\ data \in Seq(Cells) /\ b[1] \in Cells
    BY <1>4, <1>7, <1>9
  <2>2. QED BY <1>6, <2>1 DEF Values
<1>17. QED BY <1>6, <1>9, <1>12, <1>15, <1>16

(* A value's record, whatever is behind it, is read as that value.         *)
LEMMA ValueReadsBack ==
  ASSUME NEW r \in Values, ValueRecord(r) \in Seq(Cells), NEW t \in Seq(Cells), NEW b, b = ValueRecord(r) \o t
  PROVE  /\ b \in Seq(Cells) /\ b # <<>> /\ ~(Len(b) < b[1] + 3)
         /\ Behind(b)[2] + 2 <= Len(Behind(b)) /\ FirstValue(b) = r /\ Remaining(b) = t
<1> DEFINE n == Len(r.name)  m == Len(r.data)  x == <<n>>  y == <<r.type, m>>
           u == y \o r.data  v == r.name \o u
<1>1. /\ r.name \in Seq(Cells) /\ r.data \in Seq(Cells) /\ r.type \in Cells
      /\ r = [name |-> r.name, type |-> r.type, data |-> r.data]
  BY DEF Values
<1>2. n \in Nat /\ m \in Nat /\ r.type \in Nat
  BY <1>1, LenProperties, CellsAreNumbers
<1>3. x \in Seq(Nat) /\ y \in Seq(Nat) /\ r.name \in Seq(Nat) /\ r.data \in Seq(Nat) /\ Len(y) = 2
  BY <1>1, <1>2, TextIsCells
<1>4. ValueRecord(r) = x \o v
  BY DEF ValueRecord
<1> HIDE DEF x, y
<1>5. u \in Seq(Nat) /\ v \in Seq(Nat)
  <2>1. u \in Seq(Nat)
    BY <1>3, ConcatProperties
  <2>2. QED BY <1>3, <2>1, ConcatProperties
<1> HIDE DEF v
<1>6. x \in Seq(Cells) /\ v \in Seq(Cells)
  BY <1>3, <1>4, <1>5, BothTyped
<1> HIDE DEF u
<1>7. u \in Seq(Cells)
  BY <1>3, <1>5, <1>6, BothTyped DEF v
<1>8. y \in Seq(Cells)
  BY <1>3, <1>7, BothTyped DEF u
<1> DEFINE w == r.data \o t  behind == y \o w
<1>9. w \in Seq(Cells) /\ Take(w, m) = r.data /\ Drop(w, m) = t /\ Len(w) = m + Len(t) /\ Len(t) \in Nat
  BY <1>1, PartCells
<1> HIDE DEF w
<1>10. /\ behind \in Seq(Cells) /\ Len(behind) = 2 + Len(w) /\ Drop(behind, 2) = w
       /\ behind[1] = y[1] /\ behind[2] = y[2]
  <2>1. /\ behind \in Seq(Cells) /\ Len(behind) = Len(y) + Len(w) /\ Drop(behind, Len(y)) = w
    BY <1>8, <1>9, PartCells
  <2>2. \A i \in 1 .. Len(y) : behind[i] = y[i]
    BY <1>8, <1>9, Joined
  <2> HIDE DEF behind
  <2>3. QED BY <1>3, <2>1, <2>2
<1>11. y[1] = r.type /\ y[2] = m
  BY DEF y
<1>12. b = x \o (r.name \o behind)
  <2>1. b = (x \o v) \o t
    BY <1>4
  <2>2. (x \o v) \o t = x \o (v \o t)
    BY <1>6, ConcatAssociative, SMTT(30)
  <2>3. v \o t = r.name \o (u \o t)
    <3> DEFINE name == r.name
    <3>1. name \in Seq(Cells) /\ v = name \o u
      BY <1>1 DEF v
    <3> HIDE DEF name
    <3>2. (name \o u) \o t = name \o (u \o t)
      BY <1>7, <3>1, ConcatAssociative, SMTT(30)
    <3>3. QED BY <3>1, <3>2 DEF name
  <2>4. u \o t = y \o w
    BY <1>1, <1>8, ConcatAssociative, SMTT(30) DEF u, w
  <2>5. QED BY <2>1, <2>2, <2>3, <2>4
<1> HIDE DEF behind
<1> DEFINE tail == r.name \o behind
<1>13. /\ tail \in Seq(Cells) /\ Take(tail, n) = r.name /\ Drop(tail, n) = behind /\ Len(tail) = n + Len(behind)
  BY <1>1, <1>10, PartCells
<1> HIDE DEF tail
<1>14. n \in Cells
  BY <1>2, <1>6 DEF x
<1>15. b \in Seq(Cells) /\ b # <<>> /\ b[1] = n /\ Tail(b) = tail /\ Len(b) = Len(tail) + 1
  <2>1. b = <<n>> \o tail
    BY <1>12 DEF x, tail
  <2> HIDE DEF n
  <2>2. QED BY <1>13, <1>14, <2>1, Headed
<1>16. Behind(b) = behind
  BY <1>13, <1>15 DEF Behind
<1>17. ~(Len(b) < b[1] + 3)
  <2>1. Len(b) = n + (2 + (m + Len(t))) + 1
    BY <1>9, <1>10, <1>13, <1>15
  <2> HIDE DEF n, m
  <2>2. QED BY <1>2, <1>9, <1>15, <2>1
<1>18. Behind(b)[2] = m /\ Behind(b)[1] = r.type /\ Drop(Behind(b), 2) = w
  BY <1>10, <1>11, <1>16
<1>19. Behind(b)[2] + 2 <= Len(Behind(b))
  BY <1>2, <1>9, <1>10, <1>16, <1>18, SMTT(30)
<1>20. Remaining(b) = t
  BY <1>9, <1>18 DEF Remaining
<1>21. FirstValue(b) = r
  <2>1. Take(Tail(b), b[1]) = r.name /\ Take(Drop(Behind(b), 2), Behind(b)[2]) = r.data
    BY <1>9, <1>13, <1>15, <1>18
  <2>2. QED BY <1>1, <1>18, <2>1 DEF FirstValue
<1>22. QED BY <1>15, <1>17, <1>19, <1>20, <1>21

(* The parser returns values or EINVAL.                                    *)
LEMMA ValuesBodyTyped ==
  ASSUME NEW values \in [Nat -> [Seq(Cells) -> ValuesResult]], NEW count \in Nat, NEW rest \in Seq(Cells)
  PROVE  ValuesBody(values, count, rest) \in ValuesResult
<1> DEFINE long == /\ count # 0 /\ rest # <<>> /\ ~(Len(rest) < rest[1] + 3)
                   /\ Behind(rest)[2] + 2 <= Len(Behind(rest))
           left == Remaining(rest)
           more == values[count - 1][left]
           first == FirstValue(rest)
<1>1. Malformed \in ValuesResult /\ Parsed(<<>>) \in ValuesResult
  BY DEF Malformed, Parsed, ValuesResult
<1>2. CASE long
  <2>1. left \in Seq(Cells) /\ first \in Values /\ count - 1 \in Nat
    BY <1>2, ValueTaken
  <2>2. more \in ValuesResult
    BY <2>1
  <2>3. ValuesBody(values, count, rest) = IF more.ok THEN Parsed(<<first>> \o more.out) ELSE Malformed
    BY <1>2 DEF ValuesBody
  <2> HIDE DEF left, more, first
  <2>4. Parsed(<<first>> \o more.out) \in ValuesResult
    BY <2>1, <2>2, Headed DEF Parsed, ValuesResult
  <2>5. QED BY <1>1, <2>3, <2>4
<1>3. CASE ~long
  BY <1>1, <1>3 DEF ValuesBody
<1>4. QED BY <1>2, <1>3

(* ValueRecords satisfies the equation it is defined by.                   *)
LEMMA ValueRecordsSteps ==
  /\ ValueRecords \in [Nat -> [Seq(Cells) -> ValuesResult]]
  /\ \A count \in Nat : \A rest \in Seq(Cells) :
        ValueRecords[count][rest] = ValuesBody(ValueRecords, count, rest)
<1> DEFINE R == [Seq(Cells) -> ValuesResult]
           step(g) == [count \in Nat |-> [rest \in Seq(Cells) |-> ValuesBody(g, count, rest)]]
           all == [g \in [Nat -> R] |-> step(g)]
           size == [n \in Nat |-> n]
<1>1. size \in [Nat -> Nat] /\ R # {}
  <2>1. [b \in Seq(Cells) |-> Malformed] \in R
    BY DEF Malformed, ValuesResult
  <2>2. QED BY <2>1
<1>2. \A g, h : \A count \in Nat :
         (\A n \in Nat : size[n] < size[count] => g[n] = h[n]) => step(g)[count] = step(h)[count]
  <2>1. ASSUME NEW g, NEW h, NEW count \in Nat, \A n \in Nat : size[n] < size[count] => g[n] = h[n]
        PROVE  \A rest \in Seq(Cells) : ValuesBody(g, count, rest) = ValuesBody(h, count, rest)
    <3>1. CASE count = 0
      BY <3>1 DEF ValuesBody
    <3>2. CASE count # 0
      <4>1. count - 1 \in Nat /\ count - 1 < count
        BY <3>2
      <4>2. g[count - 1] = h[count - 1]
        BY <2>1, <4>1
      <4>3. QED BY <4>2 DEF ValuesBody
    <3>3. QED BY <3>1, <3>2
  <2>2. ASSUME NEW g, NEW h, NEW count \in Nat, \A n \in Nat : size[n] < size[count] => g[n] = h[n]
        PROVE  step(g)[count] = step(h)[count]
    <3>1. [rest \in Seq(Cells) |-> ValuesBody(g, count, rest)] = [rest \in Seq(Cells) |-> ValuesBody(h, count, rest)]
      BY <2>1, <2>2, ZenonT(40)
    <3>2. QED BY <3>1
  <2>3. QED BY <2>2
<1>3. all \in Recursions(Nat, R, size)
  <2>1. ASSUME NEW g \in [Nat -> R] PROVE step(g) \in [Nat -> R]
    BY ValuesBodyTyped
  <2> HIDE DEF R, step, size
  <2>2. all \in [[Nat -> R] -> [Nat -> R]] /\ \A g \in [Nat -> R] : all[g] = step(g)
    BY <2>1
  <2> HIDE DEF all
  <2>3. \A g, h \in [Nat -> R] : \A n \in Nat :
           (\A m \in Nat : size[m] < size[n] => g[m] = h[m]) => all[g][n] = all[h][n]
    BY <1>2, <2>2
  <2>4. QED BY <2>2, <2>3 DEF Recursions
<1>4. PICK f \in [Nat -> R] : f = step(f)
  <2> HIDE DEF R, size, step
  <2>1. Solvable(all)
    <3> HIDE DEF all
    <3>1. QED BY <1>1, <1>3, RecursiveOnSize
  <2>2. QED BY <2>1 DEF Solvable
<1>5. ValueRecords = step(ValueRecords)
  <2>1. ValueRecords = CHOOSE g : g = step(g)
    BY DEF ValueRecords, ValuesBody, Behind, FirstValue, Remaining
  <2>2. QED BY <1>4, <2>1
<1>6. \A count \in Nat : ValueRecords[count] = f[count]
  <2> DEFINE Same == {count \in Nat : ValueRecords[count] = f[count]}
  <2>1. ASSUME NEW count \in Nat, \A n \in Nat : size[n] < size[count] => n \in Same
        PROVE  count \in Same
    <3>1. step(ValueRecords)[count] = step(f)[count]
      <4> HIDE DEF step, size
      <4>1. QED BY <1>2, <2>1
    <3>2. QED BY <1>4, <1>5, <3>1
  <2>2. Same \in Inductive(Nat, size)
    BY <2>1 DEF Inductive
  <2> HIDE DEF Same, size
  <2>3. \A count \in Nat : count \in Same
    BY <1>1, <2>2, BySize
  <2>4. QED BY <2>3 DEF Same
<1>7. ValueRecords = f
  BY <1>4, <1>5, <1>6
<1>8. QED BY <1>4, <1>5, <1>7

(* The records of values, and those that fit the cells.                    *)
ValuesBytes(list) == [i \in DOMAIN list |-> ValueRecord(list[i])]
Recordable == {r \in Values : ValueRecord(r) \in Seq(Cells)}

(* The records of a list are its first value's and the others'.            *)
LEMMA ValuesCons ==
  ASSUME NEW list \in Seq(Recordable)
  PROVE  /\ ValuesBytes(list) \in Seq(Seq(Cells)) /\ Len(ValuesBytes(list)) = Len(list) /\ Len(list) \in Nat
         /\ list = <<>> => ValuesBytes(list) = <<>>
         /\ list # <<>> => /\ Tail(list) \in Seq(Recordable) /\ Len(Tail(list)) = Len(list) - 1
                           /\ list[1] \in Recordable /\ list = <<list[1]>> \o Tail(list) /\ Len(list) # 0
                           /\ ValuesBytes(list) = <<ValueRecord(list[1])>> \o ValuesBytes(Tail(list))
<1>1. ASSUME NEW p \in Seq(Recordable)
      PROVE  /\ ValuesBytes(p) \in Seq(Seq(Cells)) /\ Len(ValuesBytes(p)) = Len(p) /\ Len(p) \in Nat
             /\ \A i \in 1 .. Len(p) : ValuesBytes(p)[i] = ValueRecord(p[i])
  <2>1. Len(p) \in Nat /\ DOMAIN p = 1 .. Len(p) /\ \A i \in 1 .. Len(p) : p[i] \in Recordable
    BY LenProperties, ElementOfSeq
  <2>2. \A i \in 1 .. Len(p) : ValueRecord(p[i]) \in Seq(Cells)
    BY <2>1 DEF Recordable
  <2>3. ValuesBytes(p) = [i \in 1 .. Len(p) |-> ValueRecord(p[i])]
    BY <2>1 DEF ValuesBytes
  <2>4. QED BY <2>1, <2>2, <2>3
<1>2. CASE list = <<>>
  BY <1>1, <1>2 DEF ValuesBytes
<1>3. CASE list # <<>>
  <2> DEFINE r == list[1]  q == Tail(list)  s == ValuesBytes(list)  t == ValuesBytes(q)
  <2>1. /\ r \in Recordable /\ q \in Seq(Recordable) /\ Len(q) = Len(list) - 1 /\ Len(list) \in Nat \ {0}
        /\ \A i \in 1 .. Len(q) : q[i] = list[i + 1]
        /\ list = <<r>> \o q
    BY <1>3, HeadAndTail
  <2> HIDE DEF q
  <2>2. /\ s \in Seq(Seq(Cells)) /\ Len(s) = Len(list) /\ \A i \in 1 .. Len(list) : s[i] = ValueRecord(list[i])
        /\ t \in Seq(Seq(Cells)) /\ Len(t) = Len(q) /\ \A i \in 1 .. Len(q) : t[i] = ValueRecord(q[i])
    BY <1>1, <2>1
  <2> HIDE DEF s, t
  <2>3. s[1] = ValueRecord(r) /\ ValueRecord(r) \in Seq(Cells)
    BY <2>1, <2>2 DEF Recordable
  <2>4. ASSUME NEW i \in 1 .. Len(t) PROVE s[i + 1] = t[i]
    <3>1. i + 1 \in 1 .. Len(list) /\ i \in 1 .. Len(q)
      BY <2>1, <2>2
    <3>2. s[i + 1] = ValueRecord(list[i + 1])
      BY <2>2, <3>1
    <3>3. QED BY <2>1, <2>2, <3>1, <3>2
  <2> DEFINE C == Seq(Cells)  rec == ValueRecord(r)
  <2>5. s \in Seq(C) /\ t \in Seq(C) /\ rec \in C /\ s[1] = rec
    BY <2>2, <2>3
  <2>6. Len(s) = Len(t) + 1
    BY <2>1, <2>2
  <2> HIDE DEF C, rec
  <2>7. s = <<rec>> \o t
    BY <2>4, <2>5, <2>6, Shifted
  <2>8. QED BY <1>1, <1>3, <2>1, <2>7 DEF s, t, q, rec
<1>4. QED BY <1>2, <1>3

(* A buffer that starts with the records of values is read as those.       *)
LEMMA ValuesReadBack ==
  ASSUME NEW list \in Seq(Recordable)
  PROVE  /\ FlattenSeq(ValuesBytes(list)) \in Seq(Cells)
         /\ ValueRecords[Len(list)][FlattenSeq(ValuesBytes(list))] = Parsed(list)
<1> DEFINE D == Seq(Recordable)
           size == [p \in D |-> Len(p)]
           Good == {p \in D : ValueRecords[Len(p)][FlattenSeq(ValuesBytes(p))] = Parsed(p)}
<1>1. ASSUME NEW p \in D PROVE FlattenSeq(ValuesBytes(p)) \in Seq(Cells)
  <2> DEFINE s == ValuesBytes(p)
  <2>1. s \in Seq(Seq(Cells))
    BY ValuesCons
  <2> HIDE DEF s
  <2>2. FlattenSeq(s) \in Seq(Cells)
    BY <2>1, FlattenTyped
  <2>3. QED BY <2>2 DEF s
<1>2. ASSUME NEW p \in D, \A q \in D : size[q] < size[p] => q \in Good
      PROVE  ValueRecords[Len(p)][FlattenSeq(ValuesBytes(p))] = Parsed(p)
  <2>1. CASE p = <<>>
    <3>1. ValuesBytes(p) = <<>> /\ Len(p) = 0 /\ <<>> \in Seq(Cells)
      BY <2>1, ValuesCons, EmptySeq
    <3>2. ValueRecords[0][<<>>] = ValuesBody(ValueRecords, 0, <<>>)
      <4>1. \A rest \in Seq(Cells) : ValueRecords[0][rest] = ValuesBody(ValueRecords, 0, rest)
        BY ValueRecordsSteps
      <4>2. QED BY <3>1, <4>1, Zenon
    <3>3. ValueRecords[0][<<>>] = Parsed(<<>>)
      BY <3>2 DEF ValuesBody
    <3>4. QED BY <2>1, <3>1, <3>3, FlattenEmpty
  <2>2. CASE p # <<>>
    <3> DEFINE r == p[1]  q == Tail(p)  s == ValuesBytes(q)  t == FlattenSeq(s)
               rec == ValueRecord(r)  b == rec \o t
    <3>1. /\ q \in D /\ Len(q) = Len(p) - 1 /\ r \in Recordable /\ Len(p) \in Nat /\ Len(p) # 0
          /\ ValuesBytes(p) = <<rec>> \o s /\ p = <<r>> \o q
      BY <2>2, ValuesCons
    <3>2. s \in Seq(Seq(Cells)) /\ t \in Seq(Cells) /\ r \in Values /\ rec \in Seq(Cells)
      BY <1>1, <3>1, ValuesCons DEF Recordable
    <3>3. ValueRecords[Len(p) - 1][t] = Parsed(q)
      <4>1. size[q] < size[p]
        BY <3>1
      <4>2. q \in Good
        BY <1>2, <3>1, <4>1
      <4>3. QED BY <3>1, <4>2
    <3> HIDE DEF r, q, s
    <3>4. FlattenSeq(ValuesBytes(p)) = b
      <4> HIDE DEF rec
      <4>1. FlattenSeq(<<rec>> \o s) = rec \o FlattenSeq(s)
        BY <3>2, FlattenCons
      <4>2. QED BY <3>1, <4>1
    <3> HIDE DEF t
    <3>5. /\ b \in Seq(Cells) /\ b # <<>> /\ ~(Len(b) < b[1] + 3)
          /\ Behind(b)[2] + 2 <= Len(Behind(b)) /\ FirstValue(b) = r /\ Remaining(b) = t
      BY <3>2, ValueReadsBack
    <3> HIDE DEF b
    <3>6. ValuesBody(ValueRecords, Len(p), b) = Parsed(<<r>> \o q)
      <4>1. ValuesBody(ValueRecords, Len(p), b) =
               IF ValueRecords[Len(p) - 1][t].ok
               THEN Parsed(<<r>> \o ValueRecords[Len(p) - 1][t].out) ELSE Malformed
        BY <3>1, <3>5 DEF ValuesBody
      <4>2. ValueRecords[Len(p) - 1][t].ok /\ ValueRecords[Len(p) - 1][t].out = q
        BY <3>3 DEF Parsed
      <4>3. QED BY <4>1, <4>2
    <3>7. ValueRecords[Len(p)][b] = ValuesBody(ValueRecords, Len(p), b)
      BY <3>1, <3>5, ValueRecordsSteps
    <3>8. QED BY <3>1, <3>4, <3>6, <3>7
  <2>3. QED BY <2>1, <2>2
<1>3. size \in [D -> Nat]
  BY LenProperties
<1>4. Good \in Inductive(D, size)
  BY <1>2 DEF Inductive
<1>5. list \in Good
  <2> HIDE DEF Good, size
  <2>1. QED BY <1>3, <1>4, BySize
<1>6. QED BY <1>1, <1>5

(* What is read as values is what the buffer starts with.                  *)
LEMMA ValuesAreExact ==
  ASSUME NEW count \in Nat, NEW b \in Seq(Cells), ValueRecords[count][b].ok
  PROVE  LET out == ValueRecords[count][b].out IN
         /\ out \in Seq(Recordable) /\ Len(out) = count
         /\ \E left \in Seq(Cells) : b = FlattenSeq(ValuesBytes(out)) \o left
<1> DEFINE Exact(n, c) ==
              LET out == ValueRecords[n][c].out IN
              /\ out \in Seq(Recordable) /\ Len(out) = n
              /\ \E left \in Seq(Cells) : c = FlattenSeq(ValuesBytes(out)) \o left
           size == [n \in Nat |-> n]
           Good == {n \in Nat : \A c \in Seq(Cells) : ValueRecords[n][c].ok => Exact(n, c)}
<1>1. ASSUME NEW n \in Nat, \A m \in Nat : size[m] < size[n] => m \in Good, NEW c \in Seq(Cells),
             ValueRecords[n][c].ok
      PROVE  Exact(n, c)
  <2>1. ValueRecords[n][c] = ValuesBody(ValueRecords, n, c)
    BY ValueRecordsSteps
  <2>2. CASE n = 0
    <3>1. ValueRecords[n][c].out = <<>>
      BY <2>1, <2>2 DEF ValuesBody, Parsed
    <3>2. <<>> \in Seq(Recordable) /\ ValuesBytes(<<>>) = <<>> /\ Len(<<>>) = 0
      BY ValuesCons, EmptySeq
    <3>3. c = <<>> \o c
      BY ConcatEmptySeq
    <3>4. c = FlattenSeq(ValuesBytes(<<>>)) \o c
      BY <3>2, <3>3, FlattenEmpty, Zenon
    <3>5. QED BY <2>2, <3>1, <3>2, <3>4, Zenon
  <2>3. CASE n # 0
    <3> DEFINE rest == Remaining(c)  r == FirstValue(c)  rec == ValueRecord(r)
               q == ValueRecords[n - 1][rest].out  out == <<r>> \o q
    <3>1. c # <<>> /\ ~(Len(c) < c[1] + 3)
      BY <1>1, <2>1, <2>3 DEF ValuesBody, Malformed
    <3>2. ValueRecords[n][c] = IF Behind(c)[2] + 2 <= Len(Behind(c)) /\ ValueRecords[n - 1][rest].ok
                               THEN Parsed(out) ELSE Malformed
      BY <2>1, <2>3, <3>1 DEF ValuesBody
    <3>3. /\ Behind(c)[2] + 2 <= Len(Behind(c)) /\ ValueRecords[n - 1][rest].ok
          /\ ValueRecords[n][c].out = out
      <4>1. Behind(c)[2] + 2 <= Len(Behind(c)) /\ ValueRecords[n - 1][rest].ok
        <5>1. ~Malformed.ok
          BY DEF Malformed
        <5>2. QED BY <1>1, <3>2, <5>1
      <4>2. Parsed(out).out = out
        BY DEF Parsed
      <4>3. QED BY <3>2, <4>1, <4>2
    <3>4. r \in Values /\ rest \in Seq(Cells) /\ rec \in Seq(Cells) /\ c = rec \o rest
      BY <3>1, <3>3, ValueTaken
    <3>5. n - 1 \in Nat /\ n - 1 < n
      BY <2>3
    <3>6. n - 1 \in Good
      BY <1>1, <3>5
    <3>7. PICK left \in Seq(Cells) : /\ q \in Seq(Recordable) /\ Len(q) = n - 1
                                     /\ rest = FlattenSeq(ValuesBytes(q)) \o left
      BY <3>3, <3>4, <3>6
    <3>8. r \in Recordable
      BY <3>4 DEF Recordable
    <3> HIDE DEF rest, r, q
    <3>9. out \in Seq(Recordable) /\ Len(out) = n /\ out # <<>> /\ out[1] = r /\ Tail(out) = q
      BY <3>5, <3>7, <3>8, Headed
    <3> HIDE DEF out
    <3> DEFINE s == ValuesBytes(q)  t == FlattenSeq(s)
    <3>10. s \in Seq(Seq(Cells)) /\ t \in Seq(Cells)
      BY <3>7, ValuesCons, ValuesReadBack
    <3>11. ValuesBytes(out) = <<rec>> \o s
      BY <3>9, ValuesCons
    <3> HIDE DEF rec, s
    <3>12. FlattenSeq(ValuesBytes(out)) = Cat(rec, t)
      <4>1. FlattenSeq(<<rec>> \o s) = rec \o FlattenSeq(s)
        BY <3>4, <3>10, FlattenCons
      <4>2. QED BY <3>11, <4>1, Zenon DEF Cat
    <3>13. c = Cat(rec, Cat(t, left))
      <4>1. rest = t \o left
        BY <3>7 DEF s
      <4>2. QED BY <3>4, <4>1, Zenon DEF Cat
    <3>14. Cat(Cat(rec, t), left) = Cat(rec, Cat(t, left))
      <4> HIDE DEF t
      <4>1. QED BY <3>4, <3>7, <3>10, Associative
    <3>15. c = FlattenSeq(ValuesBytes(out)) \o left
      BY <3>12, <3>13, <3>14, Zenon DEF Cat
    <3>16. QED BY <3>3, <3>7, <3>9, <3>15
  <2>4. QED BY <2>2, <2>3
<1>2. size \in [Nat -> Nat]
  OBVIOUS
<1>3. Good \in Inductive(Nat, size)
  BY <1>1 DEF Inductive
<1>4. count \in Good
  <2> HIDE DEF Good, size
  <2>1. QED BY <1>2, <1>3, BySize
<1>5. QED BY <1>4

(* One more record at the end.                                             *)
LEMMA OneMoreEvent ==
  ASSUME NEW list \in Seq(Sendable), NEW e \in Sendable
  PROVE  /\ Append(list, e) \in Seq(Sendable)
         /\ FlattenSeq(EventRecords(Append(list, e))) = FlattenSeq(EventRecords(list)) \o WatchRecord(e)
<1> DEFINE s == EventRecords(list)  r == WatchRecord(e)  more == Append(list, e)  t == EventRecords(more)
<1>1. /\ s \in Seq(Seq(Cells)) /\ Len(s) = Len(list) /\ Len(list) \in Nat
      /\ \A i \in 1 .. Len(list) : s[i] = WatchRecord(list[i])
  BY RecordsTyped
<1>2. /\ more \in Seq(Sendable) /\ Len(more) = Len(list) + 1
      /\ \A i \in 1 .. Len(list) : more[i] = list[i]
      /\ more[Len(list) + 1] = e
  BY <1>1, AppendProperties
<1> HIDE DEF more
<1>3. /\ t \in Seq(Seq(Cells)) /\ Len(t) = Len(more)
      /\ \A i \in 1 .. Len(more) : t[i] = WatchRecord(more[i])
  BY <1>2, RecordsTyped
<1> HIDE DEF s, t
<1>4. r \in Seq(Cells) /\ t[Len(list) + 1] = r
  BY <1>1, <1>2, <1>3 DEF Sendable
<1>5. \A i \in 1 .. Len(list) : t[i] = s[i]
  BY <1>1, <1>2, <1>3
<1> HIDE DEF r
<1>6. t = Append(s, r)
  <2> DEFINE C == Seq(Cells)  u == Append(s, r)
  <2>1. s \in Seq(C) /\ t \in Seq(C) /\ r \in C
    BY <1>1, <1>3, <1>4
  <2> HIDE DEF C
  <2>2. /\ u \in Seq(C) /\ Len(u) = Len(s) + 1 /\ \A i \in 1 .. Len(s) : u[i] = s[i]
        /\ u[Len(s) + 1] = r
    BY <2>1, AppendProperties
  <2> HIDE DEF u
  <2>3. Len(t) = Len(u) /\ \A i \in 1 .. Len(u) : t[i] = u[i]
    <3>1. Len(t) = Len(u) /\ Len(u) = Len(list) + 1 /\ Len(s) = Len(list)
      BY <1>1, <1>2, <1>3, <2>2
    <3>2. ASSUME NEW i \in 1 .. Len(u) PROVE t[i] = u[i]
      <4>1. CASE i = Len(list) + 1
        BY <1>4, <2>2, <3>1, <4>1
      <4>2. CASE i # Len(list) + 1
        <5>1. i \in 1 .. Len(list)
          BY <1>1, <3>1, <4>2
        <5>2. QED BY <1>5, <2>2, <3>1, <5>1
      <4>3. QED BY <4>1, <4>2
    <3>3. QED BY <3>1, <3>2
  <2>4. t = u
    BY <2>1, <2>2, <2>3, SeqEqual
  <2>5. QED BY <2>4 DEF u
<1>7. FlattenSeq(Append(s, r)) = FlattenSeq(s) \o r
  BY <1>1, <1>4, FlattenAppend
<1>8. QED BY <1>2, <1>6, <1>7 DEF s, t, r, more

(* One more value at the end.                                              *)
LEMMA OneMoreValue ==
  ASSUME NEW list \in Seq(Recordable), NEW v \in Recordable
  PROVE  /\ Append(list, v) \in Seq(Recordable)
         /\ FlattenSeq(ValuesBytes(Append(list, v))) = FlattenSeq(ValuesBytes(list)) \o ValueRecord(v)
<1> DEFINE s == ValuesBytes(list)  r == ValueRecord(v)  more == Append(list, v)  t == ValuesBytes(more)
<1>1. /\ s \in Seq(Seq(Cells)) /\ Len(s) = Len(list) /\ Len(list) \in Nat
      /\ \A i \in 1 .. Len(list) : s[i] = ValueRecord(list[i])
  BY ValuesCons, ElementOfSeq, LenProperties DEF ValuesBytes
<1>2. /\ more \in Seq(Recordable) /\ Len(more) = Len(list) + 1
      /\ \A i \in 1 .. Len(list) : more[i] = list[i]
      /\ more[Len(list) + 1] = v
  BY <1>1, AppendProperties
<1> HIDE DEF more
<1>3. /\ t \in Seq(Seq(Cells)) /\ Len(t) = Len(more)
      /\ \A i \in 1 .. Len(more) : t[i] = ValueRecord(more[i])
  BY <1>2, ValuesCons, LenProperties DEF ValuesBytes
<1> HIDE DEF s, t
<1>4. r \in Seq(Cells) /\ t[Len(list) + 1] = r
  BY <1>1, <1>2, <1>3 DEF Recordable
<1>5. \A i \in 1 .. Len(list) : t[i] = s[i]
  BY <1>1, <1>2, <1>3
<1> HIDE DEF r
<1>6. t = Append(s, r)
  <2> DEFINE C == Seq(Cells)  u == Append(s, r)
  <2>1. s \in Seq(C) /\ t \in Seq(C) /\ r \in C
    BY <1>1, <1>3, <1>4
  <2> HIDE DEF C
  <2>2. /\ u \in Seq(C) /\ Len(u) = Len(s) + 1 /\ \A i \in 1 .. Len(s) : u[i] = s[i]
        /\ u[Len(s) + 1] = r
    BY <2>1, AppendProperties
  <2> HIDE DEF u
  <2>3. Len(t) = Len(u) /\ \A i \in 1 .. Len(u) : t[i] = u[i]
    <3>1. Len(t) = Len(u) /\ Len(u) = Len(list) + 1 /\ Len(s) = Len(list)
      BY <1>1, <1>2, <1>3, <2>2
    <3>2. ASSUME NEW i \in 1 .. Len(u) PROVE t[i] = u[i]
      <4>1. CASE i = Len(list) + 1
        BY <1>4, <2>2, <3>1, <4>1
      <4>2. CASE i # Len(list) + 1
        <5>1. i \in 1 .. Len(list)
          BY <1>1, <3>1, <4>2
        <5>2. QED BY <1>5, <2>2, <3>1, <5>1
      <4>3. QED BY <4>1, <4>2
    <3>3. QED BY <3>1, <3>2
  <2>4. t = u
    BY <2>1, <2>2, <2>3, SeqEqual
  <2>5. QED BY <2>4 DEF u
<1>7. FlattenSeq(Append(s, r)) = FlattenSeq(s) \o r
  BY <1>1, <1>4, FlattenAppend
<1>8. QED BY <1>2, <1>6, <1>7 DEF s, t, r, more

(* A buffer of watch records is read exactly, damaged or not.              *)
LEMMA WatchesAreExact ==
  ASSUME sent \in Seq(Sendable), buf \in Seq(Cells), ~defect => buf = FlattenSeq(EventRecords(sent))
  PROVE  WatchParseIsExact
<1> DEFINE parsed == parse_watch_events[buf]  out == parsed.out
<1>1. ASSUME ~defect
      PROVE  parsed = Parsed([i \in DOMAIN sent |->
               [kind |-> sent[i].kind, name |-> sent[i].name, path |-> Path(sent[i])]])
  <2>1. parsed = Parsed(ReceivedAll(sent))
    BY <1>1, EventsReadBack
  <2> HIDE DEF parsed
  <2>2. QED BY <2>1 DEF ReceivedAll, Received
<1>2. ASSUME parsed.ok
      PROVE  /\ \A i \in DOMAIN out : out[i].name \in Text /\ out[i].path \in Seq(Text)
             /\ \E ext \in [DOMAIN out -> BOOLEAN] : buf = FlattenSeq([i \in DOMAIN out |-> WatchRecord(
                   [kind |-> out[i].kind, name |-> out[i].name, path |-> out[i].path, ext |-> ext[i]])])
  <2>1. out \in Seq(Readable) /\ \E exts \in [DOMAIN out -> BOOLEAN] : buf = FlattenSeq(SentAll(out, exts))
    BY <1>2, EventsAreExact
  <2> HIDE DEF parsed, out
  <2>2. \A i \in DOMAIN out : out[i] \in Readable
    BY <2>1, ElementOfSeq, LenProperties
  <2>3. \A i \in DOMAIN out : out[i].name \in Text /\ out[i].path \in Seq(Text)
    BY <2>2 DEF Readable
  <2>4. QED BY <2>1, <2>3 DEF SentAll, Sent
<1>3. QED BY <1>1, <1>2 DEF WatchParseIsExact

(* A buffer of value records is read exactly, damaged or not.              *)
LEMMA ValueListsAreExact ==
  ASSUME sent \in Seq(Recordable), buf \in Seq(Cells), ~defect => buf = FlattenSeq(ValuesBytes(sent))
  PROVE  ValuesParseIsExact
<1> DEFINE parsed == parse_value_records(Len(sent), buf)  out == parsed.out
<1>1. Len(sent) \in Nat /\ DOMAIN sent = 1 .. Len(sent) /\ parsed = ValueRecords[Len(sent)][buf]
  BY LenProperties DEF parse_value_records
<1>2. ASSUME ~defect PROVE parsed = Parsed(sent)
  BY <1>1, <1>2, ValuesReadBack
<1>3. ASSUME parsed.ok
      PROVE  /\ Len(out) = Len(sent)
             /\ IsPrefix(FlattenSeq([i \in DOMAIN sent |-> ValueRecord(out[i])]), buf)
  <2> DEFINE count == Len(sent)
  <2>1. /\ ValueRecords[count][buf].out \in Seq(Recordable) /\ Len(ValueRecords[count][buf].out) = count
        /\ \E left \in Seq(Cells) : buf = FlattenSeq(ValuesBytes(ValueRecords[count][buf].out)) \o left
    <3>1. count \in Nat /\ ValueRecords[count][buf].ok
      BY <1>1, <1>3
    <3> HIDE DEF count
    <3>2. QED BY <3>1, ValuesAreExact
  <2>2. /\ out \in Seq(Recordable) /\ Len(out) = Len(sent)
        /\ \E left \in Seq(Cells) : buf = FlattenSeq(ValuesBytes(out)) \o left
    BY <1>1, <2>1
  <2> HIDE DEF parsed, out, count
  <2>3. DOMAIN out = DOMAIN sent
    BY <1>1, <2>2, LenProperties
  <2>4. [i \in DOMAIN sent |-> ValueRecord(out[i])] = ValuesBytes(out)
    BY <2>3 DEF ValuesBytes
  <2> DEFINE front == FlattenSeq(ValuesBytes(out))
  <2>5. front \in Seq(Cells)
    BY <2>2, ValuesReadBack
  <2>6. PICK left \in Seq(Cells) : buf = front \o left
    BY <2>2
  <2> HIDE DEF front
  <2>7. IsPrefix(front, buf)
    BY <2>5, <2>6, FrontIsPrefix, Zenon
  <2>8. QED BY <2>2, <2>4, <2>7 DEF front
<1>4. QED BY <1>2, <1>3 DEF ValuesParseIsExact


-----------------------------------------------------------------------------
(* Value data: what Trimmed and strings take from a buffer, and decode.    *)
(* A byte sequence holds no NUL, or nothing that is not UTF-8, when none   *)
(* of its places does.                                                     *)
LEMMA CellByCell ==
  ASSUME NEW b \in Seq(Cells)
  PROVE  /\ NUL \notin ToSet(b) <=> \A i \in 1 .. Len(b) : b[i] # NUL
         /\ NUL \notin ToSet(b) <=> b \in Text
         /\ Utf8(b) <=> b \in Seq(Cells \ Garbled)
         /\ b \in Utf8Text <=> Utf8(b) /\ NUL \notin ToSet(b)
<1>1. /\ DOMAIN b = 1 .. Len(b) /\ Len(b) \in Nat
      /\ \A i \in 1 .. Len(b) : b[i] \in Cells
  BY ElementOfSeq, LenProperties
<1>2. ToSet(b) = {b[i] : i \in 1 .. Len(b)}
  BY <1>1 DEF ToSet
<1>3. ASSUME NEW S, S \subseteq Cells
      PROVE  b \in Seq(S) <=> \A i \in 1 .. Len(b) : b[i] \in S
  <2>1. ASSUME b \in Seq(S) PROVE \A i \in 1 .. Len(b) : b[i] \in S
    BY <2>1, ElementOfSeq
  <2>2. ASSUME \A i \in 1 .. Len(b) : b[i] \in S PROVE b \in Seq(S)
    <3>1. b = [i \in 1 .. Len(b) |-> b[i]]
      BY <1>1
    <3>2. QED BY <1>1, <2>2, <3>1
  <2>3. QED BY <2>1, <2>2
<1>4. NUL \notin ToSet(b) <=> \A i \in 1 .. Len(b) : b[i] # NUL
  BY <1>2
<1>5. Utf8(b) <=> \A i \in 1 .. Len(b) : b[i] \notin Garbled
  BY <1>2 DEF Utf8
<1>6. b \in Text <=> \A i \in 1 .. Len(b) : b[i] \in Cells \ {NUL}
  <2> DEFINE T == Cells \ {NUL}
  <2>1. T \subseteq Cells /\ Text = Seq(T)
    BY DEF Text
  <2> HIDE DEF T
  <2>2. b \in Text <=> \A i \in 1 .. Len(b) : b[i] \in T
    BY <1>3, <2>1
  <2>3. QED BY <2>2 DEF T
<1>7. b \in Seq(Cells \ Garbled) <=> \A i \in 1 .. Len(b) : b[i] \in Cells \ Garbled
  BY <1>3
<1>8. b \in Utf8Text <=> \A i \in 1 .. Len(b) : b[i] \in Cells \ (Garbled \cup {NUL})
  <2> DEFINE T == Cells \ (Garbled \cup {NUL})
  <2>1. T \subseteq Cells /\ Utf8Text = Seq(T)
    BY DEF Utf8Text
  <2> HIDE DEF T
  <2>2. b \in Utf8Text <=> \A i \in 1 .. Len(b) : b[i] \in T
    BY <1>3, <2>1
  <2>3. QED BY <2>2 DEF T
<1>9. NUL \notin ToSet(b) <=> b \in Text
  BY <1>1, <1>4, <1>6
<1>10. Utf8(b) <=> b \in Seq(Cells \ Garbled)
  BY <1>1, <1>5, <1>7
<1>11. b \in Utf8Text <=> Utf8(b) /\ NUL \notin ToSet(b)
  BY <1>1, <1>4, <1>5, <1>8
<1>12. QED BY <1>4, <1>9, <1>10, <1>11

(* What Trimmed keeps, and what it leaves.                                 *)
LEMMA TrimmedTaken ==
  ASSUME NEW b \in Seq(Cells)
  PROVE  \E n \in 0 .. Len(b) : /\ Trimmed(b) = Take(b, n)
                                /\ n > 0 => b[n] # NUL
                                /\ \A i \in n + 1 .. Len(b) : b[i] = NUL
<1> DEFINE Kept(n) == (n > 0 => b[n] # NUL) /\ \A i \in n + 1 .. Len(b) : b[i] = NUL
           S == {n \in Nat : \A i \in n + 1 .. Len(b) : b[i] = NUL}
<1>1. Len(b) \in Nat
  BY LenProperties
<1>2. Len(b) \in S
  BY <1>1
<1>3. PICK n \in S : \A m \in S : n <= m
  <2>1. S \in SUBSET Nat /\ S # {}
    BY <1>2
  <2> HIDE DEF S
  <2>2. QED BY <2>1, Least
<1>4. n \in 0 .. Len(b)
  BY <1>1, <1>2, <1>3
<1>5. ASSUME n > 0 PROVE b[n] # NUL
  <2>1. SUFFICES ASSUME b[n] = NUL PROVE FALSE
    OBVIOUS
  <2>2. n - 1 \in S
    BY <1>1, <1>3, <1>4, <1>5, <2>1
  <2>3. QED BY <1>3, <1>4, <2>2
<1>6. Kept(n)
  BY <1>3, <1>5
<1> DEFINE m == CHOOSE k \in 0 .. Len(b) : Kept(k)
<1>7. m \in 0 .. Len(b) /\ Kept(m)
  <2> HIDE DEF Kept
  <2>1. QED BY <1>4, <1>6
<1>8. Trimmed(b) = Take(b, m)
  BY DEF Trimmed
<1>9. QED
  <2> HIDE DEF m
  <2>1. QED BY <1>7, <1>8

(* Where the first run ends: at a NUL, or at the end.                      *)
LEMMA RunTaken ==
  ASSUME NEW b \in Seq(Cells)
  PROVE  \E n \in 0 .. Len(b) : /\ FirstRun(b) = Take(b, n)
                                /\ n < Len(b) => b[n + 1] = NUL
                                /\ \A i \in 1 .. n : b[i] # NUL
<1> DEFINE Run(n) == (n < Len(b) => b[n + 1] = NUL) /\ \A i \in 1 .. n : b[i] # NUL
           S == {n \in 0 .. Len(b) : n < Len(b) => b[n + 1] = NUL}
<1>1. Len(b) \in Nat
  BY LenProperties
<1>2. Len(b) \in S
  BY <1>1
<1>3. PICK n \in S : \A m \in S : n <= m
  <2>1. S \in SUBSET Nat /\ S # {}
    BY <1>1, <1>2
  <2> HIDE DEF S
  <2>2. QED BY <2>1, Least
<1>4. n \in 0 .. Len(b)
  BY <1>3
<1>5. ASSUME NEW i \in 1 .. n PROVE b[i] # NUL
  <2>1. SUFFICES ASSUME b[i] = NUL PROVE FALSE
    OBVIOUS
  <2>2. i - 1 \in S
    BY <1>1, <1>4, <2>1
  <2>3. n <= i - 1
    <3> HIDE DEF S
    <3>1. QED BY <1>3, <2>2
  <2>4. n \in Nat /\ i \in Nat /\ i <= n
    BY <1>1, <1>4
  <2>5. QED BY <2>3, <2>4
<1>6. Run(n)
  BY <1>3, <1>5
<1> DEFINE m == CHOOSE k \in 0 .. Len(b) : Run(k)
<1>7. m \in 0 .. Len(b) /\ Run(m)
  <2> HIDE DEF Run
  <2>1. QED BY <1>4, <1>6
<1>8. FirstRun(b) = Take(b, m)
  BY DEF FirstRun
<1>9. QED
  <2> HIDE DEF m
  <2>1. QED BY <1>7, <1>8

(* A cell in front of a NUL, and the NUL behind it.                        *)
LEMMA Terminated ==
  ASSUME NEW v \in Seq(Cells)
  PROVE  LET b == Append(v, NUL) IN
         /\ b \in Seq(Cells) /\ Len(b) = Len(v) + 1 /\ Len(v) \in Nat
         /\ \A i \in 1 .. Len(v) : b[i] = v[i]
         /\ b[Len(v) + 1] = NUL /\ Take(b, Len(v)) = v
         /\ b = v \o <<NUL>>
<1> DEFINE b == Append(v, NUL)
<1>1. NUL \in Cells /\ Len(v) \in Nat
  BY CellsAreNumbers, LenProperties
<1>2. /\ b \in Seq(Cells) /\ Len(b) = Len(v) + 1
      /\ \A i \in 1 .. Len(v) : b[i] = v[i]
      /\ b[Len(v) + 1] = NUL
  BY <1>1, AppendProperties
<1>3. b = v \o <<NUL>>
  BY <1>1, AppendIsConcat
<1>4. Take(b, Len(v)) = v
  <2>1. <<NUL>> \in Seq(Cells)
    BY <1>1
  <2> DEFINE one == <<NUL>>
  <2>2. one \in Seq(Cells)
    BY <2>1
  <2> HIDE DEF one
  <2>3. Take(v \o one, Len(v)) = v
    BY <2>2, PartCells
  <2>4. QED BY <1>3, <2>3 DEF one
<1>5. QED BY <1>1, <1>2, <1>3, <1>4

(* A string that was stored is read back: the NUL behind it is taken off.  *)
LEMMA StringReadsBack ==
  ASSUME NEW v \in Utf8Text
  PROVE  /\ Append(v, NUL) \in Seq(Cells) /\ Utf8(Append(v, NUL)) /\ NUL \notin ToSet(v)
         /\ Trimmed(Append(v, NUL)) = v
<1> DEFINE b == Append(v, NUL)
<1>1. v \in Seq(Cells) /\ NUL \in Cells /\ NUL \notin Garbled
  BY CellsAreNumbers DEF Utf8Text
<1>2. /\ b \in Seq(Cells) /\ Len(b) = Len(v) + 1 /\ Len(v) \in Nat
      /\ \A i \in 1 .. Len(v) : b[i] = v[i]
      /\ b[Len(v) + 1] = NUL /\ Take(b, Len(v)) = v
  BY <1>1, Terminated
<1>3. NUL \notin ToSet(v) /\ Utf8(v) /\ \A i \in 1 .. Len(v) : v[i] # NUL
  BY <1>1, CellByCell
<1>4. Utf8(b)
  <2>1. v \in Seq(Cells \ Garbled) /\ NUL \in Cells \ Garbled
    BY <1>1, <1>3, CellByCell
  <2>2. b \in Seq(Cells \ Garbled)
    BY <2>1, AppendProperties
  <2> HIDE DEF b
  <2>3. QED BY <1>2, <2>2, CellByCell
<1> HIDE DEF b
<1>5. Trimmed(b) = v
  <2>1. PICK n \in 0 .. Len(b) : /\ Trimmed(b) = Take(b, n)
                                 /\ n > 0 => b[n] # NUL
                                 /\ \A i \in n + 1 .. Len(b) : b[i] = NUL
    BY <1>2, TrimmedTaken
  <2>2. n # Len(v) + 1
    BY <1>2, <2>1
  <2>3. ~(n < Len(v))
    <3>1. SUFFICES ASSUME n < Len(v) PROVE FALSE
      OBVIOUS
    <3>2. Len(v) \in n + 1 .. Len(b) /\ Len(v) \in 1 .. Len(v)
      BY <1>2, <3>1
    <3>3. b[Len(v)] = NUL /\ b[Len(v)] = v[Len(v)]
      BY <1>2, <2>1, <3>2
    <3>4. QED BY <1>3, <3>2, <3>3
  <2>4. n = Len(v)
    BY <1>2, <2>2, <2>3
  <2>5. QED BY <1>2, <2>1, <2>4
<1>6. QED BY <1>2, <1>3, <1>4, <1>5 DEF b

(* A string that is read is what its bytes start with, up to NULs.         *)
LEMMA StringIsExact ==
  ASSUME NEW b \in Seq(Cells), Utf8(b), NUL \notin ToSet(Trimmed(b))
  PROVE  /\ Trimmed(b) \in Utf8Text /\ IsPrefix(Trimmed(b), b)
         /\ ToSet(Drop(b, Len(Trimmed(b)))) \subseteq {NUL}
<1>1. Len(b) \in Nat
  BY LenProperties
<1>2. PICK n \in 0 .. Len(b) : /\ Trimmed(b) = Take(b, n)
                               /\ n > 0 => b[n] # NUL
                               /\ \A i \in n + 1 .. Len(b) : b[i] = NUL
  BY TrimmedTaken
<1> DEFINE v == Take(b, n)  w == Drop(b, n)
<1>3. /\ n \in Nat /\ v \in Seq(Cells) /\ Len(v) = n /\ w \in Seq(Cells) /\ Len(w) = Len(b) - n
      /\ \A i \in 1 .. n : v[i] = b[i]
      /\ \A i \in 1 .. Len(b) - n : w[i] = b[n + i]
      /\ b = v \o w
  <2>1. n \in Nat /\ n <= Len(b)
    BY <1>1
  <2>2. QED BY <2>1, CutCells
<1>4. v = Trimmed(b)
  BY <1>2
<1> HIDE DEF v, w
<1>5. v \in Utf8Text
  <2>1. \A i \in 1 .. Len(v) : v[i] \in ToSet(b)
    <3>1. DOMAIN b = 1 .. Len(b)
      BY LenProperties
    <3>2. ToSet(b) = {b[i] : i \in 1 .. Len(b)}
      BY <3>1 DEF ToSet
    <3>3. \A i \in 1 .. Len(v) : i \in 1 .. Len(b) /\ v[i] = b[i]
      BY <1>1, <1>3
    <3>4. QED BY <3>2, <3>3
  <2>2. ToSet(v) \subseteq ToSet(b)
    <3>1. DOMAIN v = 1 .. Len(v)
      BY <1>3, LenProperties
    <3>2. QED BY <2>1, <3>1 DEF ToSet
  <2>3. Utf8(v)
    BY <2>2 DEF Utf8
  <2>4. QED BY <1>3, <1>4, <2>3, CellByCell
<1>6. IsPrefix(v, b)
  BY <1>3, FrontIsPrefix, Zenon
<1>7. ToSet(w) \subseteq {NUL}
  <2>1. DOMAIN w = 1 .. Len(w)
    BY <1>3, LenProperties
  <2>2. ASSUME NEW i \in 1 .. Len(w) PROVE w[i] = NUL
    <3>1. i \in 1 .. Len(b) - n /\ n + i \in n + 1 .. Len(b)
      BY <1>1, <1>3
    <3>2. QED BY <1>2, <1>3, <3>1
  <2>3. QED BY <2>1, <2>2 DEF ToSet
<1>8. QED BY <1>3, <1>4, <1>5, <1>6, <1>7 DEF w

(* Reversed twice, bytes are as they were.                                 *)
LEMMA ReversedTwice ==
  ASSUME NEW b \in Seq(Cells)
  PROVE  Reverse(b) \in Seq(Cells) /\ Len(Reverse(b)) = Len(b) /\ Reverse(Reverse(b)) = b
<1>1. ASSUME NEW c \in Seq(Cells)
      PROVE  /\ Reverse(c) \in Seq(Cells) /\ Len(Reverse(c)) = Len(c) /\ Len(c) \in Nat
             /\ \A i \in 1 .. Len(c) : Reverse(c)[i] = c[(Len(c) - i) + 1]
  <2>1. Len(c) \in Nat /\ \A i \in 1 .. Len(c) : c[i] \in Cells
    BY LenProperties, ElementOfSeq
  <2>2. \A i \in 1 .. Len(c) : c[(Len(c) - i) + 1] \in Cells
    BY <2>1
  <2>3. QED BY <2>1, <2>2 DEF Reverse
<1> DEFINE r == Reverse(b)  s == Reverse(r)
<1>2. /\ r \in Seq(Cells) /\ Len(r) = Len(b) /\ Len(b) \in Nat
      /\ \A i \in 1 .. Len(b) : r[i] = b[(Len(b) - i) + 1]
  BY <1>1
<1> HIDE DEF r
<1>3. /\ s \in Seq(Cells) /\ Len(s) = Len(b)
      /\ \A i \in 1 .. Len(b) : s[i] = r[(Len(b) - i) + 1]
  BY <1>1, <1>2
<1> HIDE DEF s
<1>4. ASSUME NEW i \in 1 .. Len(b) PROVE s[i] = b[i]
  <2>1. (Len(b) - i) + 1 \in 1 .. Len(b) /\ (Len(b) - ((Len(b) - i) + 1)) + 1 = i
    BY <1>2
  <2>2. QED BY <1>2, <1>3, <2>1
<1>5. s = b
  BY <1>3, <1>4, SeqEqual
<1>6. QED BY <1>2, <1>5 DEF r, s

(* What is behind the NUL that ends the first run.                         *)
BehindRun(b) == Drop(b, Len(FirstRun(b)) + 1)

(* A buffer is its first run and, when it does not end there, a NUL and    *)
(* what is behind it.                                                      *)
LEMMA RunAndRest ==
  ASSUME NEW b \in Seq(Cells), b # <<>>
  PROVE  /\ FirstRun(b) \in Text /\ BehindRun(b) \in Seq(Cells) /\ Len(BehindRun(b)) < Len(b)
         /\ \/ b = FirstRun(b) /\ BehindRun(b) = <<>>
            \/ b = FirstRun(b) \o (<<NUL>> \o BehindRun(b))
<1>1. Len(b) \in Nat \ {0} /\ \A i \in 1 .. Len(b) : b[i] \in Cells
  BY HeadAndTail, ElementOfSeq
<1>2. PICK n \in 0 .. Len(b) : /\ FirstRun(b) = Take(b, n)
                               /\ n < Len(b) => b[n + 1] = NUL
                               /\ \A i \in 1 .. n : b[i] # NUL
  BY RunTaken
<1> DEFINE v == Take(b, n)  w == Drop(b, n)  rest == Drop(b, n + 1)
<1>3. /\ n \in Nat /\ v \in Seq(Cells) /\ Len(v) = n /\ w \in Seq(Cells) /\ Len(w) = Len(b) - n
      /\ \A i \in 1 .. n : v[i] = b[i]
      /\ \A i \in 1 .. Len(b) - n : w[i] = b[n + i]
      /\ b = v \o w
  <2>1. n \in Nat /\ n <= Len(b)
    BY <1>1
  <2>2. QED BY <2>1, CutCells
<1>4. FirstRun(b) = v /\ BehindRun(b) = rest
  BY <1>2, <1>3 DEF BehindRun
<1>5. v \in Text
  <2> HIDE DEF v
  <2>1. \A i \in 1 .. Len(v) : v[i] # NUL
    BY <1>2, <1>3
  <2>2. QED BY <1>3, <2>1, CellByCell
<1>6. CASE n = Len(b)
  <2>1. rest = <<>>
    BY <1>1, <1>6, SubSeqEmpty DEF Drop
  <2>2. b = v
    BY <1>1, <1>6, SubSeqFull DEF Take
  <2>3. rest \in Seq(Cells) /\ Len(rest) < Len(b)
    <3> HIDE DEF rest
    <3>1. QED BY <1>1, <2>1, EmptySeq
  <2>4. QED BY <1>4, <1>5, <2>1, <2>2, <2>3
<1>7. CASE n # Len(b)
  <2>1. n + 1 \in Nat /\ n + 1 <= Len(b)
    <3>1. n \in Nat /\ n <= Len(b) /\ Len(b) \in Nat
      BY <1>1
    <3>2. QED BY <1>7, <3>1
  <2>2. /\ rest \in Seq(Cells) /\ Len(rest) = Len(b) - (n + 1)
        /\ \A i \in 1 .. Len(b) - (n + 1) : rest[i] = b[(n + 1) + i]
    BY <2>1, CutCells
  <2> HIDE DEF v, w, rest
  <2>3. w[1] = NUL /\ Len(w) = Len(rest) + 1
    BY <1>1, <1>2, <1>3, <2>1, <2>2
  <2>4. \A i \in 1 .. Len(rest) : w[i + 1] = rest[i]
    <3>1. ASSUME NEW i \in 1 .. Len(rest) PROVE w[i + 1] = rest[i]
      <4>1. i \in 1 .. Len(b) - (n + 1) /\ i + 1 \in 1 .. Len(b) - n /\ n + (i + 1) = (n + 1) + i
        BY <1>1, <1>3, <2>2
      <4>2. w[i + 1] = b[n + (i + 1)]
        BY <1>3, <4>1
      <4>3. rest[i] = b[(n + 1) + i]
        BY <2>2, <4>1
      <4>4. QED BY <4>1, <4>2, <4>3
    <3>2. QED BY <3>1
  <2>5. w = <<NUL>> \o rest
    BY <1>3, <2>2, <2>3, <2>4, Shifted, CellsAreNumbers
  <2>6. b = v \o (<<NUL>> \o rest)
    BY <1>3, <2>5, Zenon
  <2>7. Len(rest) < Len(b)
    BY <1>1, <1>3, <2>2
  <2>8. QED BY <1>4, <1>5, <2>2, <2>6, <2>7, Zenon
<1>8. QED BY <1>6, <1>7

(* A run in front of a NUL is found.                                       *)
LEMMA RunFound ==
  ASSUME NEW v \in Text, NEW t \in Seq(Cells), NEW b, b = v \o (<<NUL>> \o t)
  PROVE  b \in Seq(Cells) /\ b # <<>> /\ FirstRun(b) = v /\ BehindRun(b) = t
<1> DEFINE end == <<NUL>> \o t
<1>1. v \in Seq(Cells) /\ NUL \in Cells /\ Len(v) \in Nat /\ \A i \in 1 .. Len(v) : v[i] # NUL
  <2>1. v \in Seq(Cells)
    BY TextIsCells
  <2>2. QED BY <2>1, CellsAreNumbers, CellByCell, LenProperties
<1>2. end \in Seq(Cells) /\ Len(end) = Len(t) + 1 /\ end[1] = NUL /\ Tail(end) = t /\ Len(t) \in Nat
  BY <1>1, Headed, LenProperties
<1> HIDE DEF end
<1>3. b = v \o end
  BY DEF end
<1> DEFINE c == v \o end
<1>4. /\ c \in Seq(Cells) /\ Len(c) = Len(v) + Len(end)
      /\ \A i \in 1 .. Len(v) : c[i] = v[i]
      /\ \A i \in 1 .. Len(end) : c[Len(v) + i] = end[i]
  <2>1. v \in Seq(Cells) /\ end \in Seq(Cells)
    BY <1>1, <1>2
  <2>2. QED BY <2>1, Joined
<1> HIDE DEF c
<1>5. /\ b \in Seq(Cells) /\ Len(b) = Len(v) + Len(t) + 1
      /\ \A i \in 1 .. Len(v) : b[i] = v[i]
      /\ \A i \in 1 .. Len(end) : b[Len(v) + i] = end[i]
  <2>1. b = c
    BY <1>3 DEF c
  <2>2. QED BY <1>1, <1>2, <1>4, <2>1
<1>6. Take(b, Len(v)) = v
  BY <1>1, <1>2, <1>3, PartCells
<1>7. b[Len(v) + 1] = NUL
  BY <1>2, <1>5
<1>8. FirstRun(b) = v
  <2>1. PICK n \in 0 .. Len(b) : /\ FirstRun(b) = Take(b, n)
                                 /\ n < Len(b) => b[n + 1] = NUL
                                 /\ \A i \in 1 .. n : b[i] # NUL
    BY <1>5, RunTaken
  <2>2. ~(n > Len(v))
    <3>1. SUFFICES ASSUME n > Len(v) PROVE FALSE
      OBVIOUS
    <3>2. Len(v) + 1 \in 1 .. n
      BY <1>1, <1>5, <3>1
    <3>3. QED BY <1>7, <2>1, <3>2
  <2>3. ~(n < Len(v))
    <3>1. SUFFICES ASSUME n < Len(v) PROVE FALSE
      OBVIOUS
    <3>2. n + 1 \in 1 .. Len(v) /\ n < Len(b)
      BY <1>1, <1>2, <1>5, <3>1
    <3>3. QED BY <1>1, <1>5, <2>1, <3>2
  <2>4. n = Len(v)
    BY <1>1, <1>5, <2>2, <2>3
  <2>5. QED BY <1>6, <2>1, <2>4
<1>9. BehindRun(b) = t
  <2> DEFINE rest == Drop(b, Len(v) + 1)
  <2>1. Len(v) + 1 \in Nat /\ Len(v) + 1 <= Len(b)
    BY <1>1, <1>2, <1>5
  <2>2. /\ rest \in Seq(Cells) /\ Len(rest) = Len(b) - (Len(v) + 1)
        /\ \A i \in 1 .. Len(b) - (Len(v) + 1) : rest[i] = b[(Len(v) + 1) + i]
    BY <1>5, <2>1, CutCells
  <2> HIDE DEF rest
  <2>3. Len(rest) = Len(t)
    BY <1>1, <1>2, <1>5, <2>2
  <2>4. \A i \in 1 .. Len(t) : rest[i] = t[i]
    <3>1. ASSUME NEW i \in 1 .. Len(t) PROVE rest[i] = t[i]
      <4>1. i + 1 \in 1 .. Len(end) /\ i \in 1 .. Len(b) - (Len(v) + 1) /\ (Len(v) + 1) + i = Len(v) + (i + 1)
        BY <1>1, <1>2, <1>5
      <4>2. rest[i] = end[i + 1]
        <5>1. rest[i] = b[(Len(v) + 1) + i]
          BY <2>2, <4>1
        <5>2. b[Len(v) + (i + 1)] = end[i + 1]
          BY <1>5, <4>1
        <5>3. QED BY <4>1, <5>1, <5>2
      <4>3. end[i + 1] = t[i]
        <5>1. end # <<>>
          BY <1>2
        <5>2. Tail(end)[i] = end[i + 1]
          BY <1>2, <5>1, HeadAndTail
        <5>3. QED BY <1>2, <5>2
      <4>4. QED BY <4>2, <4>3
    <3>2. QED BY <3>1
  <2>5. rest = t
    BY <2>2, <2>3, <2>4, SeqEqual
  <2>6. QED BY <1>8, <2>5 DEF BehindRun, rest
<1>10. b # <<>>
  BY <1>1, <1>2, <1>5
<1>11. QED BY <1>5, <1>8, <1>9, <1>10

(* The strings of a list as strings reads them: not empty, without a NUL.  *)
Runs == Text \ {<<>>}

(* One step of strings: a run, and the strings behind it.                  *)
StringsBody(f, b) ==
    IF b = <<>> THEN <<>>
    ELSE IF FirstRun(b) = <<>> THEN f[BehindRun(b)] ELSE <<FirstRun(b)>> \o f[BehindRun(b)]

(* strings returns runs.                                                   *)
LEMMA StringsBodyTyped ==
  ASSUME NEW f \in [Seq(Cells) -> Seq(Runs)], NEW b \in Seq(Cells)
  PROVE  StringsBody(f, b) \in Seq(Runs)
<1>1. CASE b = <<>>
  BY <1>1, EmptySeq DEF StringsBody
<1>2. CASE b # <<>>
  <2> DEFINE run == FirstRun(b)  more == f[BehindRun(b)]
  <2>1. run \in Text /\ more \in Seq(Runs)
    BY <1>2, RunAndRest
  <2>2. StringsBody(f, b) = IF run = <<>> THEN more ELSE <<run>> \o more
    BY <1>2 DEF StringsBody
  <2> HIDE DEF run, more
  <2>3. ASSUME run # <<>> PROVE <<run>> \o more \in Seq(Runs)
    <3>1. run \in Runs
      BY <2>1, <2>3 DEF Runs
    <3>2. QED BY <2>1, <3>1, Headed
  <2>4. QED BY <2>1, <2>2, <2>3
<1>3. QED BY <1>1, <1>2

(* strings satisfies the equation it is defined by.                        *)
LEMMA StringsSteps ==
  /\ strings \in [Seq(Cells) -> Seq(Runs)]
  /\ \A b \in Seq(Cells) : strings[b] = StringsBody(strings, b)
<1> DEFINE D == Seq(Cells)
           R == Seq(Runs)
           step(g) == [rest \in D |-> StringsBody(g, rest)]
           all == [g \in [D -> R] |-> step(g)]
           size == [b \in D |-> Len(b)]
<1>1. size \in [D -> Nat] /\ R # {}
  <2>1. <<>> \in R
    BY EmptySeq
  <2>2. QED BY <2>1, LenProperties
<1>2. \A g, h : \A b \in D : (\A a \in D : size[a] < size[b] => g[a] = h[a]) => step(g)[b] = step(h)[b]
  <2>1. ASSUME NEW g, NEW h, NEW b \in D, \A a \in D : size[a] < size[b] => g[a] = h[a]
        PROVE  StringsBody(g, b) = StringsBody(h, b)
    <3>1. CASE b # <<>>
      <4>1. BehindRun(b) \in D /\ Len(BehindRun(b)) < Len(b)
        BY <3>1, RunAndRest
      <4>2. g[BehindRun(b)] = h[BehindRun(b)]
        BY <2>1, <4>1
      <4>3. QED BY <4>2 DEF StringsBody
    <3>2. CASE b = <<>>
      BY <3>2 DEF StringsBody
    <3>3. QED BY <3>1, <3>2
  <2>2. QED BY <2>1
<1>3. all \in Recursions(D, R, size)
  <2>1. ASSUME NEW g \in [D -> R] PROVE step(g) \in [D -> R]
    BY StringsBodyTyped
  <2> HIDE DEF R, D, step, size
  <2>2. all \in [[D -> R] -> [D -> R]] /\ \A g \in [D -> R] : all[g] = step(g)
    BY <2>1
  <2> HIDE DEF all
  <2>3. \A g, h \in [D -> R] : \A n \in D :
           (\A m \in D : size[m] < size[n] => g[m] = h[m]) => all[g][n] = all[h][n]
    BY <1>2, <2>2
  <2>4. QED BY <2>2, <2>3 DEF Recursions
<1>4. PICK f \in [D -> R] : f = step(f)
  <2> HIDE DEF R, D, size, step
  <2>1. Solvable(all)
    <3> HIDE DEF all
    <3>1. QED BY <1>1, <1>3, RecursiveOnSize
  <2>2. QED BY <2>1 DEF Solvable
<1>5. strings = step(strings)
  <2>1. strings = CHOOSE g : g = step(g)
    BY DEF strings, StringsBody, BehindRun
  <2>2. QED BY <1>4, <2>1
<1>6. \A b \in D : strings[b] = f[b]
  <2> DEFINE Same == {b \in D : strings[b] = f[b]}
  <2>1. ASSUME NEW b \in D, \A a \in D : size[a] < size[b] => a \in Same
        PROVE  b \in Same
    <3>1. step(strings)[b] = step(f)[b]
      <4> HIDE DEF step, size
      <4>1. QED BY <1>2, <2>1
    <3>2. QED BY <1>4, <1>5, <3>1
  <2>2. Same \in Inductive(D, size)
    BY <2>1 DEF Inductive
  <2> HIDE DEF Same, size, D
  <2>3. \A b \in D : b \in Same
    BY <1>1, <2>2, BySize
  <2>4. QED BY <2>3 DEF Same
<1>7. strings = f
  <2> HIDE DEF step
  <2>1. strings = [b \in D |-> strings[b]]
    BY <1>5 DEF step
  <2>2. f = [b \in D |-> f[b]]
    BY <1>4
  <2>3. QED BY <1>6, <2>1, <2>2
<1>8. QED BY <1>4, <1>5, <1>7

(* One step of Others.                                                     *)
OthersBody(f, b) ==
    IF b = <<>> THEN <<>>
    ELSE IF b[1] = NUL THEN f[Tail(b)] ELSE <<b[1]>> \o f[Tail(b)]

(* Others returns bytes.                                                   *)
LEMMA OthersBodyTyped ==
  ASSUME NEW f \in [Seq(Cells) -> Seq(Cells)], NEW b \in Seq(Cells)
  PROVE  OthersBody(f, b) \in Seq(Cells)
<1>1. CASE b = <<>>
  BY <1>1, EmptySeq DEF OthersBody
<1>2. CASE b # <<>>
  <2> DEFINE more == f[Tail(b)]  c == b[1]
  <2>1. c \in Cells /\ more \in Seq(Cells)
    BY <1>2, HeadAndTail
  <2>2. OthersBody(f, b) = IF c = NUL THEN more ELSE <<c>> \o more
    BY <1>2 DEF OthersBody
  <2> HIDE DEF c, more
  <2>3. <<c>> \o more \in Seq(Cells)
    BY <2>1, Headed
  <2>4. QED BY <2>1, <2>2, <2>3
<1>3. QED BY <1>1, <1>2

(* Others satisfies the equation it is defined by.                         *)
LEMMA OthersSteps ==
  /\ Others \in [Seq(Cells) -> Seq(Cells)]
  /\ \A b \in Seq(Cells) : Others[b] = OthersBody(Others, b)
<1> DEFINE D == Seq(Cells)
           R == Seq(Cells)
           step(g) == [rest \in D |-> OthersBody(g, rest)]
           all == [g \in [D -> R] |-> step(g)]
           size == [b \in D |-> Len(b)]
<1>1. size \in [D -> Nat] /\ R # {}
  <2>1. <<>> \in R
    BY EmptySeq
  <2>2. QED BY <2>1, LenProperties
<1>2. \A g, h : \A b \in D : (\A a \in D : size[a] < size[b] => g[a] = h[a]) => step(g)[b] = step(h)[b]
  <2>1. ASSUME NEW g, NEW h, NEW b \in D, \A a \in D : size[a] < size[b] => g[a] = h[a]
        PROVE  OthersBody(g, b) = OthersBody(h, b)
    <3>1. CASE b # <<>>
      <4>1. Tail(b) \in D /\ Len(Tail(b)) < Len(b)
        BY <3>1, HeadAndTail
      <4>2. g[Tail(b)] = h[Tail(b)]
        BY <2>1, <4>1
      <4>3. QED BY <4>2 DEF OthersBody
    <3>2. CASE b = <<>>
      BY <3>2 DEF OthersBody
    <3>3. QED BY <3>1, <3>2
  <2>2. QED BY <2>1
<1>3. all \in Recursions(D, R, size)
  <2>1. ASSUME NEW g \in [D -> R] PROVE step(g) \in [D -> R]
    BY OthersBodyTyped
  <2> HIDE DEF R, D, step, size
  <2>2. all \in [[D -> R] -> [D -> R]] /\ \A g \in [D -> R] : all[g] = step(g)
    BY <2>1
  <2> HIDE DEF all
  <2>3. \A g, h \in [D -> R] : \A n \in D :
           (\A m \in D : size[m] < size[n] => g[m] = h[m]) => all[g][n] = all[h][n]
    BY <1>2, <2>2
  <2>4. QED BY <2>2, <2>3 DEF Recursions
<1>4. PICK f \in [D -> R] : f = step(f)
  <2> HIDE DEF R, D, size, step
  <2>1. Solvable(all)
    <3> HIDE DEF all
    <3>1. QED BY <1>1, <1>3, RecursiveOnSize
  <2>2. QED BY <2>1 DEF Solvable
<1>5. Others = step(Others)
  <2>1. Others = CHOOSE g : g = step(g)
    BY DEF Others, OthersBody
  <2>2. QED BY <1>4, <2>1
<1>6. \A b \in D : Others[b] = f[b]
  <2> DEFINE Same == {b \in D : Others[b] = f[b]}
  <2>1. ASSUME NEW b \in D, \A a \in D : size[a] < size[b] => a \in Same
        PROVE  b \in Same
    <3>1. step(Others)[b] = step(f)[b]
      <4> HIDE DEF step, size
      <4>1. QED BY <1>2, <2>1
    <3>2. QED BY <1>4, <1>5, <3>1
  <2>2. Same \in Inductive(D, size)
    BY <2>1 DEF Inductive
  <2> HIDE DEF Same, size, D
  <2>3. \A b \in D : b \in Same
    BY <1>1, <2>2, BySize
  <2>4. QED BY <2>3 DEF Same
<1>7. Others = f
  <2> HIDE DEF step
  <2>1. Others = [b \in D |-> Others[b]]
    BY <1>5 DEF step
  <2>2. f = [b \in D |-> f[b]]
    BY <1>4
  <2>3. QED BY <1>6, <2>1, <2>2
<1>8. QED BY <1>4, <1>5, <1>7

(* Others of a cell and what is behind it.                                 *)
LEMMA OthersOfHead ==
  ASSUME NEW c \in Cells, NEW t \in Seq(Cells)
  PROVE  /\ Others[<<>>] = <<>> /\ Others[t] \in Seq(Cells)
         /\ Others[<<c>> \o t] = IF c = NUL THEN Others[t] ELSE <<c>> \o Others[t]
<1> DEFINE b == <<c>> \o t
<1>1. b \in Seq(Cells) /\ b # <<>> /\ b[1] = c /\ Tail(b) = t
  BY Headed
<1>2. <<>> \in Seq(Cells) /\ \A d \in Seq(Cells) : Others[d] = OthersBody(Others, d)
  BY OthersSteps, EmptySeq
<1>3. Others[<<>>] = <<>>
  <2>1. Others[<<>>] = OthersBody(Others, <<>>)
    BY <1>2, Zenon
  <2>2. QED BY <2>1 DEF OthersBody
<1> HIDE DEF b
<1>4. Others[b] = OthersBody(Others, b)
  BY <1>1, <1>2
<1>5. OthersBody(Others, b) = IF c = NUL THEN Others[t] ELSE <<c>> \o Others[t]
  BY <1>1 DEF OthersBody
<1>6. Others[t] \in Seq(Cells)
  BY OthersSteps
<1>7. QED BY <1>3, <1>4, <1>5, <1>6 DEF b

(* Others keeps a run as it is.                                            *)
LEMMA OthersOfRun ==
  ASSUME NEW v \in Text, NEW t \in Seq(Cells)
  PROVE  Others[v \o t] = v \o Others[t]
<1> DEFINE size == [w \in Text |-> Len(w)]
           Good == {w \in Text : Others[w \o t] = w \o Others[t]}
<1>1. ASSUME NEW w \in Text, \A u \in Text : size[u] < size[w] => u \in Good
      PROVE  Others[w \o t] = w \o Others[t]
  <2>1. w \in Seq(Cells) /\ Others[t] \in Seq(Cells)
    BY TextIsCells, OthersSteps
  <2>2. CASE w = <<>>
    <3>1. \A s \in Seq(Cells) : <<>> \o s = s
      BY ConcatEmptySeq
    <3>2. <<>> \o t = t /\ <<>> \o Others[t] = Others[t]
      BY <2>1, <3>1, Zenon
    <3>3. QED BY <2>2, <3>2, Zenon
  <2>3. CASE w # <<>>
    <3> DEFINE c == w[1]  q == Tail(w)  x == <<c>>  rest == Others[t]
    <3>1. c \in Cells \ {NUL} /\ q \in Text /\ Len(q) = Len(w) - 1 /\ w = x \o q /\ Len(w) \in Nat
      BY <2>3, HeadAndTail DEF Text
    <3>2. Others[q \o t] = q \o rest
      <4>1. size[q] < size[w]
        BY <3>1
      <4>2. QED BY <1>1, <3>1, <4>1
    <3>3. q \in Seq(Cells) /\ x \in Seq(Cells) /\ c \in Cells /\ c # NUL /\ rest \in Seq(Cells)
      BY <2>1, <3>1, TextIsCells
    <3> HIDE DEF q, c, rest
    <3>4. q \o t \in Seq(Cells)
      BY <3>3, Joined
    <3> DEFINE u == q \o t
    <3>5. Others[x \o u] = x \o Others[u]
      <4>1. u \in Seq(Cells)
        BY <3>4
      <4> HIDE DEF u
      <4>2. Others[<<c>> \o u] = IF c = NUL THEN Others[u] ELSE <<c>> \o Others[u]
        BY <3>3, <4>1, OthersOfHead
      <4>3. QED BY <3>3, <4>2
    <3> HIDE DEF x
    <3>6. Cat(Cat(x, q), t) = Cat(x, Cat(q, t)) /\ Cat(Cat(x, q), rest) = Cat(x, Cat(q, rest))
      BY <3>3, Associative
    <3>7. w = Cat(x, q) /\ Others[Cat(x, Cat(q, t))] = Cat(x, Cat(q, rest))
      BY <3>1, <3>2, <3>5, Zenon DEF Cat
    <3>8. Others[Cat(w, t)] = Cat(w, rest)
      BY <3>6, <3>7, Zenon
    <3>9. QED BY <3>8, Zenon DEF Cat, rest
  <2>4. QED BY <2>2, <2>3
<1>2. size \in [Text -> Nat]
  BY LenProperties DEF Text
<1>3. Good \in Inductive(Text, size)
  BY <1>1 DEF Inductive
<1>4. v \in Good
  <2> HIDE DEF Good, size
  <2>1. QED BY <1>2, <1>3, BySize
<1>5. QED BY <1>4

(* A list's bytes: each string with a NUL behind it, and a NUL.            *)
Terminals(list) == [i \in DOMAIN list |-> Append(list[i], NUL)]
ListBytes(list) == FlattenSeq(Terminals(list)) \o <<NUL>>

(* A list's bytes are of the set its strings' are of.                      *)
LEMMA ListBytesTyped ==
  ASSUME NEW C, NUL \in C, NEW list \in Seq(Seq(C))
  PROVE  /\ Terminals(list) \in Seq(Seq(C)) /\ Len(Terminals(list)) = Len(list)
         /\ \A i \in 1 .. Len(list) : Terminals(list)[i] = Append(list[i], NUL)
         /\ ListBytes(list) \in Seq(C) /\ Len(list) \in Nat
<1>1. /\ Len(list) \in Nat /\ DOMAIN list = 1 .. Len(list)
      /\ \A i \in 1 .. Len(list) : list[i] \in Seq(C)
  BY LenProperties, ElementOfSeq
<1>2. \A i \in 1 .. Len(list) : Append(list[i], NUL) \in Seq(C)
  BY <1>1, AppendProperties
<1> DEFINE s == Terminals(list)
<1>3. s = [i \in 1 .. Len(list) |-> Append(list[i], NUL)]
  BY <1>1 DEF Terminals
<1>4. /\ s \in Seq(Seq(C)) /\ Len(s) = Len(list)
      /\ \A i \in 1 .. Len(list) : s[i] = Append(list[i], NUL)
  BY <1>1, <1>2, <1>3
<1> HIDE DEF s
<1>5. FlattenSeq(s) \in Seq(C)
  BY <1>4, FlattenTyped
<1>6. FlattenSeq(s) \o <<NUL>> \in Seq(C)
  <2> DEFINE f == FlattenSeq(s)  one == <<NUL>>
  <2>1. f \in Seq(C) /\ one \in Seq(C)
    BY <1>5
  <2> HIDE DEF f, one
  <2>2. f \o one \in Seq(C)
    BY <2>1, ConcatProperties
  <2>3. QED BY <2>2 DEF f, one
<1>7. QED BY <1>1, <1>4, <1>6 DEF s, ListBytes

(* A list's bytes are its first string's, a NUL, and the others'.          *)
LEMMA ListBytesCons ==
  ASSUME NEW list \in Seq(Runs)
  PROVE  /\ ListBytes(list) \in Seq(Cells)
         /\ list = <<>> => ListBytes(list) = <<NUL>>
         /\ list # <<>> => /\ list[1] \in Runs /\ Tail(list) \in Seq(Runs) /\ Len(Tail(list)) < Len(list)
                           /\ list = <<list[1]>> \o Tail(list)
                           /\ ListBytes(list) = list[1] \o (<<NUL>> \o ListBytes(Tail(list)))
<1>1. ASSUME NEW p \in Seq(Runs)
      PROVE  /\ Terminals(p) \in Seq(Seq(Cells)) /\ Len(Terminals(p)) = Len(p)
             /\ \A i \in 1 .. Len(p) : Terminals(p)[i] = Append(p[i], NUL)
             /\ ListBytes(p) \in Seq(Cells) /\ Len(p) \in Nat
  <2>1. Runs \subseteq Seq(Cells) /\ NUL \in Cells
    BY TextIsCells, CellsAreNumbers DEF Runs
  <2> DEFINE C == Seq(Cells)
  <2>2. p \in Seq(C)
    <3>1. \A i \in 1 .. Len(p) : p[i] \in C
      BY <2>1, ElementOfSeq
    <3>2. p = [i \in 1 .. Len(p) |-> p[i]] /\ Len(p) \in Nat
      BY LenProperties
    <3> HIDE DEF C
    <3>3. QED BY <3>1, <3>2
  <2>3. p \in Seq(Seq(Cells))
    BY <2>2
  <2>4. QED BY <2>1, <2>3, ListBytesTyped
<1>2. CASE list = <<>>
  <2>1. Terminals(list) = <<>>
    BY <1>2 DEF Terminals
  <2>2. \A s \in Seq(Cells) : <<>> \o s = s
    BY ConcatEmptySeq
  <2>3. <<NUL>> \in Seq(Cells)
    BY CellsAreNumbers
  <2>4. ListBytes(list) = <<>> \o <<NUL>>
    BY <2>1, FlattenEmpty, Zenon DEF ListBytes
  <2>5. QED BY <1>1, <1>2, <2>2, <2>3, <2>4, Zenon
<1>3. CASE list # <<>>
  <2> DEFINE v == list[1]  q == Tail(list)  s == Terminals(list)  t == Terminals(q)
             r == Append(v, NUL)  one == <<NUL>>  f == FlattenSeq(t)
  <2>1. /\ v \in Runs /\ q \in Seq(Runs) /\ Len(q) = Len(list) - 1 /\ Len(list) \in Nat \ {0}
        /\ \A i \in 1 .. Len(q) : q[i] = list[i + 1]
        /\ list = <<v>> \o q
    BY <1>3, HeadAndTail
  <2>2. v \in Seq(Cells) /\ one \in Seq(Cells)
    BY <2>1, TextIsCells, CellsAreNumbers DEF Runs
  <2> HIDE DEF q
  <2>3. /\ s \in Seq(Seq(Cells)) /\ Len(s) = Len(list) /\ \A i \in 1 .. Len(list) : s[i] = Append(list[i], NUL)
        /\ t \in Seq(Seq(Cells)) /\ Len(t) = Len(q) /\ \A i \in 1 .. Len(q) : t[i] = Append(q[i], NUL)
    BY <1>1, <2>1
  <2> HIDE DEF s, t
  <2>4. s[1] = r /\ r \in Seq(Cells) /\ r = v \o one
    BY <2>1, <2>2, <2>3, Terminated
  <2>5. ASSUME NEW i \in 1 .. Len(t) PROVE s[i + 1] = t[i]
    <3>1. i + 1 \in 1 .. Len(list) /\ i \in 1 .. Len(q)
      BY <2>1, <2>3
    <3>2. s[i + 1] = Append(list[i + 1], NUL)
      BY <2>3, <3>1
    <3>3. t[i] = Append(q[i], NUL)
      BY <2>3, <3>1
    <3>4. q[i] = list[i + 1]
      BY <2>1, <3>1
    <3>5. QED BY <3>2, <3>3, <3>4
  <2> DEFINE C == Seq(Cells)
  <2>6. s \in Seq(C) /\ t \in Seq(C) /\ r \in C /\ s[1] = r
    BY <2>3, <2>4
  <2>7. Len(s) = Len(t) + 1
    BY <2>1, <2>3
  <2> HIDE DEF C, r
  <2>8. s = <<r>> \o t
    BY <2>5, <2>6, <2>7, Shifted
  <2>9. FlattenSeq(s) = r \o f
    <3>1. FlattenSeq(<<r>> \o t) = r \o FlattenSeq(t)
      BY <2>3, <2>4, FlattenCons
    <3>2. QED BY <2>8, <3>1
  <2>10. f \in Seq(Cells)
    BY <2>3, FlattenTyped
  <2> HIDE DEF v, one, f
  <2>11. ListBytes(list) = Cat(Cat(Cat(v, one), f), one)
    BY <2>4, <2>9, Zenon DEF ListBytes, Cat, s, one
  <2>12. Cat(v, one) \in Seq(Cells) /\ Cat(one, f) \in Seq(Cells)
    BY <2>2, <2>10, Associative
  <2>13. Cat(Cat(v, one), f) = Cat(v, Cat(one, f))
    BY <2>2, <2>10, Associative
  <2>14. Cat(Cat(v, Cat(one, f)), one) = Cat(v, Cat(Cat(one, f), one))
    BY <2>2, <2>12, Associative
  <2>15. Cat(Cat(one, f), one) = Cat(one, Cat(f, one))
    BY <2>2, <2>10, Associative
  <2>16. ListBytes(list) = Cat(v, Cat(one, Cat(f, one)))
    BY <2>11, <2>13, <2>14, <2>15, Zenon
  <2>17. ListBytes(list) = v \o (one \o ListBytes(q))
    BY <2>16, Zenon DEF ListBytes, Cat, f, t, one
  <2>18. Len(q) < Len(list)
    BY <2>1
  <2>19. QED BY <1>1, <1>3, <2>1, <2>17, <2>18 DEF v, q, one
<1>4. QED BY <1>2, <1>3

(* strings of a run, a NUL and more; of a NUL and more.                    *)
LEMMA StringsOfRun ==
  ASSUME NEW v \in Text, NEW t \in Seq(Cells)
  PROVE  strings[v \o (<<NUL>> \o t)] = IF v = <<>> THEN strings[t] ELSE <<v>> \o strings[t]
<1> DEFINE b == v \o (<<NUL>> \o t)
<1>1. b \in Seq(Cells) /\ b # <<>> /\ FirstRun(b) = v /\ BehindRun(b) = t
  BY RunFound
<1> HIDE DEF b
<1>2. strings[b] = StringsBody(strings, b)
  BY <1>1, StringsSteps
<1>3. StringsBody(strings, b) = IF v = <<>> THEN strings[t] ELSE <<v>> \o strings[t]
  BY <1>1 DEF StringsBody
<1>4. QED BY <1>2, <1>3 DEF b

(* A list that was stored is read back.                                    *)
LEMMA ListReadsBack ==
  ASSUME NEW list \in Seq(Runs)
  PROVE  strings[ListBytes(list)] = list
<1> DEFINE D == Seq(Runs)
           size == [p \in D |-> Len(p)]
           Good == {p \in D : strings[ListBytes(p)] = p}
<1>1. <<>> \in Seq(Cells) /\ strings[<<>>] = <<>>
  <2>1. <<>> \in Seq(Cells) /\ \A b \in Seq(Cells) : strings[b] = StringsBody(strings, b)
    BY StringsSteps, EmptySeq
  <2>2. strings[<<>>] = StringsBody(strings, <<>>)
    BY <2>1, Zenon
  <2>3. QED BY <2>1, <2>2 DEF StringsBody
<1>2. ASSUME NEW p \in D, \A q \in D : size[q] < size[p] => q \in Good
      PROVE  strings[ListBytes(p)] = p
  <2>1. CASE p = <<>>
    <3>1. ListBytes(p) = <<NUL>>
      BY <2>1, ListBytesCons
    <3>2. <<NUL>> = <<>> \o (<<NUL>> \o <<>>) /\ <<>> \in Text
      BY EmptySeq DEF Text
    <3>3. strings[<<>> \o (<<NUL>> \o <<>>)] = strings[<<>>]
      <4>1. ASSUME NEW v \in Text, v = <<>> PROVE strings[v \o (<<NUL>> \o v)] = strings[v]
        <5>1. v \in Seq(Cells)
          BY TextIsCells
        <5>2. QED BY <4>1, <5>1, StringsOfRun
      <4>2. QED BY <3>2, <4>1, Zenon
    <3>4. QED BY <1>1, <2>1, <3>1, <3>2, <3>3, Zenon
  <2>2. CASE p # <<>>
    <3> DEFINE v == p[1]  q == Tail(p)  t == ListBytes(q)
    <3>1. /\ v \in Runs /\ q \in D /\ Len(q) < Len(p) /\ p = <<v>> \o q
          /\ ListBytes(p) = v \o (<<NUL>> \o t)
      BY <2>2, ListBytesCons
    <3>2. strings[t] = q
      <4>1. q \in Good
        BY <1>2, <3>1
      <4>2. QED BY <4>1
    <3>3. t \in Seq(Cells) /\ v \in Text /\ v # <<>>
      BY <3>1, ListBytesCons DEF Runs
    <3> HIDE DEF v, q, t
    <3>4. strings[v \o (<<NUL>> \o t)] = <<v>> \o strings[t]
      BY <3>3, StringsOfRun
    <3>5. QED BY <3>1, <3>2, <3>4
  <2>3. QED BY <2>1, <2>2
<1>3. size \in [D -> Nat]
  BY LenProperties
<1>4. Good \in Inductive(D, size)
  BY <1>2 DEF Inductive
<1>5. list \in Good
  <2> HIDE DEF Good, size
  <2>1. QED BY <1>3, <1>4, BySize
<1>6. QED BY <1>5

(* Every byte that is not a NUL is in a string of the list, in its place.  *)
LEMMA ListIsExact ==
  ASSUME NEW b \in Seq(Cells)
  PROVE  Others[ListBytes(strings[b])] = Others[b]
<1> DEFINE D == Seq(Cells)
           size == [c \in D |-> Len(c)]
           Good == {c \in D : Others[ListBytes(strings[c])] = Others[c]}
<1>1. ASSUME NEW c \in D, \A a \in D : size[a] < size[c] => a \in Good
      PROVE  Others[ListBytes(strings[c])] = Others[c]
  <2>1. strings[c] = StringsBody(strings, c) /\ strings[c] \in Seq(Runs)
    BY StringsSteps
  <2>2. CASE c = <<>>
    <3>1. strings[c] = <<>>
      BY <2>1, <2>2 DEF StringsBody
    <3>2. ListBytes(strings[c]) = <<NUL>> \o <<>>
      <4>1. \A p \in Seq(Runs) : p = <<>> => ListBytes(p) = <<NUL>>
        BY ListBytesCons
      <4>2. ListBytes(strings[c]) = <<NUL>>
        BY <2>1, <3>1, <4>1, Zenon
      <4>3. <<NUL>> = <<NUL>> \o <<>>
        OBVIOUS
      <4>4. QED BY <4>2, <4>3, Zenon
    <3>3. Others[<<NUL>> \o <<>>] = Others[<<>>]
      <4>1. ASSUME NEW t \in Seq(Cells) PROVE Others[<<NUL>> \o t] = Others[t]
        BY OthersOfHead, CellsAreNumbers
      <4>2. <<>> \in Seq(Cells)
        BY EmptySeq
      <4>3. QED BY <4>1, <4>2, Zenon
    <3>4. QED BY <2>2, <3>2, <3>3, Zenon
  <2>3. CASE c # <<>>
    <3> DEFINE v == FirstRun(c)  t == BehindRun(c)  l == strings[t]  k == ListBytes(l)
               end == <<NUL>> \o t  more == <<NUL>> \o k
    <3>1. /\ v \in Text /\ t \in Seq(Cells) /\ Len(t) < Len(c)
          /\ (c = v /\ t = <<>>) \/ c = v \o end
      BY <2>3, RunAndRest
    <3>2. l \in Seq(Runs) /\ k \in Seq(Cells) /\ Others[k] = Others[t]
      <4>1. t \in Good
        BY <1>1, <3>1
      <4>2. l \in Seq(Runs)
        BY <3>1, StringsSteps
      <4>3. QED BY <4>1, <4>2, ListBytesCons
    <3>3. strings[c] = IF v = <<>> THEN l ELSE <<v>> \o l
      BY <2>1, <2>3 DEF StringsBody
    <3> HIDE DEF v, t, l
    <3>4. Others[c] = v \o Others[t]
      <4>1. CASE c = v /\ t = <<>>
        <5>1. c = c \o <<>> /\ <<>> \in Seq(Cells)
          BY ConcatEmptySeq, EmptySeq
        <5>2. ASSUME NEW e \in Seq(Cells) PROVE Others[v \o e] = v \o Others[e]
          BY <3>1, OthersOfRun
        <5>3. QED BY <4>1, <5>1, <5>2, Zenon
      <4>2. CASE c = v \o end
        <5>1. end \in Seq(Cells) /\ Others[end] = Others[t]
          BY <3>1, OthersOfHead, Headed, CellsAreNumbers
        <5> HIDE DEF end
        <5>2. Others[v \o end] = v \o Others[end]
          BY <3>1, <5>1, OthersOfRun
        <5>3. QED BY <4>2, <5>1, <5>2
      <4>3. QED BY <3>1, <4>1, <4>2
    <3>5. Others[ListBytes(strings[c])] = v \o Others[k]
      <4>1. CASE v = <<>>
        <5>1. \A s \in Seq(Cells) : <<>> \o s = s
          BY ConcatEmptySeq
        <5>2. Others[k] \in Seq(Cells)
          BY <3>2, OthersSteps
        <5>3. <<>> \o Others[k] = Others[k]
          BY <5>1, <5>2, Zenon
        <5>4. QED BY <3>3, <4>1, <5>3, Zenon DEF k
      <4>2. CASE v # <<>>
        <5> DEFINE p == <<v>> \o l
        <5>1. v \in Runs
          BY <3>1, <4>2 DEF Runs
        <5>2. p \in Seq(Runs) /\ p # <<>> /\ p[1] = v /\ Tail(p) = l
          BY <3>2, <5>1, Headed
        <5>3. strings[c] = p
          BY <3>3, <4>2
        <5> HIDE DEF p
        <5>4. ListBytes(p) = v \o (<<NUL>> \o ListBytes(l))
          BY <5>2, ListBytesCons
        <5> HIDE DEF k
        <5>5. more \in Seq(Cells) /\ Others[more] = Others[k]
          BY <3>2, OthersOfHead, Headed, CellsAreNumbers
        <5> HIDE DEF more
        <5>6. Others[v \o more] = v \o Others[more]
          BY <3>1, <5>5, OthersOfRun
        <5>7. ListBytes(p) = v \o more
          BY <5>4, Zenon DEF more, k
        <5>8. QED BY <5>3, <5>5, <5>6, <5>7
      <4>3. QED BY <4>1, <4>2
    <3>6. QED BY <3>2, <3>4, <3>5
  <2>4. QED BY <2>2, <2>3
<1>2. size \in [D -> Nat]
  BY LenProperties
<1>3. Good \in Inductive(D, size)
  BY <1>1 DEF Inductive
<1>4. b \in Good
  <2> HIDE DEF Good, size
  <2>1. QED BY <1>2, <1>3, BySize
<1>5. QED BY <1>4

(* The strings of bytes that are UTF-8 are UTF-8.                          *)
LEMMA ListIsUtf8 ==
  ASSUME NEW b \in Seq(Cells \ Garbled)
  PROVE  strings[b] \in Seq(Utf8Text \ {<<>>})
<1> DEFINE T == Cells \ Garbled
           G == Utf8Text \ {<<>>}
           D == Seq(T)
           size == [c \in D |-> Len(c)]
           Good == {c \in D : strings[c] \in Seq(G)}
<1>1. ASSUME NEW c \in D, \A a \in D : size[a] < size[c] => a \in Good
      PROVE  strings[c] \in Seq(G)
  <2>1. c \in Seq(Cells)
    OBVIOUS
  <2>2. strings[c] = StringsBody(strings, c)
    BY <2>1, StringsSteps
  <2>3. CASE c = <<>>
    BY <2>2, <2>3, EmptySeq DEF StringsBody
  <2>4. CASE c # <<>>
    <3> DEFINE v == FirstRun(c)  t == BehindRun(c)  end == <<NUL>> \o t
    <3>1. /\ v \in Text /\ t \in Seq(Cells) /\ Len(t) < Len(c)
          /\ (c = v /\ t = <<>>) \/ c = v \o end
      BY <2>1, <2>4, RunAndRest
    <3>2. strings[c] = IF v = <<>> THEN strings[t] ELSE <<v>> \o strings[t]
      BY <2>2, <2>4 DEF StringsBody
    <3> HIDE DEF v, t, T
    <3>3. v \in Seq(T) /\ t \in Seq(T)
      <4>1. CASE c = v /\ t = <<>>
        BY <4>1, EmptySeq
      <4>2. CASE c = v \o end
        <5>1. v \in Seq(Cells) /\ <<NUL>> \in Seq(Cells)
          BY <3>1, TextIsCells, CellsAreNumbers
        <5> DEFINE one == <<NUL>>
        <5>2. one \in Seq(Cells) /\ end = one \o t
          BY <5>1
        <5> HIDE DEF one, end
        <5>3. one \o t \in Seq(Cells)
          BY <3>1, <5>2, Joined
        <5>4. v \in Seq(T) /\ end \in Seq(T)
          BY <4>2, <5>1, <5>2, <5>3, BothTyped
        <5>5. t \in Seq(T)
          BY <3>1, <5>2, <5>4, BothTyped
        <5>6. QED BY <5>4, <5>5
      <4>3. QED BY <3>1, <4>1, <4>2
    <3>4. strings[t] \in Seq(G)
      <4>1. t \in Good
        BY <1>1, <3>1, <3>3
      <4>2. QED BY <4>1
    <3>5. v # <<>> => v \in G
      <4>1. v \in Seq(Cells) /\ NUL \notin ToSet(v) /\ Utf8(v)
        BY <3>1, <3>3, TextIsCells, CellByCell DEF T
      <4>2. QED BY <4>1, CellByCell
    <3> HIDE DEF G
    <3>6. QED BY <3>2, <3>4, <3>5, Headed
  <2>5. QED BY <2>3, <2>4
<1>2. size \in [D -> Nat]
  BY LenProperties
<1>3. Good \in Inductive(D, size)
  BY <1>1 DEF Inductive
<1>4. b \in Good
  <2> HIDE DEF Good, size
  <2>1. QED BY <1>2, <1>3, BySize
<1>5. QED BY <1>4

(* The kinds that are one string.                                          *)
Texts == {"SZ", "EXPAND_SZ"}

(* What programs store is encoded as bytes, and decoded as what it was.    *)
LEMMA StoredReadsBack ==
  ASSUME NEW d, Storable(d)
  PROVE  encode(d) \in Seq(Cells) /\ decode(d.ty, encode(d)) = d
<1> DEFINE ty == d.ty  v == d.value  b == encode(d)
<1>1. CASE d = Raw(ty, v) /\ v \in Seq(Cells) /\ ~Fits(ty, v)
  <2>1. d.kind = "Raw"
    <3> HIDE DEF ty, v
    <3>1. QED BY <1>1 DEF Raw
  <2>2. b = v
    BY <2>1 DEF encode
  <2>3. decode(ty, v) = Raw(ty, v)
    BY <1>1 DEF decode
  <2>4. QED BY <1>1, <2>2, <2>3
<1>2. CASE d = Is(ty, v) /\ ty \in Texts /\ v \in Utf8Text
  <2>1. d.kind = ty
    <3> HIDE DEF ty, v
    <3>1. QED BY <1>2 DEF Is
  <2>2. b = Append(v, NUL)
    BY <1>2, <2>1 DEF encode, Texts
  <2>3. b \in Seq(Cells) /\ Utf8(b) /\ NUL \notin ToSet(v) /\ Trimmed(b) = v
    <3> HIDE DEF b, v
    <3>1. QED BY <1>2, <2>2, StringReadsBack
  <2> HIDE DEF b, v, ty
  <2>4. Fits(ty, b)
    BY <1>2, <2>3 DEF Fits, Texts, Width
  <2>5. decode(ty, b) = Is(ty, v)
    BY <1>2, <2>3, <2>4 DEF decode, Texts
  <2>6. QED BY <1>2, <2>3, <2>5 DEF b, v, ty
<1>3. CASE d = Is(ty, v) /\ ty = "MULTI_SZ" /\ v \in Seq(Utf8Text \ {<<>>})
  <2>1. d.kind = ty
    <3> HIDE DEF ty, v
    <3>1. QED BY <1>3 DEF Is
  <2>2. b = ListBytes(v)
    BY <1>3, <2>1 DEF encode, ListBytes, Terminals
  <2> HIDE DEF b, v, ty
  <2>3. v \in Seq(Runs) /\ v \in Seq(Seq(Cells \ Garbled))
    <3> DEFINE G == Utf8Text \ {<<>>}  C == Seq(Cells \ Garbled)
    <3>1. G \subseteq Runs /\ G \subseteq C
      <4>1. ASSUME NEW s \in G PROVE s \in Runs /\ s \in C
        <5>1. s \in Seq(Cells) /\ s # <<>>
          BY DEF Utf8Text
        <5>2. QED BY <5>1, CellByCell DEF Runs
      <4>2. QED BY <4>1
    <3>2. v \in Seq(G)
      BY <1>3
    <3> HIDE DEF G, C
    <3>3. v \in Seq(Runs) /\ v \in Seq(C)
      <4>1. Len(v) \in Nat /\ v = [i \in 1 .. Len(v) |-> v[i]] /\ \A i \in 1 .. Len(v) : v[i] \in G
        BY <3>2, LenProperties, ElementOfSeq
      <4>2. \A i \in 1 .. Len(v) : v[i] \in Runs /\ v[i] \in C
        BY <3>1, <4>1
      <4>3. QED BY <4>1, <4>2
    <3>4. QED BY <3>3 DEF C
  <2>4. ListBytes(v) \in Seq(Cells) /\ ListBytes(v) \in Seq(Cells \ Garbled) /\ strings[ListBytes(v)] = v
    <3>1. NUL \in Cells \ Garbled
      BY CellsAreNumbers
    <3> DEFINE C == Cells \ Garbled
    <3>2. NUL \in C /\ v \in Seq(Seq(C))
      BY <2>3, <3>1
    <3> HIDE DEF C
    <3>3. ListBytes(v) \in Seq(C)
      BY <3>2, ListBytesTyped
    <3>4. QED BY <2>3, <3>3, ListBytesCons, ListReadsBack DEF C
  <2>5. b \in Seq(Cells) /\ Utf8(b) /\ strings[b] = v
    <3>1. b \in Seq(Cells) /\ b \in Seq(Cells \ Garbled) /\ strings[b] = v
      BY <2>2, <2>4
    <3>2. QED BY <3>1, CellByCell
  <2>6. Fits(ty, b)
    BY <1>3, <2>5 DEF Fits, Width
  <2>7. decode(ty, b) = Is(ty, v)
    BY <1>3, <2>5, <2>6 DEF decode
  <2>8. QED BY <1>3, <2>5, <2>7 DEF b, v, ty
<1>4. CASE d = Is(ty, v) /\ ty = "DWORD_BIG_ENDIAN" /\ v \in Seq(Cells) /\ Fits(ty, v)
  <2>1. d.kind = ty
    <3> HIDE DEF ty, v
    <3>1. QED BY <1>4 DEF Is
  <2>2. b = Reverse(v)
    BY <1>4, <2>1 DEF encode
  <2> HIDE DEF b, v, ty
  <2>3. b \in Seq(Cells) /\ Len(b) = Len(v) /\ Reverse(b) = v
    BY <1>4, <2>2, ReversedTwice
  <2>4. Fits(ty, b)
    BY <1>4, <2>3 DEF Fits
  <2>5. decode(ty, b) = Is(ty, v)
    BY <1>4, <2>3, <2>4 DEF decode
  <2>6. QED BY <1>4, <2>3, <2>5 DEF b, v, ty
<1>5. CASE /\ d = Is(ty, v) /\ ty \notin Texts \cup {"MULTI_SZ", "DWORD_BIG_ENDIAN"}
           /\ v \in Seq(Cells) /\ Fits(ty, v)
  <2>1. d.kind = ty
    <3> HIDE DEF ty, v
    <3>1. QED BY <1>5 DEF Is
  <2>2. b = v
    BY <1>5, <2>1 DEF encode, Texts
  <2>3. decode(ty, v) = Is(ty, v)
    BY <1>5 DEF decode, Texts
  <2>4. QED BY <1>5, <2>2, <2>3
<1>6. QED
  <2>1. \/ d = Raw(ty, v) /\ v \in Seq(Cells) /\ ~Fits(ty, v)
        \/ /\ d = Is(ty, v)
           /\ CASE ty \in Texts -> v \in Utf8Text
                [] ty = "MULTI_SZ" -> v \in Seq(Utf8Text \ {<<>>})
                [] OTHER -> v \in Seq(Cells) /\ Fits(ty, v)
    BY DEF Storable, Texts
  <2> HIDE DEF ty, v
  <2>2. ty \in Texts => ty # "MULTI_SZ"
    BY DEF Texts
  <2>3. QED BY <1>1, <1>2, <1>3, <1>4, <1>5, <2>1, <2>2 DEF ty, v

(* What bytes decode to is data that programs may store.                   *)
LEMMA DecodedIsStorable ==
  ASSUME NEW ty, NEW b \in Seq(Cells)
  PROVE  Storable(decode(ty, b)) /\ decode(ty, b).ty = ty
<1> DEFINE d == decode(ty, b)
<1>1. ASSUME NEW w PROVE /\ Is(ty, w).ty = ty /\ Is(ty, w).value = w /\ Is(ty, w).kind = ty
                         /\ Raw(ty, w).ty = ty /\ Raw(ty, w).value = w
  BY DEF Is, Raw
<1>2. CASE ~Fits(ty, b)
  <2>1. d = Raw(ty, b)
    BY <1>2 DEF decode
  <2> HIDE DEF d
  <2>2. d.ty = ty /\ d.value = b
    BY <1>1, <2>1
  <2>3. QED BY <1>2, <2>1, <2>2 DEF Storable, d
<1>3. CASE Fits(ty, b) /\ ty \in Texts
  <2>1. d = Is(ty, Trimmed(b)) /\ Utf8(b) /\ NUL \notin ToSet(Trimmed(b))
    BY <1>3 DEF decode, Texts, Fits, Width
  <2>2. Trimmed(b) \in Utf8Text
    BY <2>1, StringIsExact
  <2> HIDE DEF d
  <2>3. d.ty = ty /\ d.value = Trimmed(b)
    BY <1>1, <2>1
  <2>4. QED BY <1>3, <2>1, <2>2, <2>3 DEF Storable, Texts, d
<1>4. CASE Fits(ty, b) /\ ty = "MULTI_SZ"
  <2>1. d = Is(ty, strings[b]) /\ Utf8(b)
    BY <1>4 DEF decode, Fits, Width
  <2>2. strings[b] \in Seq(Utf8Text \ {<<>>})
    <3>1. b \in Seq(Cells \ Garbled)
      BY <2>1, CellByCell
    <3>2. QED BY <3>1, ListIsUtf8
  <2> HIDE DEF d
  <2>3. d.ty = ty /\ d.value = strings[b]
    BY <1>1, <2>1
  <2>4. QED BY <1>4, <2>1, <2>2, <2>3 DEF Storable, d
<1>5. CASE Fits(ty, b) /\ ty = "DWORD_BIG_ENDIAN"
  <2> DEFINE r == Reverse(b)
  <2>1. d = Is(ty, r)
    BY <1>5 DEF decode
  <2>2. r \in Seq(Cells) /\ Len(r) = Len(b)
    BY ReversedTwice
  <2> HIDE DEF d, r
  <2>3. Fits(ty, r)
    BY <1>5, <2>2 DEF Fits
  <2>4. d.ty = ty /\ d.value = r
    BY <1>1, <2>1
  <2>5. QED BY <1>5, <2>1, <2>2, <2>3, <2>4 DEF Storable, d
<1>6. CASE Fits(ty, b) /\ ty \notin Texts \cup {"MULTI_SZ", "DWORD_BIG_ENDIAN"}
  <2>1. d = Is(ty, b)
    BY <1>6 DEF decode, Texts
  <2> HIDE DEF d
  <2>2. d.ty = ty /\ d.value = b
    BY <1>1, <2>1
  <2>3. QED BY <1>6, <2>1, <2>2 DEF Storable, Texts, d
<1>7. QED BY <1>2, <1>3, <1>4, <1>5, <1>6

(* What decoding and storing again may lose: NULs.                         *)
LEMMA DecodeKeeps ==
  ASSUME NEW ty, NEW b \in Seq(Cells)
  PROVE  LET d == decode(ty, b) IN
         IF d.kind = "MULTI_SZ"
         THEN Others[encode(d)] = Others[b]
         ELSE IF d.kind \in {"SZ", "EXPAND_SZ"}
              THEN IsPrefix(d.value, b) /\ ToSet(Drop(b, Len(d.value))) \subseteq {NUL}
              ELSE encode(d) = b
<1> DEFINE d == decode(ty, b)
<1>1. CASE ~Fits(ty, b)
  <2>1. d = Raw(ty, b)
    BY <1>1 DEF decode
  <2> HIDE DEF d
  <2>2. d.kind = "Raw" /\ d.value = b
    BY <2>1 DEF Raw
  <2>3. encode(d) = b
    BY <2>2 DEF encode
  <2>4. QED BY <2>2, <2>3 DEF d
<1>2. CASE Fits(ty, b) /\ ty \in Texts
  <2>1. d = Is(ty, Trimmed(b)) /\ Utf8(b) /\ NUL \notin ToSet(Trimmed(b))
    BY <1>2 DEF decode, Texts, Fits, Width
  <2> HIDE DEF d
  <2>2. d.kind = ty /\ d.value = Trimmed(b)
    BY <2>1 DEF Is
  <2>3. IsPrefix(d.value, b) /\ ToSet(Drop(b, Len(d.value))) \subseteq {NUL}
    BY <2>1, <2>2, StringIsExact
  <2>4. QED BY <1>2, <2>2, <2>3 DEF Texts, d
<1>3. CASE Fits(ty, b) /\ ty = "MULTI_SZ"
  <2>1. d = Is(ty, strings[b])
    BY <1>3 DEF decode
  <2> HIDE DEF d
  <2>2. d.kind = ty /\ d.value = strings[b]
    BY <2>1 DEF Is
  <2>3. encode(d) = ListBytes(strings[b])
    BY <1>3, <2>2 DEF encode, ListBytes, Terminals
  <2>4. Others[encode(d)] = Others[b]
    BY <2>3, ListIsExact
  <2>5. QED BY <1>3, <2>2, <2>4 DEF d
<1>4. CASE Fits(ty, b) /\ ty = "DWORD_BIG_ENDIAN"
  <2>1. d = Is(ty, Reverse(b))
    BY <1>4 DEF decode
  <2> HIDE DEF d
  <2>2. d.kind = ty /\ d.value = Reverse(b)
    BY <2>1 DEF Is
  <2>3. encode(d) = Reverse(Reverse(b))
    BY <1>4, <2>2 DEF encode
  <2>4. encode(d) = b
    BY <2>3, ReversedTwice
  <2>5. QED BY <1>4, <2>2, <2>4 DEF d
<1>5. CASE Fits(ty, b) /\ ty \notin Texts \cup {"MULTI_SZ", "DWORD_BIG_ENDIAN"}
  <2>1. d = Is(ty, b)
    BY <1>5 DEF decode, Texts
  <2> HIDE DEF d
  <2>2. d.kind = ty /\ d.value = b
    BY <2>1 DEF Is
  <2>3. encode(d) = b
    BY <1>5, <2>2 DEF encode, Texts
  <2>4. QED BY <1>5, <2>2, <2>3 DEF Texts, d
<1>6. QED BY <1>1, <1>2, <1>3, <1>4, <1>5

-----------------------------------------------------------------------------
(* The invariant, and what it says of every reachable buffer.              *)
(* The kernel's events and values have records that fit the cells.         *)
LEMMA KernelWrites == Events \subseteq Sendable /\ Records \subseteq Recordable
BY WireAssumption DEF Sendable, Writable, Recordable, Values

(* An undamaged buffer holds the records that were sent, and stored data   *)
(* is under its own type.                                                  *)
WireInv ==
    /\ form \in {"watch", "values", "data"} /\ defect \in BOOLEAN
    /\ buf \in Seq(Cells)
    /\ form = "watch" => /\ sent \in Seq(Events)
                         /\ ~defect => buf = FlattenSeq(EventRecords(sent))
    /\ form = "values" => /\ sent \in Seq(Records)
                          /\ ~defect => buf = FlattenSeq(ValuesBytes(sent))
    /\ form = "data" => \/ sent = <<>>
                        \/ \E d \in Stored : sent = <<d>> /\ tag = d.ty /\ buf = encode(d)

(* A kernel's lists are over what it can send, and record.                 *)
LEMMA KernelLists ==
  /\ \A s \in Seq(Events) : s \in Seq(Sendable)
  /\ \A s \in Seq(Records) : s \in Seq(Recordable)
BY KernelWrites

(* At first nothing is sent and nothing is stored.                         *)
LEMMA WireInvInit == WireInit => WireInv
<1> SUFFICES ASSUME WireInit PROVE WireInv
  OBVIOUS
<1>1. <<>> \in Seq(Cells) /\ <<>> \in Seq(Events) /\ <<>> \in Seq(Records)
  BY EmptySeq
<1>2. EventRecords(<<>>) = <<>> /\ ValuesBytes(<<>>) = <<>>
  BY DEF EventRecords, ValuesBytes
<1>3. FlattenSeq(EventRecords(<<>>)) = <<>> /\ FlattenSeq(ValuesBytes(<<>>)) = <<>>
  BY <1>2, FlattenEmpty, Zenon
<1>4. QED BY <1>1, <1>3 DEF WireInit, WireInv

(* Writing, damage and storing keep the invariant.                         *)
LEMMA WireInvStep == WireInv /\ [WireNext]_wireVars => WireInv'
<1> SUFFICES ASSUME WireInv, [WireNext]_wireVars PROVE WireInv'
  OBVIOUS
<1>1. ASSUME form = "watch", NEW e \in Events, ~defect,
             sent' = Append(sent, e), buf' = buf \o WatchRecord(e), UNCHANGED <<form, tag, defect>>
      PROVE  WireInv'
  <2> DEFINE r == WatchRecord(e)
  <2>1. sent \in Seq(Events) /\ buf = FlattenSeq(EventRecords(sent)) /\ buf \in Seq(Cells) /\ defect \in BOOLEAN
    BY <1>1 DEF WireInv
  <2>2. sent \in Seq(Sendable) /\ e \in Sendable /\ r \in Seq(Cells)
    BY <2>1, KernelLists, KernelWrites DEF Sendable
  <2>3. FlattenSeq(EventRecords(Append(sent, e))) = FlattenSeq(EventRecords(sent)) \o r
    BY <2>2, OneMoreEvent
  <2>4. Append(sent, e) \in Seq(Events)
    BY <2>1, AppendProperties
  <2> HIDE DEF r
  <2>5. buf \o r \in Seq(Cells)
    BY <2>1, <2>2, Joined
  <2>6. buf' = FlattenSeq(EventRecords(sent'))
    BY <1>1, <2>1, <2>3 DEF r
  <2>7. sent' \in Seq(Events) /\ buf' \in Seq(Cells)
    BY <1>1, <2>4, <2>5 DEF r
  <2>8. QED BY <1>1, <2>1, <2>6, <2>7 DEF WireInv
<1>2. ASSUME form = "values", NEW v \in Records, ~defect,
             sent' = Append(sent, v), buf' = buf \o ValueRecord(v), UNCHANGED <<form, tag, defect>>
      PROVE  WireInv'
  <2> DEFINE r == ValueRecord(v)
  <2>1. sent \in Seq(Records) /\ buf = FlattenSeq(ValuesBytes(sent)) /\ buf \in Seq(Cells) /\ defect \in BOOLEAN
    BY <1>2 DEF WireInv
  <2>2. sent \in Seq(Recordable) /\ v \in Recordable /\ r \in Seq(Cells)
    BY <2>1, KernelLists, KernelWrites DEF Recordable
  <2>3. FlattenSeq(ValuesBytes(Append(sent, v))) = FlattenSeq(ValuesBytes(sent)) \o r
    BY <2>2, OneMoreValue
  <2>4. Append(sent, v) \in Seq(Records)
    BY <2>1, AppendProperties
  <2> HIDE DEF r
  <2>5. buf \o r \in Seq(Cells)
    BY <2>1, <2>2, Joined
  <2>6. buf' = FlattenSeq(ValuesBytes(sent'))
    BY <1>2, <2>1, <2>3 DEF r
  <2>7. sent' \in Seq(Records) /\ buf' \in Seq(Cells)
    BY <1>2, <2>4, <2>5 DEF r
  <2>8. QED BY <1>2, <2>1, <2>6, <2>7 DEF WireInv
<1>3. CASE Damage
  <2>1. buf' \in Seq(Cells)
    <3>1. buf \in Seq(Cells) /\ Len(buf) \in Nat
      BY LenProperties DEF WireInv
    <3>2. ASSUME NEW i \in DOMAIN buf, NEW c \in Cells, buf' = [buf EXCEPT ![i] = c]
          PROVE  buf' \in Seq(Cells)
      BY <3>1, <3>2, ExceptSeq
    <3>3. ASSUME NEW n \in 0 .. Len(buf) - 1, buf' = SubSeq(buf, 1, n)
          PROVE  buf' \in Seq(Cells)
      <4>1. n \in Nat /\ n <= Len(buf)
        BY <3>1
      <4>2. QED BY <3>1, <3>3, <4>1, Cut
    <3>4. QED BY <1>3, <3>2, <3>3 DEF Damage
  <2>2. /\ form # "data" /\ defect' = TRUE /\ UNCHANGED <<form, sent, tag>>
    BY <1>3 DEF Damage
  <2>3. QED BY <2>1, <2>2 DEF WireInv
<1>4. ASSUME form = "data", NEW d \in Stored, sent' = <<d>>, buf' = encode(d), tag' = d.ty,
             defect' = FALSE, form' = form
      PROVE  WireInv'
  <2>1. encode(d) \in Seq(Cells)
    <3>1. Storable(d)
      BY WireAssumption
    <3>2. QED BY <3>1, StoredReadsBack
  <2>2. QED BY <1>4, <2>1 DEF WireInv
<1>5. ASSUME form = "data", NEW b \in Loose, sent' = <<>>, buf' = b, defect' = TRUE, form' = form
      PROVE  WireInv'
  <2>1. b \in Seq(Cells)
    BY WireAssumption
  <2>2. QED BY <1>5, <2>1 DEF WireInv
<1>6. CASE UNCHANGED wireVars
  BY <1>6 DEF WireInv, wireVars
<1>7. CASE Write
  BY <1>1, <1>2, <1>7 DEF Write
<1>8. CASE Store
  BY <1>4, <1>5, <1>8 DEF Store
<1>9. QED BY <1>3, <1>6, <1>7, <1>8 DEF WireNext

(* Nothing but the records that were sent is in an undamaged buffer, and   *)
(* stored data is under its own type: the invariant holds (the kernel's    *)
(* side of registry.rs:1073-1140 and 1309-1343).                           *)
THEOREM WireInvariant == WireSpec => []WireInv
<1>1. QED BY WireInvInit, WireInvStep, PTL DEF WireSpec

(* What the invariant says of a buffer that is parsed.                     *)
LEMMA ExactFromInv == WireInv => ParseIsExact
<1> SUFFICES ASSUME WireInv PROVE ParseIsExact
  OBVIOUS
<1>1. ASSUME form = "watch" PROVE WatchParseIsExact
  <2>1. /\ sent \in Seq(Sendable) /\ buf \in Seq(Cells)
        /\ ~defect => buf = FlattenSeq(EventRecords(sent))
    BY <1>1, KernelLists DEF WireInv
  <2>2. QED BY <2>1, WatchesAreExact
<1>2. ASSUME form = "values" PROVE ValuesParseIsExact
  <2>1. /\ sent \in Seq(Recordable) /\ buf \in Seq(Cells)
        /\ ~defect => buf = FlattenSeq(ValuesBytes(sent))
    BY <1>2, KernelLists DEF WireInv
  <2>2. QED BY <2>1, ValueListsAreExact
<1>3. WatchParseIsExact
  <2>1. CASE form = "watch"
    BY <1>1, <2>1
  <2>2. CASE form # "watch"
    BY <2>2 DEF WatchParseIsExact
  <2>3. QED BY <2>1, <2>2
<1>4. ValuesParseIsExact
  <2>1. CASE form = "values"
    BY <1>2, <2>1
  <2>2. CASE form # "values"
    BY <2>2 DEF ValuesParseIsExact
  <2>3. QED BY <2>1, <2>2
<1>5. QED BY <1>3, <1>4 DEF ParseIsExact

(* What the invariant says of value data that is decoded.                  *)
LEMMA LossFromInv == WireInv => DecodeLosesNothing
<1> SUFFICES ASSUME WireInv, form = "data" PROVE DecodeLosesNothing
  BY DEF DecodeLosesNothing
<1> DEFINE d == decode(tag, buf)
<1>1. buf \in Seq(Cells)
  BY DEF WireInv
<1>2. sent # <<>> => d = sent[1]
  <2>1. SUFFICES ASSUME sent # <<>> PROVE d = sent[1]
    OBVIOUS
  <2>2. PICK e \in Stored : sent = <<e>> /\ tag = e.ty /\ buf = encode(e)
    BY <2>1 DEF WireInv
  <2>3. Storable(e)
    BY WireAssumption
  <2>4. decode(e.ty, encode(e)) = e
    BY <2>3, StoredReadsBack
  <2>5. d = e
    BY <2>2, <2>4
  <2> HIDE DEF d
  <2>6. QED BY <2>2, <2>5
<1>3. Storable(d)
  BY <1>1, DecodedIsStorable
<1>4. decode(d.ty, encode(d)) = d
  <2> HIDE DEF d
  <2>1. QED BY <1>3, StoredReadsBack
<1>5. IF d.kind = "MULTI_SZ"
      THEN Others[encode(d)] = Others[buf]
      ELSE IF d.kind \in {"SZ", "EXPAND_SZ"}
           THEN IsPrefix(d.value, buf) /\ ToSet(Drop(buf, Len(d.value))) \subseteq {NUL}
           ELSE encode(d) = buf
  BY <1>1, DecodeKeeps
<1> HIDE DEF d
<1>6. QED BY <1>2, <1>4, <1>5 DEF DecodeLosesNothing, d

(* Watch and value records are read exactly as the kernel wrote them, or   *)
(* refused, in every reachable state (registry.rs:1073-1140, 1309-1343).   *)
THEOREM ParseCorrect == WireSpec => []ParseIsExact
<1>1. QED BY WireInvariant, ExactFromInv, PTL

(* Value data decodes to what was stored, and decoding and storing again   *)
(* loses NULs only, in every reachable state (registry/data.rs:52-137).    *)
THEOREM DecodeCorrect == WireSpec => []DecodeLosesNothing
<1>1. QED BY WireInvariant, LossFromInv, PTL
=============================================================================
