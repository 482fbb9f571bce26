---------------------------- MODULE CommonLemmas ----------------------------
(***************************************************************************)
(* What several proofs rest on.  In a finite set with an order every       *)
(* number below the set's size is the position of exactly one element.     *)
(* What holds of an element when it holds of the smaller ones holds of     *)
(* all, and a recursion on smaller elements has a solution.  And what      *)
(* joining and cutting sequences gives, place by place.                    *)
(***************************************************************************)
EXTENDS Positions, FiniteSetTheorems, FunctionTheorems, SequenceTheorems,
        WellFoundedInduction, TLAPS

(* The lesser of two elements has the lower position, and every position   *)
(* is below the number of elements.                                        *)
LEMMA PositionsOrdered ==
  ASSUME NEW S, IsFiniteSet(S), NEW less, Orders(less, S)
  PROVE  /\ \A x \in S : Position(S, less, x) \in 0 .. Cardinality(S) - 1
         /\ \A x, y \in S : <<x, y>> \in less => Position(S, less, x) < Position(S, less, y)
<1>1. ASSUME NEW x \in S
      PROVE  /\ IsFiniteSet(Preceding(S, less, x)) /\ Cardinality(Preceding(S, less, x)) \in Nat
             /\ IsFiniteSet(Preceding(S, less, x) \cup {x})
             /\ Cardinality(Preceding(S, less, x) \cup {x}) = Cardinality(Preceding(S, less, x)) + 1
  <2>1. Preceding(S, less, x) \in SUBSET S /\ x \notin Preceding(S, less, x)
    BY DEF Orders, Preceding
  <2>2. IsFiniteSet(Preceding(S, less, x)) /\ Cardinality(Preceding(S, less, x)) \in Nat
    BY <2>1, FS_Subset, FS_CardinalityType
  <2>3. QED BY <2>1, <2>2, FS_AddElement
<1>2. ASSUME NEW x \in S
      PROVE  Position(S, less, x) \in 0 .. Cardinality(S) - 1
  <2>1. Preceding(S, less, x) \cup {x} \in SUBSET S
    BY DEF Preceding
  <2>2. Cardinality(Preceding(S, less, x) \cup {x}) <= Cardinality(S) /\ Cardinality(S) \in Nat
    BY <2>1, FS_Subset, FS_CardinalityType
  <2>3. /\ Cardinality(Preceding(S, less, x)) \in Nat
        /\ Cardinality(Preceding(S, less, x)) + 1 <= Cardinality(S)
    BY <1>1, <2>2
  <2>4. QED BY <2>2, <2>3 DEF Position
<1>3. ASSUME NEW x \in S, NEW y \in S, <<x, y>> \in less
      PROVE  Position(S, less, x) < Position(S, less, y)
  <2>1. Preceding(S, less, x) \cup {x} \in SUBSET Preceding(S, less, y)
    BY <1>3 DEF Orders, Preceding
  <2>2. Cardinality(Preceding(S, less, x) \cup {x}) <= Cardinality(Preceding(S, less, y))
    BY <1>1, <2>1, FS_Subset
  <2>3. /\ Cardinality(Preceding(S, less, x)) \in Nat
        /\ Cardinality(Preceding(S, less, y)) \in Nat
        /\ Cardinality(Preceding(S, less, x)) + 1 <= Cardinality(Preceding(S, less, y))
    BY <1>1, <2>2
  <2>4. QED BY <2>3 DEF Position
<1>4. QED BY <1>2, <1>3

(* Every position below the number of elements is one element's, and Nth   *)
(* is that element.                                                        *)
LEMMA NthAtPosition ==
  ASSUME NEW S, IsFiniteSet(S), NEW less, Orders(less, S),
         NEW i \in 0 .. Cardinality(S) - 1
  PROVE  Nth(S, less, i) \in S /\ Position(S, less, Nth(S, less, i)) = i
<1> DEFINE P == 0 .. Cardinality(S) - 1
           at == [x \in S |-> Position(S, less, x)]
<1>1. Cardinality(S) \in Nat
  BY FS_CardinalityType
<1>2. at \in [S -> P]
  BY PositionsOrdered
<1>3. \A x, y \in S : at[x] = at[y] => x = y
  <2> SUFFICES ASSUME NEW x \in S, NEW y \in S, x # y PROVE at[x] # at[y]
    OBVIOUS
  <2>1. at[x] \in P /\ at[y] \in P
    BY <1>2
  <2>2. at[x] < at[y] \/ at[y] < at[x]
    BY PositionsOrdered DEF Orders
  <2>3. QED BY <1>1, <2>1, <2>2
<1>4. at \in Injection(S, P)
  BY <1>2, <1>3 DEF Injection, IsInjective
<1>5. IsFiniteSet(P) /\ Cardinality(P) = Cardinality(S)
  BY <1>1, FS_Interval
<1>6. at \in Surjection(S, P)
  BY <1>4, <1>5, FS_Injection
<1>7. \E x \in S : Position(S, less, x) = i
  BY <1>6 DEF Surjection
<1>8. QED BY <1>7 DEF Nth

(* Nth gives each element once, the lesser first.                          *)
LEMMA NthOrdered ==
  ASSUME NEW S, IsFiniteSet(S), NEW less, Orders(less, S),
         NEW i \in 0 .. Cardinality(S) - 1, NEW j \in 0 .. Cardinality(S) - 1, i < j
  PROVE  <<Nth(S, less, i), Nth(S, less, j)>> \in less
<1> DEFINE x == Nth(S, less, i)  y == Nth(S, less, j)
<1>1. x \in S /\ y \in S /\ Position(S, less, x) = i /\ Position(S, less, y) = j
  BY NthAtPosition
<1>2. x # y
  BY <1>1
<1>3. <<y, x>> \notin less
  BY <1>1, PositionsOrdered
<1>4. QED BY <1>1, <1>2, <1>3 DEF Orders

(* The element at its own position. *)
LEMMA NthOfPosition ==
  ASSUME NEW S, IsFiniteSet(S), NEW less, Orders(less, S), NEW x \in S
  PROVE  Nth(S, less, Position(S, less, x)) = x
<1> DEFINE p == Position(S, less, x)
           y == Nth(S, less, p)
<1>1. p \in 0 .. Cardinality(S) - 1
  BY PositionsOrdered
<1>2. y \in S /\ Position(S, less, y) = p
  BY <1>1, NthAtPosition
<1>3. <<x, y>> \notin less /\ <<y, x>> \notin less
  <2>1. Cardinality(S) \in Nat
    BY FS_CardinalityType
  <2>2. p \in Int
    BY <1>1, <2>1
  <2>3. QED BY <1>2, <2>2, PositionsOrdered
<1>4. QED BY <1>2, <1>3 DEF Orders

(* The order of integers, on any set of them. *)
LEMMA BelowOrders == ASSUME NEW T, T \subseteq Int, NEW S, S \subseteq T
                     PROVE Orders(Below(T), S)
BY DEF Orders, Below

-----------------------------------------------------------------------------
\* Less-than on the naturals, as a relation, is well founded.
LEMMA LessIsWellFounded ==
  \E R : IsWellFoundedOn(R, Nat) /\ \A x, y \in Nat : y < x => <<y, x>> \in R
<1>1. \A x, y \in Nat : y < x => <<y, x>> \in OpToRel(<, Nat)
  BY DEF OpToRel
<1>2. QED BY <1>1, NatLessThanWellFounded, Zenon

\* A set of naturals has a least element.
LEMMA Least ==
  ASSUME NEW S \in SUBSET Nat, S # {}
  PROVE  \E n \in S : \A m \in S : n <= m
<1>1. PICK R : IsWellFoundedOn(R, Nat) /\ \A x, y \in Nat : y < x => <<y, x>> \in R
  BY LessIsWellFounded
<1>2. PICK n \in S : \A m \in S : ~(<<m, n>> \in R)
  BY <1>1, WFMin
<1>3. ASSUME NEW m \in S PROVE n <= m
  <2>1. n \in Nat /\ m \in Nat
    OBVIOUS
  <2>2. ~(m < n)
    BY <1>1, <1>2, <2>1
  <2>3. QED BY <2>1, <2>2
<1>4. QED BY <1>3

(* The sets that have each element all whose smaller ones they have.       *)
Inductive(D, size) ==
    {S \in SUBSET D : \A x \in D : (\A y \in D : size[y] < size[x] => y \in S) => x \in S}

(* Induction over a size: such a set has every element.                    *)
LEMMA BySize ==
  ASSUME NEW D, NEW size \in [D -> Nat], NEW S \in Inductive(D, size)
  PROVE  \A x \in D : x \in S
<1>5. S \in SUBSET D /\ \A x \in D : (\A y \in D : size[y] < size[x] => y \in S) => x \in S
  BY DEF Inductive
<1> DEFINE Bad == {size[x] : x \in D \ S}
<1>1. Bad \in SUBSET Nat
  OBVIOUS
<1>2. CASE Bad # {}
  <2>1. PICK n \in Bad : \A m \in Bad : n <= m
    BY <1>1, <1>2, Least
  <2>2. PICK x \in D \ S : n = size[x]
    OBVIOUS
  <2>3. ASSUME NEW y \in D, size[y] < size[x] PROVE y \in S
    <3>1. size[y] \in Nat /\ size[x] \in Nat
      OBVIOUS
    <3>2. y \in D \ S => size[y] \in Bad
      OBVIOUS
    <3> HIDE DEF Bad
    <3>3. size[y] \in Bad => n <= size[y]
      BY <2>1
    <3>4. QED BY <2>2, <2>3, <3>1, <3>2, <3>3
  <2>4. QED BY <1>5, <2>2, <2>3
<1>3. CASE Bad = {}
  BY <1>3
<1>4. QED BY <1>2, <1>3

(* Equations f = F[f] whose right side at an argument depends on the       *)
(* function at smaller arguments only.                                     *)
Recursions(D, R, size) ==
    {F \in [[D -> R] -> [D -> R]] :
        \A g, h \in [D -> R] : \A x \in D :
            (\A y \in D : size[y] < size[x] => g[y] = h[y]) => F[g][x] = F[h][x]}

Solvable(F) == \E f \in DOMAIN F : f = F[f]

(* Such an equation has a solution.                                        *)
LEMMA RecursiveOnSize ==
  ASSUME NEW D, NEW R, R # {}, NEW size \in [D -> Nat], NEW F \in Recursions(D, R, size)
  PROVE  Solvable(F)
<1>9. PICK any \in R : TRUE
  OBVIOUS
<1>10. /\ F \in [[D -> R] -> [D -> R]]
       /\ \A g, h \in [D -> R] : \A x \in D :
            (\A y \in D : size[y] < size[x] => g[y] = h[y]) => F[g][x] = F[h][x]
  BY DEF Recursions
<1> DEFINE Right(g, n) == g \in [D -> R] /\ \A x \in D : size[x] < n => g[x] = F[g][x]
<1>1. \A x \in D : size[x] \in Nat
  OBVIOUS
<1>2. \A g \in [D -> R] : F[g] \in [D -> R]
  BY <1>10
<1>3. \A n \in Nat : \E g : Right(g, n)
  <2> DEFINE Good == {n \in Nat : \E g : Right(g, n)}
             id == [n \in Nat |-> n]
  <2>1. ASSUME NEW n \in Nat, \A m \in Nat : id[m] < id[n] => m \in Good
        PROVE  n \in Good
    <3>1. CASE n = 0
      <4>1. Right([x \in D |-> any], n)
        BY <3>1, <1>1
      <4>2. QED BY <4>1
    <3>2. CASE n # 0
      <4>1. n - 1 \in Nat /\ n - 1 < n
        BY <3>2
      <4>2. n - 1 \in Good
        BY <2>1, <4>1
      <4>3. PICK g : Right(g, n - 1)
        BY <4>2
      <4>4. ASSUME NEW x \in D, size[x] < n PROVE F[g][x] = F[F[g]][x]
        <5>1. ASSUME NEW y \in D, size[y] < size[x] PROVE g[y] = F[g][y]
          <6>1. size[y] < n - 1
            BY <1>1, <4>4, <5>1
          <6>2. QED BY <4>3, <6>1
        <5>2. g \in [D -> R] /\ F[g] \in [D -> R]
          BY <1>2, <4>3
        <5>3. QED BY <1>10, <5>1, <5>2
      <4>5. Right(F[g], n)
        BY <1>2, <4>3, <4>4
      <4>6. QED BY <4>5
    <3>3. QED BY <3>1, <3>2
  <2>2. id \in [Nat -> Nat]
    OBVIOUS
  <2>3. Good \in Inductive(Nat, id)
    BY <2>1 DEF Inductive
  <2> HIDE DEF Good, id
  <2>4. \A n \in Nat : n \in Good
    BY <2>2, <2>3, BySize
  <2>5. QED BY <2>4 DEF Good
<1>4. ASSUME NEW n \in Nat, NEW g, NEW h, Right(g, n), Right(h, n)
      PROVE  \A x \in D : size[x] < n => g[x] = h[x]
  <2> DEFINE Same == {x \in D : size[x] < n => g[x] = h[x]}
  <2>1. ASSUME NEW x \in D, \A y \in D : size[y] < size[x] => y \in Same
        PROVE  x \in Same
    <3>1. CASE size[x] < n
      <4>1. ASSUME NEW y \in D, size[y] < size[x] PROVE g[y] = h[y]
        <5>1. size[y] < n
          BY <1>1, <3>1, <4>1
        <5>2. QED BY <2>1, <4>1, <5>1
      <4>2. F[g][x] = F[h][x]
        BY <4>1, <1>4, <1>10
      <4>3. QED BY <1>4, <3>1, <4>2
    <3>2. QED BY <3>1
  <2>2. Same \in Inductive(D, size)
    BY <2>1 DEF Inductive
  <2> HIDE DEF Same
  <2>4. \A x \in D : x \in Same
    BY <2>2, BySize
  <2>5. QED BY <2>4 DEF Same
<1> DEFINE G(n) == CHOOSE g : Right(g, n)
           f == [x \in D |-> G(size[x] + 1)[x]]
<1>5. \A n \in Nat : Right(G(n), n)
  BY <1>3
<1> HIDE DEF G
<1>6. ASSUME NEW x \in D PROVE f[x] = F[f][x] /\ f[x] \in R
  <2> DEFINE g == G(size[x] + 1)
  <2>1. size[x] + 1 \in Nat /\ size[x] < size[x] + 1
    BY <1>1
  <2>2. Right(g, size[x] + 1)
    BY <1>5, <2>1
  <2>3. f[x] = g[x] /\ g[x] = F[g][x] /\ g \in [D -> R]
    BY <2>1, <2>2
  <2>4. ASSUME NEW y \in D, size[y] < size[x] PROVE g[y] = f[y]
    <3>1. size[y] + 1 \in Nat /\ size[y] < size[y] + 1 /\ size[y] + 1 <= size[x] + 1
      BY <1>1, <2>4
    <3>2. Right(G(size[y] + 1), size[y] + 1)
      BY <1>5, <3>1
    <3>3. Right(g, size[y] + 1)
      BY <2>2, <3>1, <1>1, <2>1
    <3>4. g[y] = G(size[y] + 1)[y]
      BY <1>4, <3>1, <3>2, <3>3
    <3>5. QED BY <3>4
  <2>5. f \in [D -> R]
    <3>1. ASSUME NEW z \in D PROVE f[z] \in R
      <4>1. size[z] + 1 \in Nat
        BY <1>1
      <4>2. G(size[z] + 1) \in [D -> R]
        BY <1>5, <4>1
      <4>3. QED BY <4>2
    <3>2. QED BY <3>1
  <2>6. F[g][x] = F[f][x]
    BY <1>10, <2>3, <2>4, <2>5
  <2>7. QED BY <2>3, <2>5, <2>6
<1>7. f \in [D -> R]
  BY <1>6
<1>8. f = F[f]
  BY <1>2, <1>6, <1>7
<1>11. QED BY <1>7, <1>8, <1>10 DEF Solvable

-----------------------------------------------------------------------------
(* What joining two sequences gives, place by place.                       *)
LEMMA Joined ==
  ASSUME NEW S, NEW a \in Seq(S), NEW b \in Seq(S)
  PROVE  /\ a \o b \in Seq(S) /\ Len(a) \in Nat /\ Len(b) \in Nat /\ Len(a \o b) = Len(a) + Len(b)
         /\ \A i \in 1 .. Len(a) : (a \o b)[i] = a[i]
         /\ \A i \in 1 .. Len(b) : (a \o b)[Len(a) + i] = b[i]
<1>1. Len(a) \in Nat /\ Len(b) \in Nat
  BY LenProperties
<1>2. /\ a \o b \in Seq(S) /\ Len(a \o b) = Len(a) + Len(b)
      /\ \A i \in 1 .. Len(a) + Len(b) : (a \o b)[i] = IF i <= Len(a) THEN a[i] ELSE b[i - Len(a)]
  BY ConcatProperties
<1>3. ASSUME NEW i \in 1 .. Len(a) PROVE (a \o b)[i] = a[i]
  BY <1>1, <1>2
<1>4. ASSUME NEW i \in 1 .. Len(b) PROVE (a \o b)[Len(a) + i] = b[i]
  <2>1. Len(a) + i \in 1 .. Len(a) + Len(b) /\ ~(Len(a) + i <= Len(a)) /\ (Len(a) + i) - Len(a) = i
    BY <1>1
  <2>2. QED BY <1>2, <2>1
<1>5. QED BY <1>1, <1>2, <1>3, <1>4

(* The first n elements of a sequence, and what is behind them.            *)
LEMMA Cut ==
  ASSUME NEW S, NEW b \in Seq(S), NEW n \in Nat, n <= Len(b)
  PROVE  /\ SubSeq(b, 1, n) \in Seq(S) /\ Len(SubSeq(b, 1, n)) = n
         /\ SubSeq(b, n + 1, Len(b)) \in Seq(S) /\ Len(SubSeq(b, n + 1, Len(b))) = Len(b) - n
         /\ \A i \in 1 .. n : SubSeq(b, 1, n)[i] = b[i]
         /\ \A i \in 1 .. Len(b) - n : SubSeq(b, n + 1, Len(b))[i] = b[n + i]
         /\ b = SubSeq(b, 1, n) \o SubSeq(b, n + 1, Len(b))
<1>1. Len(b) \in Nat /\ \A i \in 1 .. Len(b) : b[i] \in S
  BY LenProperties, ElementOfSeq
<1>2. /\ SubSeq(b, 1, n) \in Seq(S) /\ Len(SubSeq(b, 1, n)) = n
      /\ \A i \in 1 .. n : SubSeq(b, 1, n)[i] = b[i]
  BY <1>1, SubSeqProperties
<1>3. /\ SubSeq(b, n + 1, Len(b)) \in Seq(S) /\ Len(SubSeq(b, n + 1, Len(b))) = Len(b) - n
      /\ \A i \in 1 .. Len(b) - n : SubSeq(b, n + 1, Len(b))[i] = b[n + i]
  BY <1>1, SubSeqProperties
<1> DEFINE front == SubSeq(b, 1, n)
           back == SubSeq(b, n + 1, Len(b))
           c == front \o back
<1>4. /\ front \in Seq(S) /\ Len(front) = n /\ \A i \in 1 .. n : front[i] = b[i]
      /\ back \in Seq(S) /\ Len(back) = Len(b) - n
      /\ \A i \in 1 .. Len(b) - n : back[i] = b[n + i]
  BY <1>2, <1>3
<1> HIDE DEF front, back
<1>5. /\ c \in Seq(S) /\ Len(c) = Len(front) + Len(back)
      /\ \A i \in 1 .. Len(front) : c[i] = front[i]
      /\ \A i \in 1 .. Len(back) : c[Len(front) + i] = back[i]
  BY <1>4, Joined
<1> HIDE DEF c
<1>6. Len(front) = n /\ Len(back) = Len(b) - n /\ Len(c) = Len(b)
  BY <1>1, <1>5, <1>4
<1>7. ASSUME NEW i \in 1 .. Len(b) PROVE c[i] = b[i]
  <2>1. CASE i <= n
    BY <1>1, <1>5, <1>6, <1>4, <2>1
  <2>2. CASE ~(i <= n)
    <3>1. i - n \in 1 .. Len(b) - n /\ n + (i - n) = i
      BY <1>1, <2>2
    <3>2. c[n + (i - n)] = back[i - n]
      BY <1>5, <1>6, <3>1
    <3>3. back[i - n] = b[n + (i - n)]
      BY <1>4, <3>1
    <3>4. QED BY <3>1, <3>2, <3>3
  <2>3. QED BY <2>1, <2>2
<1>8. c = b
  BY <1>5, <1>6, <1>7, SeqEqual
<1>9. QED BY <1>2, <1>3, <1>8 DEF front, back, c

(* Two sequences joined come apart again.                                  *)
LEMMA Parted ==
  ASSUME NEW S, NEW a \in Seq(S), NEW b \in Seq(S)
  PROVE  SubSeq(a \o b, 1, Len(a)) = a /\ SubSeq(a \o b, Len(a) + 1, Len(a \o b)) = b
<1> DEFINE c == a \o b
           front == SubSeq(c, 1, Len(a))
           back == SubSeq(c, Len(a) + 1, Len(c))
<1>1. /\ c \in Seq(S) /\ Len(a) \in Nat /\ Len(b) \in Nat /\ Len(c) = Len(a) + Len(b)
      /\ \A i \in 1 .. Len(a) : c[i] = a[i]
      /\ \A i \in 1 .. Len(b) : c[Len(a) + i] = b[i]
  BY Joined
<1> HIDE DEF c
<1>2. Len(a) <= Len(c) /\ Len(c) - Len(a) = Len(b)
  BY <1>1
<1>3. /\ front \in Seq(S) /\ Len(front) = Len(a) /\ \A i \in 1 .. Len(a) : front[i] = c[i]
      /\ back \in Seq(S) /\ Len(back) = Len(b) /\ \A i \in 1 .. Len(b) : back[i] = c[Len(a) + i]
  BY <1>1, <1>2, Cut
<1> HIDE DEF front, back
<1>4. front = a
  BY <1>1, <1>3, SeqEqual
<1>5. back = b
  BY <1>1, <1>3, SeqEqual
<1>6. QED BY <1>4, <1>5 DEF front, back, c

(* An element in front of a sequence, and taken off again.                 *)
LEMMA Headed ==
  ASSUME NEW S, NEW x \in S, NEW t \in Seq(S)
  PROVE  /\ <<x>> \o t \in Seq(S) /\ Len(<<x>> \o t) = Len(t) + 1 /\ <<x>> \o t # <<>>
         /\ (<<x>> \o t)[1] = x /\ Tail(<<x>> \o t) = t
<1>1. <<x>> \in Seq(S) /\ Len(<<x>>) = 1 /\ <<x>>[1] = x
  OBVIOUS
<1>2. <<x>> \o t \in Seq(S) /\ Len(t) \in Nat /\ Len(<<x>> \o t) = 1 + Len(t) /\ (<<x>> \o t)[1] = x
  BY <1>1, Joined
<1>3. <<x>> \o t # <<>>
  BY <1>2
<1>4. SubSeq(<<x>> \o t, 2, Len(<<x>> \o t)) = t
  BY <1>1, Parted
<1>5. Tail(<<x>> \o t) = t
  BY <1>2, <1>3, <1>4, TailIsSubSeq
<1>6. QED BY <1>2, <1>3, <1>5

(* A sequence that is not empty is its first element and the rest.         *)
LEMMA HeadAndTail ==
  ASSUME NEW S, NEW b \in Seq(S), b # <<>>
  PROVE  /\ b[1] \in S /\ Tail(b) \in Seq(S) /\ Len(Tail(b)) = Len(b) - 1
         /\ b = <<b[1]>> \o Tail(b) /\ Len(b) \in Nat \ {0}
         /\ \A i \in 1 .. Len(Tail(b)) : Tail(b)[i] = b[i + 1]
<1>1. /\ Len(b) \in Nat \ {0} /\ Tail(b) \in Seq(S) /\ Len(Tail(b)) = Len(b) - 1 /\ b[1] \in S
      /\ \A i \in 1 .. Len(Tail(b)) : Tail(b)[i] = b[i + 1]
  BY HeadTailProperties
<1>2. Len(Tail(b)) \in Nat
  BY <1>1, LenProperties
<1> DEFINE c == <<b[1]>> \o Tail(b)
<1>3. <<b[1]>> \in Seq(S) /\ Len(<<b[1]>>) = 1 /\ <<b[1]>>[1] = b[1]
  BY <1>1
<1>4. /\ c \in Seq(S) /\ Len(c) = 1 + Len(Tail(b)) /\ c[1] = b[1]
      /\ \A i \in 1 .. Len(Tail(b)) : c[1 + i] = Tail(b)[i]
  BY <1>1, <1>3, Joined
<1> HIDE DEF c
<1>5. ASSUME NEW i \in 1 .. Len(c) PROVE c[i] = b[i]
  <2>1. CASE i = 1
    BY <1>4, <2>1
  <2>2. CASE i # 1
    <3>1. i - 1 \in 1 .. Len(Tail(b)) /\ 1 + (i - 1) = i /\ (i - 1) + 1 = i
      BY <1>2, <1>4, <2>2
    <3>2. QED BY <1>1, <1>4, <3>1
  <2>3. QED BY <2>1, <2>2
<1>6. c = b
  BY <1>1, <1>2, <1>4, <1>5, SeqEqual
<1>7. QED BY <1>1, <1>6 DEF c

(* Two sequences joined, under a name that the provers do not expand.      *)
Cat(a, b) == a \o b

(* Joining is associative.                                                 *)
LEMMA Associative ==
  ASSUME NEW S, NEW a \in Seq(S), NEW b \in Seq(S), NEW c \in Seq(S)
  PROVE  Cat(a, b) \in Seq(S) /\ Cat(Cat(a, b), c) = Cat(a, Cat(b, c))
BY ConcatAssociative, ConcatProperties, SMTT(30) DEF Cat

(* A sequence that starts with x and goes on as t.                         *)
LEMMA Shifted ==
  ASSUME NEW S, NEW s \in Seq(S), NEW t \in Seq(S), NEW x \in S,
         Len(s) = Len(t) + 1, s[1] = x, \A i \in 1 .. Len(t) : s[i + 1] = t[i]
  PROVE  s = <<x>> \o t
<1>1. Len(t) \in Nat /\ s # <<>>
  BY LenProperties
<1>2. /\ s = <<s[1]>> \o Tail(s) /\ Tail(s) \in Seq(S) /\ Len(Tail(s)) = Len(s) - 1
      /\ \A i \in 1 .. Len(Tail(s)) : Tail(s)[i] = s[i + 1]
  BY <1>1, HeadAndTail
<1>3. Tail(s) = t
  <2> DEFINE r == Tail(s)
  <2>1. r \in Seq(S) /\ Len(r) = Len(t) /\ \A i \in 1 .. Len(r) : r[i] = t[i]
    BY <1>1, <1>2
  <2> HIDE DEF r
  <2>2. r = t
    BY <2>1, SeqEqual
  <2>3. QED BY <2>2 DEF r
<1>4. QED BY <1>2, <1>3

(* When two sequences joined are over T, each is.                          *)
LEMMA BothTyped ==
  ASSUME NEW S, NEW T, NEW a \in Seq(S), NEW b \in Seq(S), a \o b \in Seq(T)
  PROVE  a \in Seq(T) /\ b \in Seq(T)
<1> DEFINE c == a \o b
<1>1. /\ Len(a) \in Nat /\ Len(b) \in Nat /\ Len(c) = Len(a) + Len(b)
      /\ \A i \in 1 .. Len(a) : c[i] = a[i]
      /\ \A i \in 1 .. Len(b) : c[Len(a) + i] = b[i]
  BY Joined
<1>2. c \in Seq(T)
  OBVIOUS
<1> HIDE DEF c
<1>3. \A i \in 1 .. Len(c) : c[i] \in T
  BY <1>2, ElementOfSeq
<1>4. \A i \in 1 .. Len(a) : a[i] \in T
  BY <1>1, <1>3
<1>5. \A i \in 1 .. Len(b) : b[i] \in T
  <2>1. ASSUME NEW i \in 1 .. Len(b) PROVE b[i] \in T
    <3>1. Len(a) + i \in 1 .. Len(c)
      BY <1>1
    <3>2. QED BY <1>1, <1>3, <3>1
  <2>2. QED BY <2>1
<1>6. a = [i \in 1 .. Len(a) |-> a[i]] /\ b = [i \in 1 .. Len(b) |-> b[i]]
  BY LenProperties
<1>7. QED BY <1>1, <1>4, <1>5, <1>6
=============================================================================
