----------------------------- MODULE TallyProofs ----------------------------
(***************************************************************************)
(* What the proofs about tallies rest on: a tally counts the values of its *)
(* function wherever the domain ends, and it changes by what one value     *)
(* changes.                                                                *)
(***************************************************************************)
EXTENDS Tallies, TLAPS, FiniteSetTheorems

\* A tally of finitely many values.
Tallied(f) == IsFiniteSet(DOMAIN f) /\ \A x \in DOMAIN f : f[x] \in Nat

\* The pairs of one argument.
Column(f, x) == {x} \X (1 .. ValueAt(f, x))

\* What is below a function is a pair of an argument and a smaller number.
LEMMA PairBelow ==
  ASSUME NEW f, Tallied(f), NEW p \in Below(f)
  PROVE  /\ p = <<p[1], p[2]>> /\ p[1] \in DOMAIN f /\ p[2] \in Nat
         /\ p[2] >= 1 /\ p[2] <= ValueAt(f, p[1])
  <1>1. PICK x \in DOMAIN f : p \in {x} \X (1 .. f[x])
    BY DEF Below
  <1>2. PICK i \in 1 .. f[x] : p = <<x, i>>
    BY <1>1
  <1>3. f[x] \in Nat /\ ValueAt(f, x) = f[x]
    BY DEF Tallied, ValueAt
  <1>4. p[1] = x /\ p[2] = i /\ i \in Nat /\ i >= 1 /\ i <= f[x]
    BY <1>2, <1>3
  <1> QED
    BY <1>2, <1>3, <1>4

\* Every such pair is below it.
LEMMA BelowPair ==
  ASSUME NEW f, Tallied(f), NEW x, NEW i \in Nat, i >= 1, i <= ValueAt(f, x)
  PROVE  <<x, i>> \in Below(f)
  <1>1. x \in DOMAIN f /\ ValueAt(f, x) = f[x]
    BY DEF ValueAt
  <1>2. i \in 1 .. f[x]
    BY <1>1 DEF Tallied
  <1>3. <<x, i>> \in {x} \X (1 .. f[x])
    BY <1>2
  <1> QED
    BY <1>1, <1>3 DEF Below

\* A column has as many pairs as its value.
LEMMA ColumnSize ==
  ASSUME NEW f, Tallied(f), NEW x
  PROVE  /\ IsFiniteSet(Column(f, x)) /\ ValueAt(f, x) \in Nat
         /\ Cardinality(Column(f, x)) = ValueAt(f, x)
  <1>1. ValueAt(f, x) \in Nat
    BY DEF Tallied, ValueAt
  <1>2. IsFiniteSet(1 .. ValueAt(f, x)) /\ Cardinality(1 .. ValueAt(f, x)) = ValueAt(f, x)
    BY <1>1, FS_Interval
  <1>3. IsFiniteSet({x}) /\ Cardinality({x}) = 1
    BY FS_Singleton
  <1> QED
    BY <1>1, <1>2, <1>3, FS_Product DEF Column

\* Finitely many values have a finite tally.
LEMMA TallyType ==
  ASSUME NEW f, Tallied(f)
  PROVE  IsFiniteSet(Below(f)) /\ Tally(f) \in Nat
  <1> DEFINE Columns == {{x} \X (1 .. f[x]) : x \in DOMAIN f}
             h == [x \in DOMAIN f |-> {x} \X (1 .. f[x])]
  <1>1. h \in Surjection(DOMAIN f, Columns)
    BY DEF Surjection
  <1>2. IsFiniteSet(Columns)
    BY <1>1, FS_Surjection DEF Tallied
  <1>3. \A C \in Columns : IsFiniteSet(C)
    <2> SUFFICES ASSUME NEW x \in DOMAIN f PROVE IsFiniteSet({x} \X (1 .. f[x]))
      OBVIOUS
    <2> QED
      BY ColumnSize DEF Column, ValueAt
  <1>4. IsFiniteSet(UNION Columns)
    BY <1>2, <1>3, FS_UNION
  <1> QED
    BY <1>4, FS_CardinalityType DEF Below, Tally

\* A tally depends on the values only, not on where the domain ends.
LEMMA TallySame ==
  ASSUME NEW f, NEW g, Tallied(f), Tallied(g), \A y : ValueAt(f, y) = ValueAt(g, y)
  PROVE  Tally(f) = Tally(g)
  <1>3. ASSUME NEW a, NEW b, Tallied(a), Tallied(b),
               \A y : ValueAt(a, y) = ValueAt(b, y), NEW p \in Below(a)
        PROVE  p \in Below(b)
    <2>1. /\ p = <<p[1], p[2]>> /\ p[2] \in Nat
          /\ p[2] >= 1 /\ p[2] <= ValueAt(b, p[1])
      BY <1>3, PairBelow
    <2>2. <<p[1], p[2]>> \in Below(b)
      BY <1>3, <2>1, BelowPair
    <2> QED
      BY <2>1, <2>2
  <1>4. \A a, b : Tallied(a) /\ Tallied(b) /\ (\A y : ValueAt(a, y) = ValueAt(b, y))
                   => Below(a) \subseteq Below(b)
    BY <1>3
  <1>5. Below(f) = Below(g)
    BY <1>4
  <1> QED
    BY <1>5 DEF Tally

\* When one value changes, the tally changes by as much.
LEMMA TallyChange ==
  ASSUME NEW f, NEW g, Tallied(f), Tallied(g), NEW x,
         \A y : y # x => ValueAt(f, y) = ValueAt(g, y)
  PROVE  Tally(g) + ValueAt(f, x) = Tally(f) + ValueAt(g, x)
  <1> DEFINE Rest(h) == Below(h) \ Column(h, x)
  <1>1. ASSUME NEW h, Tallied(h)
        PROVE  IsFiniteSet(Rest(h)) /\ Cardinality(Rest(h)) + ValueAt(h, x) = Tally(h)
               /\ Cardinality(Rest(h)) \in Nat
    <2>1. Column(h, x) \subseteq Below(h)
      <3> SUFFICES ASSUME NEW p \in Column(h, x) PROVE p \in Below(h)
        OBVIOUS
      <3>1. x \in DOMAIN h /\ h[x] \in Nat /\ ValueAt(h, x) = h[x]
        BY <1>1 DEF Column, ValueAt, Tallied
      <3>2. p \in {x} \X (1 .. h[x])
        BY <3>1 DEF Column
      <3> QED
        BY <3>1, <3>2 DEF Below
    <2>2. IsFiniteSet(Below(h)) /\ Tally(h) \in Nat
      BY <1>1, TallyType
    <2>3. /\ IsFiniteSet(Rest(h))
          /\ Cardinality(Rest(h)) = Tally(h) - Cardinality(Below(h) \cap Column(h, x))
      BY <2>2, FS_Difference DEF Tally
    <2>4. Below(h) \cap Column(h, x) = Column(h, x)
      BY <2>1
    <2>5. Cardinality(Rest(h)) \in Nat
      BY <2>3, FS_CardinalityType
    <2>6. ValueAt(h, x) \in Nat /\ Cardinality(Column(h, x)) = ValueAt(h, x)
      BY <1>1, ColumnSize
    <2>7. Cardinality(Rest(h)) = Tally(h) - ValueAt(h, x)
      BY <2>3, <2>4, <2>6
    <2> HIDE DEF Rest
    <2>8. Cardinality(Rest(h)) + ValueAt(h, x) = Tally(h)
      BY <2>2, <2>5, <2>6, <2>7
    <2> QED
      BY <2>3, <2>5, <2>8
  <1>2. ASSUME NEW a, NEW b, Tallied(a), Tallied(b),
               \A y : y # x => ValueAt(a, y) = ValueAt(b, y), NEW p \in Rest(a)
        PROVE  p \in Rest(b)
    <2>1. /\ p = <<p[1], p[2]>> /\ p[2] \in Nat
          /\ p[2] >= 1 /\ p[2] <= ValueAt(a, p[1])
      BY <1>2, PairBelow
    <2>2. p[1] # x
      <3> SUFFICES ASSUME p[1] = x PROVE FALSE
        OBVIOUS
      <3>1. p[2] \in 1 .. ValueAt(a, x)
        BY <1>2, <2>1, ColumnSize
      <3>2. <<x, p[2]>> \in {x} \X (1 .. ValueAt(a, x))
        BY <3>1
      <3> QED
        BY <1>2, <2>1, <3>2 DEF Column
    <2>3. <<p[1], p[2]>> \in Below(b)
      BY <1>2, <2>1, <2>2, BelowPair
    <2>4. p \notin Column(b, x)
      <3> SUFFICES ASSUME p \in {x} \X (1 .. ValueAt(b, x)) PROVE FALSE
        BY DEF Column
      <3> QED
        BY <2>2
    <2> QED
      BY <2>1, <2>3, <2>4
  <1>3. Rest(f) = Rest(g)
    BY <1>2
  <1>4. ValueAt(f, x) \in Nat /\ ValueAt(g, x) \in Nat
    BY ColumnSize
  <1> HIDE DEF Rest
  <1>5. /\ Cardinality(Rest(f)) + ValueAt(f, x) = Tally(f)
        /\ Cardinality(Rest(g)) + ValueAt(g, x) = Tally(g)
        /\ Cardinality(Rest(f)) \in Nat
    BY <1>1
  <1> QED
    BY <1>3, <1>4, <1>5

\* The tally of nothing is 0.
LEMMA TallyZero ==
  ASSUME NEW f, Tallied(f), \A x \in DOMAIN f : f[x] = 0
  PROVE  Tally(f) = 0
  <1>1. Below(f) = {}
    <2> SUFFICES ASSUME NEW p \in Below(f) PROVE FALSE
      OBVIOUS
    <2>1. p[1] \in DOMAIN f /\ p[2] \in Nat /\ p[2] >= 1 /\ p[2] <= ValueAt(f, p[1])
      BY PairBelow
    <2> QED
      BY <2>1 DEF ValueAt
  <1> QED
    BY <1>1, FS_EmptySet DEF Tally

\* A tally is no less than any of its values, and zero only if they all are.
LEMMA TallyMember ==
  ASSUME NEW f, Tallied(f), NEW x \in DOMAIN f
  PROVE  f[x] <= Tally(f)
  <1>1. Column(f, x) \subseteq Below(f)
    <2>1. Column(f, x) = {x} \X (1 .. f[x])
      BY DEF Column, ValueAt
    <2> QED
      BY <2>1 DEF Below
  <1> QED
    BY <1>1, TallyType, ColumnSize, FS_Subset DEF Tally, ValueAt

\* Smaller values have a smaller tally.
LEMMA TallyMonotone ==
  ASSUME NEW f, NEW g, Tallied(f), Tallied(g), \A y : ValueAt(f, y) <= ValueAt(g, y)
  PROVE  Tally(f) <= Tally(g)
  <1>1. ASSUME NEW p \in Below(f) PROVE p \in Below(g)
    <2>1. /\ p = <<p[1], p[2]>> /\ p[2] \in Nat
          /\ p[2] >= 1 /\ p[2] <= ValueAt(f, p[1])
      BY PairBelow
    <2>2. ValueAt(f, p[1]) \in Nat /\ ValueAt(g, p[1]) \in Nat
      BY ColumnSize
    <2>3. p[2] <= ValueAt(g, p[1])
      BY <2>1, <2>2
    <2>4. <<p[1], p[2]>> \in Below(g)
      BY <2>1, <2>3, BelowPair
    <2> QED
      BY <2>1, <2>4
  <1>2. Below(f) \subseteq Below(g)
    BY <1>1
  <1> QED
    BY <1>2, TallyType, FS_Subset DEF Tally

\* The cardinality of a union of finitely many finite sets that have nothing
\* in common is the tally of their cardinalities.
LEMMA TallyUnion ==
  ASSUME NEW I, IsFiniteSet(I), NEW S, \A i \in I : IsFiniteSet(S[i]),
         \A i, j \in I : i # j => S[i] \cap S[j] = {}
  PROVE  Cardinality(UNION {S[i] : i \in I}) = Tally([i \in I |-> Cardinality(S[i])])
  <1> DEFINE f == [i \in I |-> Cardinality(S[i])]
             U == UNION {S[i] : i \in I}
             B(i) == Bijection(1 .. Cardinality(S[i]), S[i])
             E == [i \in I |-> CHOOSE e : e \in B(i)]
             G == [p \in Below(f) |-> E[p[1]][p[2]]]
  <1>1. Tallied(f)
    BY FS_CardinalityType DEF Tallied
  <1>2. \A i \in I : E[i] \in B(i)
    BY FS_CardinalityType DEF ExistsBijection
  <1>3. ASSUME NEW i \in I
        PROVE  /\ E[i] \in [1 .. f[i] -> S[i]]
               /\ \A a, b \in 1 .. f[i] : E[i][a] = E[i][b] => a = b
               /\ \A x \in S[i] : \E a \in 1 .. f[i] : E[i][a] = x
    <2>1. f[i] = Cardinality(S[i]) /\ E[i] \in Bijection(1 .. f[i], S[i])
      BY <1>2
    <2> HIDE DEF f, E
    <2> QED
      BY <2>1 DEF Bijection, Injection, Surjection, IsInjective
  <1>4. \A p \in Below(f) :
          p = <<p[1], p[2]>> /\ p[1] \in I /\ p[2] \in 1 .. f[p[1]]
    BY DEF Below
  <1>5. \A i \in I : \A a \in 1 .. f[i] : <<i, a>> \in Below(f)
    BY DEF Below
  <1> HIDE DEF f, E
  <1>6. \A p \in Below(f) : G[p] \in S[p[1]] /\ G[p] \in U
    <2> SUFFICES ASSUME NEW p \in Below(f) PROVE G[p] \in S[p[1]] /\ G[p] \in U
      OBVIOUS
    <2>1. G[p] = E[p[1]][p[2]] /\ p[1] \in I /\ p[2] \in 1 .. f[p[1]]
      BY <1>4
    <2>2. G[p] \in S[p[1]]
      BY <1>3, <2>1
    <2> QED
      BY <2>1, <2>2
  <1>7. \A p, q \in Below(f) : G[p] = G[q] => p = q
    <2> SUFFICES ASSUME NEW p \in Below(f), NEW q \in Below(f), G[p] = G[q]
        PROVE p = q
      OBVIOUS
    <2>1. p[1] = q[1]
      BY <1>4, <1>6
    <2>2. p[2] = q[2]
      BY <1>3, <1>4, <2>1
    <2> QED
      BY <1>4, <2>1, <2>2
  <1>8. \A x \in U : \E p \in Below(f) : G[p] = x
    <2> SUFFICES ASSUME NEW x \in U PROVE \E p \in Below(f) : G[p] = x
      OBVIOUS
    <2>1. PICK i \in I : x \in S[i]
      OBVIOUS
    <2>2. PICK a \in 1 .. f[i] : E[i][a] = x
      BY <1>3, <2>1
    <2>3. <<i, a>> \in Below(f) /\ G[<<i, a>>] = x
      BY <1>5, <2>2
    <2> QED
      BY <2>3
  <1>9. G \in Bijection(Below(f), U)
    BY <1>6, <1>7, <1>8 DEF Bijection, Injection, Surjection, IsInjective
  <1>10. Cardinality(U) = Cardinality(Below(f))
    BY <1>1, <1>9, TallyType, FS_Bijection DEF ExistsBijection
  <1> QED
    BY <1>10 DEF Tally, f
=============================================================================
