---------------------------- MODULE BallotProofs ----------------------------
(***************************************************************************)
(* validate decides what a valid ballot is: for every poll, every payload  *)
(* that can be decoded and every order in which Go may range over the map  *)
(* of the amounts, it accepts the payload exactly if ValidBallot holds.    *)
(*                                                                         *)
(* The argument is an induction over data.  The library's fold is a        *)
(* recursive function over the subsets of the domain.  It is first shown   *)
(* to have a solution on a finite set (FoldExists), then to be the rounds  *)
(* of the loop one after the other (LoopRounds).  By induction over the    *)
(* rounds, the loop has returned exactly if it has met a bad entry, and    *)
(* otherwise holds the sum of the entries it has met (LoopDecides); that   *)
(* sum does not depend on the order (SumSpec).                             *)
(***************************************************************************)
EXTENDS Ballot, FiniteSetTheorems, TLAPS

-----------------------------------------------------------------------------
\* Induction over the naturals, said of the set of those that have the property.
LEMMA NatSetInduction ==
  ASSUME NEW P, 0 \in P, \A n \in Nat : n \in P => n + 1 \in P
  PROVE  \A n \in Nat : n \in P
<1> DEFINE T == Nat \ P
           R == OpToRel(<, Nat)
<1> SUFFICES ASSUME T # {} PROVE FALSE
  OBVIOUS
<1>1. \A x, y \in Nat : x < y => <<x, y>> \in R
  BY DEF OpToRel
<1>2. IsWellFoundedOn(R, Nat)
  BY NatLessThanWellFounded
<1> HIDE DEF R
<1>3. PICK x \in T : \A y \in T : ~ (<<y, x>> \in R)
  BY <1>2, WFMin
<1>4. x \in Nat /\ x - 1 \in Nat /\ x - 1 \in T /\ x - 1 < x
  OBVIOUS
<1> HIDE DEF T
<1> QED
  BY <1>1, <1>3, <1>4

\* A set of subsets of a finite set holds all of them if it holds each whose
\* subsets without one element it holds.
LEMMA SubsetInduction ==
  ASSUME NEW D, IsFiniteSet(D), NEW P,
         \A s \in SUBSET D : (\A x \in s : s \ {x} \in P) => s \in P
  PROVE  \A s \in SUBSET D : s \in P
<1> DEFINE T == (SUBSET D) \ P
           R == StrictSubsetOrdering(D)
<1> SUFFICES ASSUME T # {} PROVE FALSE
  OBVIOUS
<1>1. \A s \in SUBSET D : \A x \in s : <<s \ {x}, s>> \in R
  BY DEF StrictSubsetOrdering
<1>2. IsWellFoundedOn(R, SUBSET D)
  <2>1. FiniteSubsetsOf(D) = SUBSET D
    BY FS_FiniteSubsetsOfFinite
  <2>2. IsWellFoundedOn(R, FiniteSubsetsOf(D))
    BY FS_StrictSubsetOrderingWellFounded
  <2> QED
    BY <2>1, <2>2
<1> HIDE DEF R
<1>3. PICK s \in T : \A y \in T : ~ (<<y, s>> \in R)
  BY <1>2, WFMin
<1>4. PICK x \in s : s \ {x} \notin P
  OBVIOUS
<1>5. s \in SUBSET D /\ s \ {x} \in T
  BY <1>4
<1> HIDE DEF T
<1> QED
  BY <1>1, <1>3, <1>5

\* c picks an element of every set.
Picks(c, D) == \A s \in SUBSET D : s # {} => c[s] \in s

\* g combines, from base on, the elements of each set that c picks.
IsFold(g, D, base, op, c) ==
  \A s \in SUBSET D : g[s] = IF s = {} THEN base ELSE op[c[s]][g[s \ {c[s]}]]

\* A fold over the subsets of a finite set is a total function: the recursive
\* definition in MapThenFoldSet has a solution with values in V.
LEMMA FoldExists ==
  ASSUME NEW D, IsFiniteSet(D), NEW V, NEW base \in V, NEW op \in [D -> [V -> V]],
         NEW c, Picks(c, D)
  PROVE  \E g \in [SUBSET D -> V] : IsFold(g, D, base, op, c)
<1> USE DEF Picks, IsFold
<1> DEFINE Small(n) == {s \in SUBSET D : Cardinality(s) <= n}
           Eq(g, n) == \A s \in Small(n) : g[s] = IF s = {} THEN base ELSE op[c[s]][g[s \ {c[s]}]]
           P == {n \in Nat : \E g \in [Small(n) -> V] : Eq(g, n)}
<1>1. \A s \in SUBSET D : Cardinality(s) \in Nat /\ (Cardinality(s) = 0 <=> s = {})
  BY FS_Subset, FS_CardinalityType, FS_EmptySet
<1>2. \A s \in SUBSET D : s # {} =>
        /\ s \ {c[s]} \in SUBSET D /\ Cardinality(s \ {c[s]}) = Cardinality(s) - 1
        /\ c[s] \in D
  BY FS_Subset, FS_RemoveElement
<1>3. 0 \in P
  <2> DEFINE g == [s \in Small(0) |-> base]
  <2>1. g \in [Small(0) -> V]
    OBVIOUS
  <2>2. \A s \in Small(0) : s = {}
    BY <1>1
  <2>3. Eq(g, 0)
    BY <2>2
  <2> HIDE DEF g, Eq, Small
  <2> QED
    BY <2>1, <2>3
<1>4. ASSUME NEW n \in Nat, n \in P PROVE n + 1 \in P
  <2>1. PICK g \in [Small(n) -> V] : Eq(g, n)
    BY <1>4
  <2> DEFINE h == [s \in Small(n + 1) |-> IF s = {} THEN base ELSE op[c[s]][g[s \ {c[s]}]]]
  <2>2. \A s \in Small(n + 1) : s # {} => s \ {c[s]} \in Small(n) /\ c[s] \in D
    BY <1>1, <1>2
  <2>3. h \in [Small(n + 1) -> V]
    BY <2>2
  <2>4. ASSUME NEW s \in Small(n) PROVE s \in Small(n + 1) /\ h[s] = g[s]
    <3>1. s \in Small(n + 1)
      BY <1>1
    <3>2. h[s] = IF s = {} THEN base ELSE op[c[s]][g[s \ {c[s]}]]
      BY <3>1
    <3>3. g[s] = IF s = {} THEN base ELSE op[c[s]][g[s \ {c[s]}]]
      BY <2>1
    <3> QED
      BY <3>1, <3>2, <3>3
  <2>5. Eq(h, n + 1)
    BY <2>2, <2>4
  <2> HIDE DEF h, Eq, Small
  <2> QED
    BY <2>3, <2>5
<1>5. Cardinality(D) \in P
  <2> HIDE DEF P
  <2>1. \A n \in Nat : n \in P
    BY <1>3, <1>4, NatSetInduction
  <2> QED
    BY <1>1, <2>1
<1>6. Small(Cardinality(D)) = SUBSET D
  BY FS_Subset
<1> QED
  BY <1>5, <1>6

-----------------------------------------------------------------------------
\* MapThenSumSet adds up the numbers of a finite set in any order.
Total(m, D) == MapThenSumSet(LAMBDA o : Number(m[o]), D)

IsSum(g, m, D) ==
  /\ g[{}] = 0
  /\ \A s \in SUBSET D : \A x \in s : g[s] = Number(m[x]) + g[s \ {x}]

\* The sum over a finite set has a function that gives the sum of every subset,
\* whichever element is added last.
LEMMA SumSpec ==
  ASSUME NEW m, NEW D, IsFiniteSet(D), \A o \in D : Number(m[o]) \in Int
  PROVE  \E g \in [SUBSET D -> Int] : IsSum(g, m, D) /\ Total(m, D) = g[D]
<1> DEFINE c == [s \in SUBSET D |-> CHOOSE x \in s : TRUE]
           op == [x \in D |-> [n \in Int |-> Number(m[x]) + n]]
           F(h) == [s \in SUBSET D |-> IF s = {} THEN 0
                      ELSE Number(m[CHOOSE x \in s : TRUE]) + h[s \ {CHOOSE x \in s : TRUE}]]
           iter == CHOOSE h : h = F(h)
<1>1. \A s \in SUBSET D : c[s] = CHOOSE x \in s : TRUE
  OBVIOUS
<1>2. \A s \in SUBSET D : s # {} => c[s] \in s
  OBVIOUS
<1>3. op \in [D -> [Int -> Int]]
  OBVIOUS
<1>4. \A x \in D, n \in Int : op[x][n] = Number(m[x]) + n
  OBVIOUS
<1> HIDE DEF c, op
<1>5. PICK g \in [SUBSET D -> Int] :
        \A s \in SUBSET D : g[s] = IF s = {} THEN 0 ELSE op[c[s]][g[s \ {c[s]}]]
  <2> DEFINE V == Int
             zero == 0
  <2>1. zero \in V /\ op \in [D -> [V -> V]]
    BY <1>3
  <2> HIDE DEF V, zero, F, iter
  <2>2. \E g \in [SUBSET D -> V] : IsFold(g, D, zero, op, c)
    BY <1>2, <2>1, FoldExists DEF Picks
  <2> QED
    BY <2>2 DEF V, zero, IsFold
<1>6. \A s \in SUBSET D : g[s] = IF s = {} THEN 0 ELSE Number(m[c[s]]) + g[s \ {c[s]}]
  <2> SUFFICES ASSUME NEW s \in SUBSET D, s # {} PROVE g[s] = Number(m[c[s]]) + g[s \ {c[s]}]
    BY <1>5
  <2>1. c[s] \in D /\ g[s \ {c[s]}] \in Int
    BY <1>2
  <2> QED
    BY <1>4, <1>5, <2>1
<1>7. g = F(g)
  BY <1>1, <1>6
<1>8. iter = F(iter)
  BY <1>7
<1>9. Total(m, D) = iter[D]
  BY DEF Total, MapThenSumSet, MapThenFoldSet
<1>10. iter[D] = g[D]
  <2> DEFINE P == {s \in SUBSET D : iter[s] = g[s]}
  <2>1. \A s \in SUBSET D : iter[s] = IF s = {} THEN 0 ELSE Number(m[c[s]]) + iter[s \ {c[s]}]
    BY <1>1, <1>8
  <2> HIDE DEF iter, F
  <2>2. ASSUME NEW s \in SUBSET D, \A x \in s : s \ {x} \in P PROVE s \in P
    <3>1. CASE s = {}
      BY <1>6, <2>1, <3>1
    <3>2. CASE s # {}
      <4>1. s \ {c[s]} \in P
        BY <1>2, <2>2, <3>2
      <4> QED
        BY <1>6, <2>1, <3>2, <4>1
    <3> QED
      BY <3>1, <3>2
  <2>3. \A s \in SUBSET D : s \in P
    <3> HIDE DEF P
    <3> QED
      BY <2>2, SubsetInduction
  <2> QED
    BY <2>3
<1>11. \A s \in SUBSET D : \A x \in s : g[s] = Number(m[x]) + g[s \ {x}]
  <2> DEFINE P == {s \in SUBSET D : \A x \in s : g[s] = Number(m[x]) + g[s \ {x}]}
  <2> HIDE DEF F, iter
  <2>1. ASSUME NEW s \in SUBSET D, \A x \in s : s \ {x} \in P PROVE s \in P
    <3> SUFFICES ASSUME NEW x \in s PROVE g[s] = Number(m[x]) + g[s \ {x}]
      OBVIOUS
    <3> DEFINE y == c[s]
               t == (s \ {x}) \ {y}
    <3>1. y \in s /\ g[s] = Number(m[y]) + g[s \ {y}]
      BY <1>2, <1>6
    <3> HIDE DEF y
    <3>2. CASE x = y
      BY <3>1, <3>2
    <3>3. CASE x # y
      <4>1. g[s \ {y}] = Number(m[x]) + g[(s \ {y}) \ {x}]
        BY <2>1, <3>1, <3>3
      <4>2. g[s \ {x}] = Number(m[y]) + g[t]
        BY <2>1, <3>1, <3>3
      <4>3. (s \ {y}) \ {x} = t
        OBVIOUS
      <4>4. Number(m[x]) \in Int /\ Number(m[y]) \in Int /\ g[t] \in Int
        BY <3>1
      <4> DEFINE a == Number(m[x])
                 b == Number(m[y])
                 z == g[t]
      <4> HIDE DEF t, P
      <4>5. g[s] = b + (a + z)
        BY <3>1, <4>1, <4>3
      <4>6. b + (a + z) = a + (b + z)
        <5>1. a \in Int /\ b \in Int /\ z \in Int
          BY <4>4
        <5> HIDE DEF a, b, z
        <5> QED
          BY <5>1
      <4> QED
        BY <4>2, <4>5, <4>6
    <3> QED
      BY <3>2, <3>3
  <2>2. \A s \in SUBSET D : s \in P
    <3> HIDE DEF P
    <3> QED
      BY <2>1, SubsetInduction
  <2> QED
    BY <2>2
<1> QED
  <2> HIDE DEF F, iter
  <2> QED
    BY <1>6, <1>9, <1>10, <1>11 DEF IsSum
-----------------------------------------------------------------------------
(***************************************************************************)
(* The loop of validate.                                                   *)
(***************************************************************************)
Acc == [returned : BOOLEAN, sum : Int]
NoAcc == [returned |-> FALSE, sum |-> 0]

Bad(p, amounts, o) ==
  amounts[o] < 0 \/ amounts[o] > Default(p.maxVotesPerOption, 1) \/ o \notin p.optionIDs

\* A round returns at a bad entry and adds the amount of a good one.
LEMMA VisitRound ==
  ASSUME NEW p, NEW amounts, NEW o, amounts[o] \in Int, NEW acc \in Acc
  PROVE  LET next == Visit(p, amounts, acc, o) IN
         /\ next \in Acc
         /\ next.returned <=> acc.returned \/ Bad(p, amounts, o)
         /\ ~next.returned => next.sum = acc.sum + amounts[o]
BY DEF Visit, Bad, Acc

IntsOver(amounts, D) == \A o \in D : amounts[o] \in Int

\* The loop, and what its rounds leave one after the other.
Loop(p, amounts, order) ==
  MapThenFoldSet(LAMBDA o, acc : Visit(p, amounts, acc, o), NoAcc,
                 LAMBDA i : order[i], Max, DOMAIN order)

IsLoop(e, p, amounts, order, n) ==
  /\ e[0] = NoAcc
  /\ \A i \in 1 .. n : e[i] = Visit(p, amounts, e[i - 1], order[i])

\* The loop over the amounts is its rounds, one after the other, in the order of
\* the map.
LEMMA LoopRounds ==
  ASSUME NEW p, NEW amounts, NEW D, NEW n \in Nat, NEW order \in [1 .. n -> D],
         IntsOver(amounts, D)
  PROVE  \E e : IsLoop(e, p, amounts, order, n) /\ Loop(p, amounts, order) = e[n]
<1> DEFINE S == 1 .. n
           c == [s \in SUBSET S |-> Max(s)]
           op == [i \in S |-> [acc \in Acc |-> Visit(p, amounts, acc, order[i])]]
           F(h) == [s \in SUBSET S |-> IF s = {} THEN NoAcc
                      ELSE Visit(p, amounts, h[s \ {Max(s)}], order[Max(s)])]
           iter == CHOOSE h : h = F(h)
<1>1. ASSUME NEW s \in SUBSET S, s # {} PROVE c[s] \in s
  <2>1. \E x \in s : \A y \in s : x >= y
    <3>1. IsFiniteSet(S)
      BY FS_Interval
    <3> DEFINE P == {u \in SUBSET S : u # {} => \E x \in u : \A y \in u : x >= y}
    <3>2. ASSUME NEW u \in SUBSET S, \A x \in u : u \ {x} \in P PROVE u \in P
      <4> SUFFICES ASSUME u # {} PROVE \E x \in u : \A y \in u : x >= y
        OBVIOUS
      <4>1. PICK z \in u : TRUE
        OBVIOUS
      <4>2. CASE u = {z}
        BY <4>2
      <4>3. CASE u # {z}
        <5>1. PICK x \in u \ {z} : \A y \in u \ {z} : x >= y
          BY <3>2, <4>3
        <5>2. x \in Int /\ z \in Int /\ \A y \in u : y \in Int
          OBVIOUS
        <5>3. CASE x >= z
          BY <5>1, <5>2, <5>3
        <5>4. CASE z >= x
          BY <5>1, <5>2, <5>4
        <5> QED
          BY <5>2, <5>3, <5>4
      <4> QED
        BY <4>2, <4>3
    <3>3. s \in P
      <4> HIDE DEF P, S
      <4> QED
        BY <3>1, <3>2, SubsetInduction
    <3> QED
      BY <1>1, <3>3
  <2> QED
    BY <2>1 DEF Max
<1>2. Picks(c, S)
  BY <1>1 DEF Picks
<1>3. op \in [S -> [Acc -> Acc]]
  BY VisitRound DEF IntsOver
<1>4. PICK g \in [SUBSET S -> Acc] : IsFold(g, S, NoAcc, op, c)
  <2>1. NoAcc \in Acc /\ IsFiniteSet(S)
    BY FS_Interval DEF NoAcc, Acc
  <2> HIDE DEF S, c, op, F, iter
  <2> QED
    BY <1>2, <1>3, <2>1, FoldExists
<1>5. ASSUME NEW s \in SUBSET S, s # {}
      PROVE  g[s] = Visit(p, amounts, g[s \ {Max(s)}], order[Max(s)])
  <2>1. c[s] \in S /\ g[s \ {c[s]}] \in Acc /\ c[s] = Max(s)
    BY <1>1, <1>5
  <2>2. g[s] = op[c[s]][g[s \ {c[s]}]]
    BY <1>4, <1>5 DEF IsFold
  <2> HIDE DEF c
  <2> QED
    BY <2>1, <2>2
<1>6. g[{}] = NoAcc
  BY <1>4 DEF IsFold
<1>7. g = F(g)
  BY <1>5, <1>6
<1>8. iter = F(iter)
  BY <1>7
<1>9. Loop(p, amounts, order) = iter[S]
  BY DEF Loop, MapThenFoldSet
<1>10. iter[1 .. 0] = NoAcc
  <2>1. 1 .. 0 = {}
    OBVIOUS
  <2> QED
    BY <1>8, <2>1
<1>11. ASSUME NEW i \in 1 .. n
       PROVE  iter[1 .. i] = Visit(p, amounts, iter[1 .. (i - 1)], order[i])
  <2>1. 1 .. i \in SUBSET S /\ 1 .. i # {} /\ (1 .. i) \ {i} = 1 .. (i - 1)
    <3> HIDE DEF c, op, F, iter
    <3>1. 1 .. i \in SUBSET S
      OBVIOUS
    <3>2. i \in 1 .. i
      OBVIOUS
    <3>3. (1 .. i) \ {i} = 1 .. (i - 1)
      OBVIOUS
    <3> QED
      BY <3>1, <3>2, <3>3
  <2>2. Max(1 .. i) = i
    BY DEF Max
  <2> QED
    BY <1>8, <2>1, <2>2
<1> QED
  <2> HIDE DEF F, iter
  <2> DEFINE e == [i \in 0 .. n |-> iter[1 .. i]]
  <2>1. e[0] = NoAcc /\ e[n] = iter[S]
    BY <1>10
  <2>2. ASSUME NEW i \in 1 .. n PROVE e[i] = Visit(p, amounts, e[i - 1], order[i])
    <3>1. i \in 0 .. n /\ i - 1 \in 0 .. n
      OBVIOUS
    <3> QED
      BY <1>11, <3>1
  <2>3. IsLoop(e, p, amounts, order, n)
    <3> HIDE DEF e
    <3> QED
      BY <2>1, <2>2 DEF IsLoop
  <2> HIDE DEF e
  <2> QED
    BY <1>9, <2>1, <2>3

\* Whatever the order, the loop returns early exactly when some entry is bad, and
\* otherwise ends with the sum of all of them.
LEMMA LoopDecides ==
  ASSUME NEW p, NEW amounts, NEW m, NEW D, IsFiniteSet(D), NEW order \in Orders(D),
         \A o \in D : amounts[o] \in Int /\ Number(m[o]) = amounts[o]
  PROVE  /\ Loop(p, amounts, order) \in Acc
         /\ Loop(p, amounts, order).returned <=> \E o \in D : Bad(p, amounts, o)
         /\ ~Loop(p, amounts, order).returned =>
              Loop(p, amounts, order).sum = Total(m, D)
<1> DEFINE n == Cardinality(D)
           Seen(i) == {order[k] : k \in 1 .. i}
<1>1. n \in Nat
  BY FS_CardinalityType
<1>2. order \in [1 .. n -> D] /\ \A i, k \in 1 .. n : i # k => order[i] # order[k]
  BY DEF Orders, Bijection, Injection, IsInjective
<1>3. Seen(n) = D
  BY <1>2 DEF Orders, Bijection, Surjection
<1> HIDE DEF n
<1>4. PICK e : IsLoop(e, p, amounts, order, n) /\ Loop(p, amounts, order) = e[n]
  <2>1. IntsOver(amounts, D)
    BY DEF IntsOver
  <2>2. order \in [1 .. n -> D]
    BY <1>2
  <2> HIDE DEF Seen
  <2> QED
    BY <1>1, <2>1, <2>2, LoopRounds
<1>5. PICK g \in [SUBSET D -> Int] : IsSum(g, m, D) /\ Total(m, D) = g[D]
  <2>1. \A o \in D : Number(m[o]) \in Int
    OBVIOUS
  <2> QED
    BY <2>1, SumSpec
<1> DEFINE Right(i) == /\ e[i] \in Acc
                       /\ e[i].returned <=> \E o \in Seen(i) : Bad(p, amounts, o)
                       /\ ~e[i].returned => e[i].sum = g[Seen(i)]
           P == {i \in Nat : i <= n => Right(i)}
<1>6. Right(0)
  <2>1. Seen(0) = {}
    OBVIOUS
  <2>2. e[0] \in Acc /\ ~e[0].returned /\ e[0].sum = 0
    BY <1>4 DEF IsLoop, NoAcc, Acc
  <2>3. g[Seen(0)] = 0
    BY <1>5, <2>1 DEF IsSum
  <2> HIDE DEF Seen
  <2> QED
    BY <2>1, <2>2, <2>3
<1>7. ASSUME NEW i \in Nat, i + 1 <= n, Right(i) PROVE Right(i + 1)
  <2> DEFINE o == order[i + 1]
             new == e[i + 1]
  <2>1. i + 1 \in 1 .. n /\ (i + 1) - 1 = i /\ o \in D
    BY <1>1, <1>2, <1>7
  <2>2. new = Visit(p, amounts, e[i], o)
    BY <1>4, <2>1 DEF IsLoop
  <2>3. Seen(i + 1) = Seen(i) \cup {o} /\ o \notin Seen(i) /\ Seen(i + 1) \subseteq D
    BY <1>1, <1>2, <2>1
  <2> HIDE DEF Seen, new, o
  <2>4. /\ new \in Acc
        /\ new.returned <=> e[i].returned \/ Bad(p, amounts, o)
        /\ ~new.returned => new.sum = e[i].sum + amounts[o]
    <3>1. e[i] \in Acc /\ amounts[o] \in Int
      BY <1>7, <2>1
    <3> QED
      BY <2>2, <3>1, VisitRound
  <2>5. Seen(i + 1) \ {o} = Seen(i) /\ Seen(i) \in SUBSET D
    BY <2>3
  <2>6. g[Seen(i + 1)] = amounts[o] + g[Seen(i)]
    <3>1. g[Seen(i + 1)] = Number(m[o]) + g[Seen(i + 1) \ {o}]
      BY <1>5, <2>3 DEF IsSum
    <3> QED
      BY <2>1, <2>5, <3>1
  <2>7. new.returned <=> \E x \in Seen(i + 1) : Bad(p, amounts, x)
    BY <1>7, <2>3, <2>4
  <2>8. ~new.returned => new.sum = g[Seen(i + 1)]
    <3>1. amounts[o] \in Int /\ g[Seen(i)] \in Int
      BY <2>1, <2>5
    <3> DEFINE a == amounts[o]
               z == g[Seen(i)]
    <3>2. ~new.returned => new.sum = z + a
      BY <1>7, <2>4
    <3>3. z + a = a + z
      <4> HIDE DEF a, z
      <4> QED
        BY <3>1 DEF a, z
    <3> QED
      BY <2>6, <3>2, <3>3
  <2> QED
    BY <2>4, <2>7, <2>8 DEF new
<1>8. \A i \in Nat : i \in P
  <2>1. 0 \in P
    BY <1>6
  <2>2. ASSUME NEW i \in Nat, i \in P PROVE i + 1 \in P
    <3> HIDE DEF Right
    <3> QED
      BY <1>1, <1>7, <2>2
  <2> HIDE DEF P
  <2> QED
    BY <2>1, <2>2, NatSetInduction
<1>9. Right(n)
  <2> HIDE DEF Right
  <2> QED
    BY <1>1, <1>8
<1> QED
  <2> HIDE DEF Seen
  <2> QED
    BY <1>3, <1>4, <1>5, <1>9

\* The amounts that are decoded from the members of an object.
LEMMA DecodedAmounts ==
  ASSUME NEW j, JSON(j), AllOf(j, "int")
  PROVE  /\ IsFiniteSet(DOMAIN j.members) /\ DOMAIN Amounts(j) = DOMAIN j.members
         /\ \A o \in DOMAIN j.members :
              /\ j.members[o].kind \in {"int", "null"}
              /\ Amounts(j)[o] \in Int
              /\ Number(j.members[o]) = Amounts(j)[o]
<1>1. IsFiniteSet(DOMAIN j.members) /\ \A o \in DOMAIN j.members : j.members[o] \in JScalars
  BY DEF AllOf, JSON, JScalars, JNull, JOther, JAbsent
<1>2. ASSUME NEW m \in JScalars, m.kind \in {"int", "null"}
      PROVE  (IF m = JNull THEN 0 ELSE m.int) \in Int
             /\ Number(m) = IF m = JNull THEN 0 ELSE m.int
  BY <1>2 DEF JScalars, JNull, JOther, Number
<1>3. ASSUME NEW o \in DOMAIN j.members
      PROVE  /\ j.members[o].kind \in {"int", "null"}
             /\ Amounts(j)[o] \in Int
             /\ Number(j.members[o]) = Amounts(j)[o]
  <2>1. j.members[o] \in JScalars /\ j.members[o].kind \in {"int", "null"}
    BY <1>1 DEF AllOf
  <2>2. Amounts(j)[o] = IF j.members[o] = JNull THEN 0 ELSE j.members[o].int
    BY DEF Amounts
  <2> QED
    BY <1>2, <2>1, <2>2
<1> QED
  BY <1>1, <1>3 DEF Amounts

\* validate accepts exactly the amounts that are a distribution.
LEMMA AmountsDecide ==
  ASSUME NEW p, PollFields(p), NEW j, JSON(j), AllOf(j, "int"),
         NEW order \in Orders(DOMAIN j.members)
  PROVE  p.pollmethod \in {"Y", "N"} /\ AmountsFit(p, Amounts(j), order)
         <=> Distribution(p, j)
<1> DEFINE D == DOMAIN j.members
           a == Amounts(j)
           end == Loop(p, a, order)
           total == Total(j.members, D)
<1>1. IsFiniteSet(D) /\ \A o \in D : j.members[o].kind \in {"int", "null"}
                                      /\ a[o] \in Int /\ Number(j.members[o]) = a[o]
  BY DecodedAmounts
<1>2. /\ end \in Acc
      /\ end.returned <=> \E o \in D : Bad(p, a, o)
      /\ ~end.returned => end.sum = total
  <2>1. \A o \in D : a[o] \in Int /\ Number(j.members[o]) = a[o]
    BY <1>1
  <2> HIDE DEF a
  <2> QED
    BY <1>1, <2>1, LoopDecides
<1>3. AmountsFit(p, a, order) <=>
        /\ ~end.returned
        /\ Default(p.minVotesAmount, 1) <= end.sum
        /\ end.sum <= Default(p.maxVotesAmount, 1)
  BY DEF AmountsFit, Loop, NoAcc
<1>4. Distribution(p, j) <=>
        /\ p.pollmethod \in {"Y", "N"}
        /\ j.kind = "object"
        /\ D \subseteq p.optionIDs
        /\ \A o \in D : /\ j.members[o].kind \in {"int", "null"}
                        /\ Number(j.members[o]) \in 0 .. Default(p.maxVotesPerOption, 1)
        /\ total \in Default(p.minVotesAmount, 1) .. Default(p.maxVotesAmount, 1)
  BY DEF Distribution, Total
<1> DEFINE lo == Default(p.minVotesAmount, 1)
           hi == Default(p.maxVotesAmount, 1)
           most == Default(p.maxVotesPerOption, 1)
<1>5. lo \in Nat /\ hi \in Nat /\ most \in Nat
  BY DEF PollFields, Default
<1>6. j.kind = "object"
  BY DEF AllOf
<1>7. \A o \in D : Bad(p, a, o) <=> (o \notin p.optionIDs \/ a[o] \notin 0 .. most)
  <2> SUFFICES ASSUME NEW o \in D
               PROVE  Bad(p, a, o) <=> (o \notin p.optionIDs \/ a[o] \notin 0 .. most)
    OBVIOUS
  <2>1. a[o] \in Int
    BY <1>1
  <2> HIDE DEF a
  <2> QED
    BY <1>5, <2>1 DEF Bad
<1> HIDE DEF D, a, end, total, lo, hi, most
<1>8. ~end.returned <=> D \subseteq p.optionIDs /\ \A o \in D : a[o] \in 0 .. most
  BY <1>2, <1>7
<1>9. ~end.returned => (total \in lo .. hi <=> lo <= end.sum /\ end.sum <= hi)
  BY <1>2, <1>5 DEF Acc
<1>10. Distribution(p, j) <=> /\ p.pollmethod \in {"Y", "N"}
                                 /\ ~end.returned
                                 /\ total \in lo .. hi
  BY <1>1, <1>4, <1>6, <1>8 DEF lo, hi, most
<1>11. AmountsFit(p, a, order) <=> ~end.returned /\ lo <= end.sum /\ end.sum <= hi
  BY <1>3 DEF lo, hi
<1>12. p.pollmethod \in {"Y", "N"} /\ AmountsFit(p, a, order) <=> Distribution(p, j)
  BY <1>9, <1>10, <1>11
<1> QED
  BY <1>12 DEF a

\* A JSON string determines its text.
LEMMA JStringInjective ==
  ASSUME NEW x, NEW y PROVE JString(x) = JString(y) <=> x = y
<1>1. JString(x).str = x /\ JString(y).str = y
  BY DEF JString
<1> QED
  BY <1>1

\* validate accepts exactly the answers that are one for each of some options.
LEMMA AnswersDecide ==
  ASSUME NEW p, PollFields(p), NEW j, JSON(j), AllOf(j, "string")
  PROVE  p.pollmethod \in {"YN", "YNA"} /\ AnswersFit(p, Answers(j))
         <=> AnswerPerOption(p, j)
<1> DEFINE D == DOMAIN j.members
           a == Answers(j)
           answers == IF p.pollmethod = "YNA" THEN {"Y", "N", "A"} ELSE {"Y", "N"}
           lo == Default(p.minVotesAmount, 1)
           hi == Default(p.maxVotesAmount, Cardinality(p.optionIDs))
           n == Cardinality(D)
<1>1. IsFiniteSet(D) /\ j.kind = "object" /\ \A o \in D : j.members[o] \in JScalars
  BY DEF AllOf, JSON, JScalars, JNull, JOther, JAbsent
<1>2. lo \in Nat /\ hi \in Nat /\ n \in Nat
  BY <1>1, FS_CardinalityType DEF PollFields, Default
<1>3. DOMAIN a = D
  BY DEF Answers
<1>4. ASSUME NEW m \in JScalars, m.kind \in {"string", "null"}, NEW s \in {"Y", "N", "A"}
      PROVE  m = JString(s) <=> (IF m = JNull THEN "" ELSE m.str) = s
  <2>1. CASE m = JNull
    BY <2>1 DEF JNull, JString
  <2>2. CASE m # JNull
    <3>1. m \in [kind : {"string"}, str : STRING]
      BY <1>4, <2>2 DEF JScalars, JNull, JOther
    <3>2. m = JString(m.str)
      BY <3>1 DEF JString
    <3> QED
      BY <2>2, <3>2, JStringInjective
  <2> QED
    BY <2>1, <2>2
<1>5. ASSUME NEW o \in D, NEW s \in {"Y", "N", "A"}
      PROVE  j.members[o] = JString(s) <=> a[o] = s
  <2>1. j.members[o] \in JScalars /\ j.members[o].kind \in {"string", "null"}
    BY <1>1 DEF AllOf
  <2>2. a[o] = IF j.members[o] = JNull THEN "" ELSE j.members[o].str
    BY DEF Answers
  <2> QED
    BY <1>4, <2>1, <2>2
<1>6. AnswerPerOption(p, j) <=>
        /\ p.pollmethod \in {"YN", "YNA"}
        /\ D \subseteq p.optionIDs
        /\ \A o \in D : \E s \in answers : j.members[o] = JString(s)
        /\ n \in lo .. hi
  BY <1>1 DEF AnswerPerOption
<1>7. AnswersFit(p, a) <=>
        /\ lo <= n /\ n <= hi
        /\ \A o \in D : /\ o \in p.optionIDs
                        /\ a[o] \in {"Y", "N"} \/ (a[o] = "A" /\ p.pollmethod = "YNA")
  BY <1>3 DEF AnswersFit
<1>8. \A o \in D : (\E s \in answers : j.members[o] = JString(s))
                  <=> a[o] \in {"Y", "N"} \/ (a[o] = "A" /\ p.pollmethod = "YNA")
  <2> HIDE DEF D, a
  <2> QED
    BY <1>5
<1>9. n \in lo .. hi <=> lo <= n /\ n <= hi
  <2> HIDE DEF n, lo, hi
  <2> QED
    BY <1>2
<1>10. p.pollmethod \in {"YN", "YNA"} /\ AnswersFit(p, a) <=> AnswerPerOption(p, j)
  <2> HIDE DEF D, a, answers, lo, hi, n
  <2> QED
    BY <1>6, <1>7, <1>8, <1>9
<1> QED
  BY <1>10

\* validate, behind the decoding of UnmarshalJSON and whatever the order in which
\* the loop visits the map, accepts exactly the ballots that the poll allows.
THEOREM ValidateDecides ==
  ASSUME NEW p, PollFields(p), NEW j, JSON(j), Decodable(j),
         NEW order \in VisitOrders(UnmarshalJSON(j))
  PROVE  validate(p, UnmarshalJSON(j), order) <=> ValidBallot(p, j)
<1> DEFINE v == UnmarshalJSON(j)
<1>1. CASE j.kind = "string"
  <2>1. j = JString(j.str)
    BY <1>1 DEF JSON, JScalars, JNull, JOther, JAbsent, JString, JObject
  <2>2. v = [str |-> j.str, optionAmount |-> NilMap, optionYNA |-> NilMap]
    BY <1>1 DEF UnmarshalJSON, ballotValue
  <2> HIDE DEF v
  <2>3. /\ Type(v) = IF j.str # "" THEN "String" ELSE "Unknown"
        /\ v.str = j.str
    <3>1. v.str = j.str /\ v.optionAmount.nil = TRUE /\ v.optionYNA.nil = TRUE
      BY <2>2 DEF NilMap
    <3> QED
      BY <3>1 DEF Type
  <2>4. validate(p, v, order) <=> /\ p.pollmethod \in {"Y", "N", "YN", "YNA"}
                                     /\ j.str # "" /\ j.str \in p.global
    BY <2>3 DEF validate
  <2>5. \A s : j = JString(s) <=> j.str = s
    BY <2>1, JStringInjective
  <2>6. GlobalAnswer(p, j) <=> /\ p.pollmethod \in {"Y", "N", "YN", "YNA"}
                                  /\ j.str # "" /\ j.str \in p.global
    <3>1. p.global \subseteq {"Y", "N", "A"}
      BY DEF PollFields
    <3> QED
      BY <2>5, <3>1 DEF GlobalAnswer
  <2>7. ~Distribution(p, j) /\ ~AnswerPerOption(p, j)
    BY <1>1 DEF Distribution, AnswerPerOption
  <2> QED
    BY <2>4, <2>6, <2>7 DEF ValidBallot, v
<1>2. CASE j.kind \in {"null", "absent"}
  <2>1. v = [str |-> "", optionAmount |-> NilMap, optionYNA |-> NilMap]
    BY <1>2 DEF UnmarshalJSON, ballotValue
  <2> HIDE DEF v
  <2>2. Type(v) = "Unknown"
    <3>1. v.str = "" /\ v.optionAmount.nil = TRUE /\ v.optionYNA.nil = TRUE
      BY <2>1 DEF NilMap
    <3> QED
      BY <3>1 DEF Type
  <2>3. ~validate(p, v, order)
    BY <2>2 DEF validate
  <2>4. ~ValidBallot(p, j)
    BY <1>2 DEF ValidBallot, GlobalAnswer, Distribution, AnswerPerOption, JString
  <2> QED
    BY <2>3, <2>4 DEF v
<1>3. CASE j.kind = "object" /\ AllOf(j, "int")
  <2>1. v = [str |-> "", optionAmount |-> GoMap(Amounts(j)), optionYNA |-> NilMap]
    BY <1>3 DEF UnmarshalJSON, ballotValue
  <2> HIDE DEF v
  <2>2. Type(v) = "OptionAmount" /\ v.optionAmount.map = Amounts(j)
    <3>1. /\ v.str = "" /\ v.optionAmount.nil = FALSE
          /\ v.optionAmount.map = Amounts(j)
      BY <2>1 DEF GoMap
    <3> QED
      BY <3>1 DEF Type
  <2>3. order \in Orders(DOMAIN j.members)
    BY <1>3, <2>2, DecodedAmounts DEF VisitOrders, v
  <2>4. validate(p, v, order) <=> /\ p.pollmethod \in {"Y", "N"}
                                     /\ AmountsFit(p, Amounts(j), order)
    BY <2>2 DEF validate
  <2>5. ~GlobalAnswer(p, j)
    BY <1>3 DEF GlobalAnswer, JString
  <2>6. ~AnswerPerOption(p, j)
    <3>1. CASE DOMAIN j.members = {}
      <4>1. Cardinality(DOMAIN j.members) = 0
        BY <3>1, FS_EmptySet
      <4>2. Default(p.minVotesAmount, 1) \in Nat \ {0}
        BY DEF PollFields, Default
      <4>3. Default(p.maxVotesAmount, Cardinality(p.optionIDs)) \in Nat
        BY FS_CardinalityType DEF PollFields, Default
      <4> QED
        BY <4>1, <4>2, <4>3 DEF AnswerPerOption
    <3>2. CASE DOMAIN j.members # {}
      <4>1. PICK o \in DOMAIN j.members : j.members[o].kind \in {"int", "null"}
        BY <1>3, <3>2 DEF AllOf
      <4> QED
        <5>1. \A s : JString(s).kind = "string"
          BY DEF JString
        <5>2. \A s : j.members[o] # JString(s)
          BY <4>1, <5>1
        <5> QED
          BY <5>2 DEF AnswerPerOption
    <3> QED
      BY <3>1, <3>2
  <2> QED
    BY <1>3, <2>3, <2>4, <2>5, <2>6, AmountsDecide DEF ValidBallot, v
<1>4. CASE j.kind = "object" /\ ~AllOf(j, "int") /\ AllOf(j, "string")
  <2>1. v = [str |-> "", optionAmount |-> NilMap, optionYNA |-> GoMap(Answers(j))]
    BY <1>4 DEF UnmarshalJSON, ballotValue
  <2> HIDE DEF v
  <2>2. Type(v) = "OptionString" /\ v.optionYNA.map = Answers(j)
    <3>1. /\ v.str = "" /\ v.optionAmount.nil = TRUE /\ v.optionYNA.nil = FALSE
          /\ v.optionYNA.map = Answers(j)
      BY <2>1 DEF GoMap, NilMap
    <3> QED
      BY <3>1 DEF Type
  <2>3. validate(p, v, order) <=> /\ p.pollmethod \in {"YN", "YNA"}
                                     /\ AnswersFit(p, Answers(j))
    BY <2>2 DEF validate
  <2>4. ~GlobalAnswer(p, j)
    BY <1>4 DEF GlobalAnswer, JString
  <2>5. ~Distribution(p, j)
    BY <1>4 DEF Distribution, AllOf
  <2> QED
    BY <1>4, <2>3, <2>4, <2>5, AnswersDecide DEF ValidBallot, v
<1> QED
  BY <1>1, <1>2, <1>3, <1>4 DEF Decodable, AllOf
=============================================================================
