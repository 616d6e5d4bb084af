--------------------------- MODULE TradingProofs ---------------------------
(***************************************************************************)
(* Proofs about Trading, for any symbols, lots, limits, prices and queue   *)
(* sizes and any number of orders: fills are conserved on their way into   *)
(* the positions, the profit is accounted for, and the position limit      *)
(* holds where the checks can make it hold.                                *)
(***************************************************************************)
EXTENDS Trading, FiniteSetTheorems, SequenceTheorems, WellFoundedInduction, TLAPS

-----------------------------------------------------------------------------
(* Sums.  The fold of the Functions module is a function on the subsets of *)
(* a set, given by a recursive equation.  That such a function exists, and *)
(* what it gives, is by induction on the number of elements; an induction  *)
(* is put as a set of numbers that has 0 and the successor of each member. *)

\* A set of numbers with 0 and the successor of each member has every number.
LEMMA Induction ==
    ASSUME NEW S, S \subseteq Nat, 0 \in S, \A n \in S : n + 1 \in S
    PROVE  S = Nat
<1> DEFINE R == OpToRel(<, Nat)
           T == Nat \ S
<1>1. IsWellFoundedOn(R, Nat) BY NatLessThanWellFounded, Zenon
<1>2. \A m, n \in Nat : m < n => <<m, n>> \in R BY DEF OpToRel
<1> HIDE DEF R
<1>3. SUFFICES ASSUME T # {} PROVE FALSE OBVIOUS
<1>4. PICK m \in T : \A n \in T : ~(<<n, m>> \in R) BY <1>1, <1>3, WFMin
<1>5. m # 0 /\ m - 1 \in Nat /\ m - 1 < m BY <1>4
<1>6. m - 1 \in S BY <1>2, <1>4, <1>5
<1>7. (m - 1) + 1 \in S BY <1>6
<1> QED BY <1>4, <1>7

Pick(S) == CHOOSE x \in S : TRUE

\* g is the sum of f on every subset of S.
Sums(g, f, S) ==
    /\ DOMAIN g = S
    /\ \A s \in S : g[s] = IF s = {} THEN 0 ELSE f[Pick(s)] + g[s \ {Pick(s)}]

\* The element the fold takes first.
LEMMA PickIn == ASSUME NEW S, S # {} PROVE Pick(S) \in S
  BY DEF Pick

\* Taking out an element takes one off the size.
LEMMA Smaller ==
    ASSUME NEW S, IsFiniteSet(S), NEW x \in S
    PROVE  /\ IsFiniteSet(S \ {x}) /\ Cardinality(S) \in Nat \ {0}
           /\ Cardinality(S \ {x}) = Cardinality(S) - 1
<1>1. IsFiniteSet(S \ {x}) /\ Cardinality(S \ {x}) = Cardinality(S) - 1
  BY FS_RemoveElement
<1>2. Cardinality(S) \in Nat /\ Cardinality(S \ {x}) \in Nat BY <1>1, FS_CardinalityType
<1> QED BY <1>1, <1>2

\* The subsets of S with n elements or fewer.
Small(S, n) == {s \in SUBSET S : Cardinality(s) <= n}

\* The recursive equation of the fold has a solution, by the number of elements.
LEMMA SumsExist ==
    ASSUME NEW f, NEW S, IsFiniteSet(S)
    PROVE  \E g : Sums(g, f, SUBSET S)
<1> DEFINE H == {n \in Nat : \E g : Sums(g, f, Small(S, n))}
<1>0. \A s \in SUBSET S : IsFiniteSet(s) /\ Cardinality(s) \in Nat
  BY FS_Subset, FS_CardinalityType
<1>1. 0 \in H
  <2> DEFINE g == [s \in Small(S, 0) |-> 0]
  <2>1. \A s \in Small(S, 0) : s = {}
    BY <1>0, FS_EmptySet DEF Small
  <2>2. Sums(g, f, Small(S, 0)) BY <2>1 DEF Sums
  <2> QED BY <2>2
<1>2. ASSUME NEW n \in H PROVE n + 1 \in H
  <2>1. n \in Nat OBVIOUS
  <2>2. PICK g : Sums(g, f, Small(S, n)) OBVIOUS
  <2> DEFINE h == [s \in Small(S, n + 1) |->
                     IF s = {} THEN 0 ELSE f[Pick(s)] + g[s \ {Pick(s)}]]
  <2>3. ASSUME NEW s \in Small(S, n) PROVE s \in Small(S, n + 1) /\ h[s] = g[s]
    <3>1. s \in Small(S, n + 1) BY <1>0, <2>1 DEF Small
    <3> QED BY <2>2, <3>1 DEF Sums
  <2>4. ASSUME NEW s \in Small(S, n + 1), s # {} PROVE s \ {Pick(s)} \in Small(S, n)
    <3>1. s \in SUBSET S /\ IsFiniteSet(s) /\ Pick(s) \in s /\ Cardinality(s) <= n + 1
      BY <1>0, <2>4, PickIn DEF Small
    <3>2. /\ Cardinality(s) \in Nat \ {0}
          /\ Cardinality(s \ {Pick(s)}) = Cardinality(s) - 1
      BY <3>1, Smaller
    <3>3. Cardinality(s \ {Pick(s)}) <= n BY <2>1, <3>1, <3>2
    <3> QED BY <3>1, <3>3 DEF Small
  <2>5. Sums(h, f, Small(S, n + 1))
    <3>1. DOMAIN h = Small(S, n + 1) OBVIOUS
    <3>2. ASSUME NEW s \in Small(S, n + 1)
          PROVE  h[s] = IF s = {} THEN 0 ELSE f[Pick(s)] + h[s \ {Pick(s)}]
      <4>1. h[s] = IF s = {} THEN 0 ELSE f[Pick(s)] + g[s \ {Pick(s)}] OBVIOUS
      <4> HIDE DEF h
      <4>2. CASE s = {} BY <4>1, <4>2
      <4>3. CASE s # {}
        <5>1. h[s \ {Pick(s)}] = g[s \ {Pick(s)}] BY <2>3, <2>4, <4>3
        <5> QED BY <4>1, <4>3, <5>1
      <4> QED BY <4>2, <4>3
    <3> QED BY <3>1, <3>2 DEF Sums
  <2> QED BY <2>1, <2>5
<1>3. H = Nat
  <2> HIDE DEF H
  <2>1. H \subseteq Nat BY DEF H
  <2> QED BY <1>1, <1>2, <2>1, Induction
<1>4. Cardinality(S) \in Nat BY FS_CardinalityType
<1>5. Small(S, Cardinality(S)) = SUBSET S
  BY FS_Subset DEF Small
<1>6. Cardinality(S) \in H BY <1>3, <1>4
<1> QED BY <1>5, <1>6

\* Two such functions agree where both are defined.
LEMMA SumsAgree ==
    \A f, e, S, T, g, h :
       /\ IsFiniteSet(S) /\ T \subseteq S /\ (\A x \in T : e[x] = f[x])
       /\ Sums(g, f, SUBSET S) /\ Sums(h, e, SUBSET T)
       => h[T] = g[T]
<1> TAKE f, e, S, T, g, h
<1> HAVE /\ IsFiniteSet(S) /\ T \subseteq S /\ (\A x \in T : e[x] = f[x])
         /\ Sums(g, f, SUBSET S) /\ Sums(h, e, SUBSET T)
<1> DEFINE H == {n \in Nat : \A s \in SUBSET T : Cardinality(s) = n => h[s] = g[s]}
<1>0. \A s \in SUBSET T : IsFiniteSet(s) /\ Cardinality(s) \in Nat /\ s \in SUBSET S
  BY FS_Subset, FS_CardinalityType
<1>1. 0 \in H
  <2>1. ASSUME NEW s \in SUBSET T, Cardinality(s) = 0 PROVE h[s] = g[s]
    <3>1. s = {} BY <1>0, <2>1, FS_EmptySet
    <3> QED BY <1>0, <3>1 DEF Sums
  <2> QED BY <2>1
<1>2. ASSUME NEW n \in H PROVE n + 1 \in H
  <2>1. ASSUME NEW s \in SUBSET T, Cardinality(s) = n + 1 PROVE h[s] = g[s]
    <3>1. s # {} BY <2>1, FS_EmptySet
    <3>2. Pick(s) \in s BY <3>1, PickIn
    <3>3. Cardinality(s \ {Pick(s)}) = n BY <1>0, <2>1, <3>2, Smaller
    <3>4. h[s \ {Pick(s)}] = g[s \ {Pick(s)}] /\ e[Pick(s)] = f[Pick(s)] BY <3>2, <3>3
    <3>5. /\ h[s] = e[Pick(s)] + h[s \ {Pick(s)}]
          /\ g[s] = f[Pick(s)] + g[s \ {Pick(s)}]
      BY <1>0, <3>1 DEF Sums
    <3> QED BY <3>4, <3>5
  <2> QED BY <2>1
<1>3. H = Nat
  <2> HIDE DEF H
  <2>1. H \subseteq Nat BY DEF H
  <2> QED BY <1>1, <1>2, <2>1, Induction
<1> QED BY <1>0, <1>3

\* The library's sum is such a function, taken at the whole set.
LEMMA SumIs ==
    ASSUME NEW f, NEW S, IsFiniteSet(S)
    PROVE  \E g : Sums(g, f, SUBSET S) /\ SumFunctionOnSet(f, S) = g[S]
<1> DEFINE sum == CHOOSE g : g = [s \in SUBSET S |->
                                   IF s = {} THEN 0 ELSE f[Pick(s)] + g[s \ {Pick(s)}]]
<1>1. SumFunctionOnSet(f, S) = sum[S]
  BY DEF SumFunctionOnSet, FoldFunctionOnSet, MapThenFoldSet, Pick
<1>2. PICK g : Sums(g, f, SUBSET S) BY SumsExist
<1> DEFINE h == [s \in SUBSET S |-> g[s]]
<1>3. h = [s \in SUBSET S |-> IF s = {} THEN 0 ELSE f[Pick(s)] + h[s \ {Pick(s)}]]
  BY <1>2 DEF Sums
<1>4. sum = [s \in SUBSET S |-> IF s = {} THEN 0 ELSE f[Pick(s)] + sum[s \ {Pick(s)}]]
  <2> HIDE DEF h
  <2> QED BY <1>3
<1>5. Sums(sum, f, SUBSET S)
  <2> HIDE DEF sum
  <2> QED BY <1>4 DEF Sums
<1> HIDE DEF sum
<1> QED BY <1>1, <1>5

\* Nothing to add.
LEMMA SumEmpty == ASSUME NEW f PROVE SumFunctionOnSet(f, {}) = 0
<1>1. PICK g : Sums(g, f, SUBSET {}) /\ SumFunctionOnSet(f, {}) = g[{}] BY FS_EmptySet, SumIs
<1> QED BY <1>1 DEF Sums

\* Equal terms, equal sums.
LEMMA SumSame ==
    ASSUME NEW S, IsFiniteSet(S), NEW f, NEW e, \A x \in S : e[x] = f[x]
    PROVE  SumFunctionOnSet(e, S) = SumFunctionOnSet(f, S)
<1>1. PICK g : Sums(g, f, SUBSET S) /\ SumFunctionOnSet(f, S) = g[S] BY SumIs
<1>2. PICK h : Sums(h, e, SUBSET S) /\ SumFunctionOnSet(e, S) = h[S] BY SumIs
<1>3. h[S] = g[S] BY <1>1, <1>2, SumsAgree
<1> QED BY <1>1, <1>2, <1>3

\* The element that is taken out first.
LEMMA SumFirst ==
    ASSUME NEW S, IsFiniteSet(S), S # {}, NEW f
    PROVE  SumFunctionOnSet(f, S) = f[Pick(S)] + SumFunctionOnSet(f, S \ {Pick(S)})
<1> DEFINE T == S \ {Pick(S)}
<1>1. PICK g : Sums(g, f, SUBSET S) /\ SumFunctionOnSet(f, S) = g[S] BY SumIs
<1>2. IsFiniteSet(T) BY FS_RemoveElement
<1>3. PICK h : Sums(h, f, SUBSET T) /\ SumFunctionOnSet(f, T) = h[T] BY <1>2, SumIs
<1>4. h[T] = g[T]
  <2>1. T \subseteq S OBVIOUS
  <2> HIDE DEF T
  <2> QED BY <1>1, <1>3, <2>1, SumsAgree
<1>5. g[S] = f[Pick(S)] + g[T] BY <1>1 DEF Sums
<1> QED BY <1>1, <1>3, <1>4, <1>5

\* Sums of integers are integers, and any element can be taken out first.
LEMMA SumTakeOut ==
    ASSUME NEW U, IsFiniteSet(U), NEW f, \A x \in U : f[x] \in Int
    PROVE  /\ SumFunctionOnSet(f, U) \in Int
           /\ \A x \in U : SumFunctionOnSet(f, U) = f[x] + SumFunctionOnSet(f, U \ {x})
<1> DEFINE F(s) == SumFunctionOnSet(f, s)
           Good(s) == F(s) \in Int /\ \A x \in s : F(s) = f[x] + F(s \ {x})
           H == {n \in Nat : \A s \in SUBSET U : Cardinality(s) <= n => Good(s)}
<1>0. \A s \in SUBSET U : IsFiniteSet(s) /\ Cardinality(s) \in Nat
  BY FS_Subset, FS_CardinalityType
<1>1. Good({})
  <2>1. F({}) = 0 BY SumEmpty
  <2> HIDE DEF F
  <2> QED BY <2>1
<1>2. 0 \in H
  <2> HIDE DEF Good
  <2>1. ASSUME NEW s \in SUBSET U, Cardinality(s) <= 0 PROVE s = {}
    BY <1>0, <2>1, FS_EmptySet
  <2> QED BY <1>1, <2>1
<1>3. ASSUME NEW n \in H PROVE n + 1 \in H
  <2>1. ASSUME NEW s \in SUBSET U, Cardinality(s) <= n + 1, s # {} PROVE Good(s)
    <3> DEFINE p == Pick(s)
    <3>1. p \in s BY <2>1, PickIn
    <3>2. F(s) = f[p] + F(s \ {p}) BY <1>0, <2>1, SumFirst
    <3>3. \A x \in s : Good(s \ {x}) /\ Good((s \ {p}) \ {x})
      <4> HIDE DEF Good, p
      <4>0. n \in Nat /\ \A q \in SUBSET U : Cardinality(q) <= n => Good(q) OBVIOUS
      <4>1. ASSUME NEW x \in s PROVE Cardinality(s \ {x}) <= n
        <5>1. Cardinality(s \ {x}) = Cardinality(s) - 1 /\ Cardinality(s) \in Nat
          BY <1>0, Smaller
        <5> QED BY <2>1, <4>0, <5>1
      <4>2. ASSUME NEW x \in s PROVE Cardinality((s \ {p}) \ {x}) <= n
        <5>1. CASE x = p
          <6>1. (s \ {p}) \ {x} = s \ {p} BY <5>1
          <6> QED BY <3>1, <4>1, <6>1
        <5>2. CASE x # p
          <6>1. /\ Cardinality((s \ {p}) \ {x}) = Cardinality(s \ {p}) - 1
                /\ Cardinality(s \ {p}) \in Nat
            BY <1>0, <5>2, Smaller
          <6> QED BY <3>1, <4>0, <4>1, <6>1
        <5> QED BY <5>1, <5>2
      <4> QED BY <4>0, <4>1, <4>2
    <3>4. f[p] \in Int /\ \A x \in s : f[x] \in Int BY <3>1
    <3> HIDE DEF p, F
    <3>5. F(s) \in Int BY <3>1, <3>2, <3>3, <3>4
    <3>6. ASSUME NEW x \in s, x # p PROVE F(s) = f[x] + F(s \ {x})
      <4> DEFINE r == (s \ {p}) \ {x}
      <4>1. F(s \ {p}) = f[x] + F(r) BY <3>1, <3>3, <3>6
      <4>2. (s \ {x}) \ {p} = r OBVIOUS
      <4>3. F(s \ {x}) = f[p] + F(r) BY <3>1, <3>3, <3>6, <4>2
      <4>4. F(r) \in Int BY <3>3
      <4> HIDE DEF r
      <4> QED BY <3>2, <3>4, <4>1, <4>3, <4>4
    <3> QED BY <3>2, <3>5, <3>6
  <2> HIDE DEF Good
  <2>2. n \in Nat OBVIOUS
  <2>3. \A s \in SUBSET U : Cardinality(s) <= n + 1 => Good(s) BY <1>1, <2>1
  <2> QED BY <2>2, <2>3
<1>4. H = Nat
  <2> HIDE DEF H
  <2>1. H \subseteq Nat BY DEF H
  <2> QED BY <1>2, <1>3, <2>1, Induction
<1>5. Good(U)
  <2> HIDE DEF Good
  <2>1. Cardinality(U) \in H BY <1>0, <1>4
  <2> QED BY <1>0, <2>1
<1> QED BY <1>5

\* A sum stays in any set with 0 that adding does not leave: Int, Nat, {0}.
LEMMA SumIn ==
    ASSUME NEW A, 0 \in A, \A a, b \in A : a + b \in A,
           NEW U, IsFiniteSet(U), NEW f, \A x \in U : f[x] \in A
    PROVE  SumFunctionOnSet(f, U) \in A
<1> DEFINE F(s) == SumFunctionOnSet(f, s)
           H == {n \in Nat : \A s \in SUBSET U : Cardinality(s) <= n => F(s) \in A}
<1>0. \A s \in SUBSET U : IsFiniteSet(s) /\ Cardinality(s) \in Nat
  BY FS_Subset, FS_CardinalityType
<1>1. F({}) \in A BY SumEmpty
<1>2. 0 \in H
  <2> HIDE DEF F
  <2>1. ASSUME NEW s \in SUBSET U, Cardinality(s) <= 0 PROVE s = {}
    BY <1>0, <2>1, FS_EmptySet
  <2> QED BY <1>1, <2>1
<1>3. ASSUME NEW n \in H PROVE n + 1 \in H
  <2>0. n \in Nat /\ \A q \in SUBSET U : Cardinality(q) <= n => F(q) \in A OBVIOUS
  <2>1. ASSUME NEW s \in SUBSET U, Cardinality(s) <= n + 1, s # {} PROVE F(s) \in A
    <3>1. PICK p \in s : p = Pick(s) BY <2>1, PickIn
    <3>2. F(s) = f[p] + F(s \ {p}) BY <1>0, <2>1, <3>1, SumFirst
    <3>3. Cardinality(s \ {p}) = Cardinality(s) - 1 /\ Cardinality(s) \in Nat
      BY <1>0, Smaller
    <3> HIDE DEF F
    <3>4. F(s \ {p}) \in A
      <4>1. s \ {p} \in SUBSET U /\ Cardinality(s \ {p}) <= n BY <2>0, <2>1, <3>3
      <4> QED BY <2>0, <4>1
    <3> QED BY <3>2, <3>4
  <2> HIDE DEF F
  <2>2. \A s \in SUBSET U : Cardinality(s) <= n + 1 => F(s) \in A BY <1>1, <2>1
  <2> QED BY <2>0, <2>2
<1>4. H = Nat
  <2> HIDE DEF H
  <2>1. H \subseteq Nat BY DEF H
  <2> QED BY <1>2, <1>3, <2>1, Induction
<1> HIDE DEF F
<1>5. Cardinality(U) \in H BY <1>0, <1>4
<1>6. F(U) \in A BY <1>0, <1>5
<1> QED BY <1>6 DEF F

\* A sum of integers is one.
LEMMA SumInt ==
    ASSUME NEW U, IsFiniteSet(U), NEW f, \A x \in U : f[x] \in Int
    PROVE  SumFunctionOnSet(f, U) \in Int
<1>1. 0 \in Int /\ \A a, b \in Int : a + b \in Int OBVIOUS
<1> QED BY <1>1, SumIn

\* A sum of natural numbers is one.
LEMMA SumNat ==
    ASSUME NEW U, IsFiniteSet(U), NEW f, \A x \in U : f[x] \in Nat
    PROVE  SumFunctionOnSet(f, U) \in Nat
<1>1. 0 \in Nat /\ \A a, b \in Nat : a + b \in Nat OBVIOUS
<1> QED BY <1>1, SumIn

\* A sum of zeros is zero.
LEMMA SumZero ==
    ASSUME NEW U, IsFiniteSet(U), NEW f, \A x \in U : f[x] = 0
    PROVE  SumFunctionOnSet(f, U) = 0
<1>1. 0 \in {0} /\ \A a, b \in {0} : a + b \in {0} OBVIOUS
<1>2. \A x \in U : f[x] \in {0} OBVIOUS
<1>3. SumFunctionOnSet(f, U) \in {0} BY <1>1, <1>2, SumIn
<1> QED BY <1>3

\* One more element.
LEMMA SumAdd ==
    ASSUME NEW S, IsFiniteSet(S), NEW x, x \notin S,
           NEW f, \A y \in S \cup {x} : f[y] \in Int
    PROVE  SumFunctionOnSet(f, S \cup {x}) = SumFunctionOnSet(f, S) + f[x]
<1>1. IsFiniteSet(S \cup {x}) BY FS_AddElement
<1>2. SumFunctionOnSet(f, S \cup {x}) = f[x] + SumFunctionOnSet(f, (S \cup {x}) \ {x})
  BY <1>1, SumTakeOut
<1>3. (S \cup {x}) \ {x} = S OBVIOUS
<1>4. SumFunctionOnSet(f, S \cup {x}) = f[x] + SumFunctionOnSet(f, S) BY <1>2, <1>3, Zenon
<1>5. SumFunctionOnSet(f, S) \in Int /\ f[x] \in Int BY SumInt
<1> QED BY ONLY <1>4, <1>5

\* One term changes.
LEMMA SumChange ==
    ASSUME NEW S, IsFiniteSet(S), NEW x \in S,
           NEW f, \A y \in S : f[y] \in Int, NEW e, e[x] \in Int,
           \A y \in S \ {x} : e[y] = f[y]
    PROVE  SumFunctionOnSet(e, S) = SumFunctionOnSet(f, S) + (e[x] - f[x])
<1>1. IsFiniteSet(S \ {x}) BY FS_RemoveElement
<1>2. SumFunctionOnSet(f, S) = f[x] + SumFunctionOnSet(f, S \ {x}) BY SumTakeOut
<1>3. \A y \in S : e[y] \in Int OBVIOUS
<1>4. SumFunctionOnSet(e, S) = e[x] + SumFunctionOnSet(e, S \ {x}) BY <1>3, SumTakeOut
<1>5. SumFunctionOnSet(e, S \ {x}) = SumFunctionOnSet(f, S \ {x}) BY <1>1, SumSame
<1>6. SumFunctionOnSet(f, S \ {x}) \in Int BY <1>1, SumInt
<1> QED BY <1>2, <1>4, <1>5, <1>6

\* The first term of a sequence.
LEMMA SumHead ==
    ASSUME NEW N \in Nat, NEW f, \A i \in 1 .. N + 1 : f[i] \in Int,
           NEW g, \A i \in 1 .. N : g[i] = f[i + 1]
    PROVE  SumFunctionOnSet(f, 1 .. N + 1) = f[1] + SumFunctionOnSet(g, 1 .. N)
<1> DEFINE F(n) == SumFunctionOnSet(f, 1 .. n)
           G(n) == SumFunctionOnSet(g, 1 .. n)
           H == {n \in Nat : n <= N => F(n + 1) = f[1] + G(n)}
<1>0. \A n \in Nat : IsFiniteSet(1 .. n) BY FS_Interval
<1>1. \A n \in Nat : n <= N => F(n + 1) = F(n) + f[n + 1] /\ F(n) \in Int
  <2> TAKE n \in Nat
  <2> HAVE n <= N
  <2>1. 1 .. n + 1 = (1 .. n) \cup {n + 1} /\ n + 1 \notin 1 .. n OBVIOUS
  <2>2. \A y \in (1 .. n) \cup {n + 1} : f[y] \in Int BY <2>1
  <2>3. F(n) \in Int BY <1>0, <2>2, SumInt
  <2>4. IsFiniteSet(1 .. n) /\ n + 1 \notin 1 .. n BY <1>0, <2>1
  <2>5. SumFunctionOnSet(f, (1 .. n) \cup {n + 1}) = F(n) + f[n + 1]
    BY ONLY <2>2, <2>4, SumAdd
  <2> QED BY <2>1, <2>3, <2>5
<1>2. \A n \in Nat : n + 1 <= N => G(n + 1) = G(n) + g[n + 1] /\ G(n) \in Int
  <2> TAKE n \in Nat
  <2> HAVE n + 1 <= N
  <2>1. 1 .. n + 1 = (1 .. n) \cup {n + 1} /\ n + 1 \notin 1 .. n OBVIOUS
  <2>2. \A y \in (1 .. n) \cup {n + 1} : g[y] \in Int BY <2>1
  <2>3. G(n) \in Int BY <1>0, <2>2, SumInt
  <2>4. IsFiniteSet(1 .. n) /\ n + 1 \notin 1 .. n BY <1>0, <2>1
  <2>5. SumFunctionOnSet(g, (1 .. n) \cup {n + 1}) = G(n) + g[n + 1]
    BY ONLY <2>2, <2>4, SumAdd
  <2> QED BY <2>1, <2>3, <2>5
<1>3. F(0) = 0 /\ G(0) = 0
  <2>1. 1 .. 0 = {} OBVIOUS
  <2> QED BY <2>1, SumEmpty
<1>4. \A i \in 1 .. N + 1 : f[i] \in Int OBVIOUS
<1> HIDE DEF F, G
<1>5. 0 \in H
  <2>1. F(0 + 1) = F(0) + f[0 + 1] /\ f[1] \in Int BY <1>1, <1>4
  <2> QED BY <1>3, <2>1
<1>6. ASSUME NEW n \in H PROVE n + 1 \in H
  <2>1. n \in Nat /\ (n <= N => F(n + 1) = f[1] + G(n)) OBVIOUS
  <2>2. ASSUME n + 1 <= N PROVE F((n + 1) + 1) = f[1] + G(n + 1)
    <3>1. F((n + 1) + 1) = F(n + 1) + f[(n + 1) + 1] BY <1>1, <2>1, <2>2
    <3>2. G(n + 1) = G(n) + g[n + 1] /\ G(n) \in Int BY <1>2, <2>1, <2>2
    <3>3. g[n + 1] = f[(n + 1) + 1] BY <2>1, <2>2
    <3>4. f[(n + 1) + 1] \in Int /\ f[1] \in Int BY <1>4, <2>1, <2>2
    <3> QED BY <2>1, <2>2, <3>1, <3>2, <3>3, <3>4
  <2> QED BY <2>1, <2>2
<1>7. H = Nat
  <2> HIDE DEF H
  <2>1. H \subseteq Nat BY DEF H
  <2> QED BY <1>5, <1>6, <2>1, Induction
<1>8. N \in H BY <1>7
<1>9. F(N + 1) = f[1] + G(N) BY <1>8
<1> QED BY <1>9 DEF F, G

-----------------------------------------------------------------------------
(* The fill queue: the lots of an order in a queue q. *)

LotsIn(q, id) == [k \in DOMAIN q |-> IF q[k].order_id = id THEN q[k].lots ELSE 0]
QueuedIn(q, id) == SumFunctionOnSet(LotsIn(q, id), DOMAIN q)

\* Queued, for queues that need not be the current one.
LEMMA QueuedIsIn == \A id : Queued(id) = QueuedIn(fills, id)
  BY DEF Queued, QueuedIn, LotsIn, SumFunction

\* A queue has finitely many fills.
LEMMA QueueFinite ==
    ASSUME NEW q \in Seq(Fills)
    PROVE  /\ IsFiniteSet(DOMAIN q) /\ DOMAIN q = 1 .. Len(q) /\ Len(q) \in Nat
           /\ \A k \in DOMAIN q : q[k] \in Fills
           /\ \A id, k \in DOMAIN q : LotsIn(q, id)[k] \in Nat
<1>1. /\ DOMAIN q = 1 .. Len(q) /\ Len(q) \in Nat
      /\ \A k \in DOMAIN q : q[k] \in Fills
  OBVIOUS
<1>2. IsFiniteSet(1 .. Len(q)) BY <1>1, FS_Interval
<1> QED BY <1>1, <1>2 DEF Fills, LotsIn

\* Lots in a queue are counted in natural numbers.
LEMMA QueuedNat ==
    ASSUME NEW q \in Seq(Fills), NEW id PROVE QueuedIn(q, id) \in Nat
<1>1. \A k \in DOMAIN q : LotsIn(q, id)[k] \in Nat
  BY QueueFinite DEF LotsIn, Fills
<1> QED BY <1>1, QueueFinite, SumNat DEF QueuedIn

\* An order no fill is of has none queued.
LEMMA QueuedNone ==
    ASSUME NEW q \in Seq(Fills), NEW id, \A k \in DOMAIN q : q[k].order_id # id
    PROVE  QueuedIn(q, id) = 0
<1>1. \A k \in DOMAIN q : LotsIn(q, id)[k] = 0 BY DEF LotsIn
<1> QED BY <1>1, QueueFinite, SumZero DEF QueuedIn

\* A fill that is pushed adds its lots to those of its order.
LEMMA QueuedAppend ==
    ASSUME NEW q \in Seq(Fills), NEW e \in Fills, NEW id
    PROVE  QueuedIn(Append(q, e), id)
             = QueuedIn(q, id) + (IF e.order_id = id THEN e.lots ELSE 0)
<1> DEFINE a == Append(q, e)
           N == Len(q)
<1>1. a \in Seq(Fills) /\ Len(a) = N + 1 /\ N \in Nat OBVIOUS
<1>2. /\ DOMAIN q = 1 .. N /\ DOMAIN a = (1 .. N) \cup {N + 1} /\ N + 1 \notin 1 .. N
      /\ a[N + 1] = e /\ \A k \in 1 .. N : a[k] = q[k]
  BY <1>1
<1>3. \A k \in (1 .. N) \cup {N + 1} : LotsIn(a, id)[k] \in Int
  <2> HIDE DEF a
  <2>1. \A k \in DOMAIN a : LotsIn(a, id)[k] \in Nat BY <1>1, QueueFinite DEF LotsIn, Fills
  <2> QED BY <1>2, <2>1
<1>4. IsFiniteSet(1 .. N) BY <1>1, FS_Interval
<1>5. LotsIn(a, id)[N + 1] = IF e.order_id = id THEN e.lots ELSE 0
  <2> HIDE DEF a, N
  <2> QED BY <1>2 DEF LotsIn
<1>6. \A k \in 1 .. N : LotsIn(a, id)[k] = LotsIn(q, id)[k]
  <2> HIDE DEF a, N
  <2> QED BY <1>2 DEF LotsIn
<1> HIDE DEF a, N
<1>7. SumFunctionOnSet(LotsIn(a, id), (1 .. N) \cup {N + 1})
        = SumFunctionOnSet(LotsIn(a, id), 1 .. N) + LotsIn(a, id)[N + 1]
  BY <1>2, <1>3, <1>4, SumAdd
<1>8. SumFunctionOnSet(LotsIn(a, id), 1 .. N) = SumFunctionOnSet(LotsIn(q, id), 1 .. N)
  BY <1>4, <1>6, SumSame
<1> QED BY <1>2, <1>5, <1>7, <1>8 DEF a, QueuedIn

\* A fill that is taken takes its lots from those of its order.
LEMMA QueuedTail ==
    ASSUME NEW q \in Seq(Fills), q # << >>, NEW id
    PROVE  QueuedIn(q, id)
             = QueuedIn(Tail(q), id) + (IF Head(q).order_id = id THEN Head(q).lots ELSE 0)
<1>1. PICK N \in Nat : Len(q) = N + 1
  <2>1. Len(q) \in Nat /\ Len(q) # 0 BY EmptySeq
  <2>2. Len(q) - 1 \in Nat /\ Len(q) = (Len(q) - 1) + 1 BY <2>1
  <2> QED BY <2>2
<1>2. /\ DOMAIN q = 1 .. N + 1 /\ DOMAIN Tail(q) = 1 .. N /\ Head(q) = q[1]
      /\ \A k \in 1 .. N : Tail(q)[k] = q[k + 1]
      /\ Tail(q) \in Seq(Fills)
  BY <1>1
<1>3. \A k \in 1 .. N + 1 : LotsIn(q, id)[k] \in Int
  BY <1>2, QueueFinite DEF LotsIn, Fills
<1>4. \A k \in 1 .. N : LotsIn(Tail(q), id)[k] = LotsIn(q, id)[k + 1]
  <2> TAKE k \in 1 .. N
  <2>1. k + 1 \in 1 .. N + 1 OBVIOUS
  <2> QED BY <1>2, <2>1 DEF LotsIn
<1>5. QueuedIn(q, id) = LotsIn(q, id)[1] + QueuedIn(Tail(q), id)
  BY <1>2, <1>3, <1>4, SumHead DEF QueuedIn
<1>6. LotsIn(q, id)[1] = (IF Head(q).order_id = id THEN Head(q).lots ELSE 0)
  BY <1>2 DEF LotsIn
<1>7. LotsIn(q, id)[1] \in Int
  <2>1. 1 \in 1 .. N + 1 OBVIOUS
  <2> QED BY <1>3, <2>1
<1>8. QueuedIn(Tail(q), id) \in Nat BY <1>2, QueuedNat
<1> QED BY <1>5, <1>6, <1>7, <1>8

-----------------------------------------------------------------------------
(* Orders, positions and their types *)

\* What the constants are, one by one.
LEMMA Assumed ==
    /\ Lots \subseteq Nat /\ \A n \in Lots : n \in Nat \ {0}
    /\ OrderPrice \in Nat \ {0} /\ \A price \in FillPrices : price \in Nat \ {0}
    /\ MaxPosition \in Int /\ OrderBound \in Nat
    /\ FillQueueSize \in Nat /\ IsFiniteSet(Symbols)
  BY TradingAssumption

\* Signs and absolute values.
LEMMA SignType ==
    /\ \A side \in Sides : Sign(side) \in {1, -1}
    /\ \A n \in Int : SignOf(n) \in {1, -1} /\ Abs(n) \in Nat
  BY DEF Sides, Sign, SignOf, Abs

\* The parts of one order.
LEMMA OrderTypes ==
    ASSUME TypeOK
    PROVE  /\ Ids = 1 .. Len(orders) /\ Len(orders) \in Nat /\ IsFiniteSet(Ids)
           /\ \A id \in Ids : orders[id] \in Orders
           /\ \A id \in Ids :
                /\ orders[id].symbol \in Symbols /\ orders[id].side \in Sides
                /\ Sign(orders[id].side) \in Int
                /\ orders[id].lots \in Nat \ {0} /\ orders[id].closed \in BOOLEAN
                /\ orders[id].state \in {"queued", "pending", "final"}
                /\ orders[id].executed \in Nat /\ orders[id].reported \in Nat
                /\ orders[id].lost \in Nat
           /\ \A s : IdsOf(s) \subseteq Ids /\ IsFiniteSet(IdsOf(s))
<1>1. orders \in Seq(Orders) BY DEF TypeOK
<1>2. /\ Ids = 1 .. Len(orders) /\ Len(orders) \in Nat
      /\ \A id \in Ids : orders[id] \in Orders
  BY <1>1 DEF Ids
<1>3. IsFiniteSet(Ids) BY <1>2, FS_Interval
<1>4. \A s : IdsOf(s) \subseteq Ids /\ IsFiniteSet(IdsOf(s))
  <2>1. \A s : IdsOf(s) \subseteq Ids BY DEF IdsOf
  <2> QED BY <1>3, <2>1, FS_Subset
<1>5. \A id \in Ids :
        /\ orders[id].symbol \in Symbols /\ orders[id].side \in Sides
        /\ Sign(orders[id].side) \in Int
        /\ orders[id].lots \in Nat \ {0} /\ orders[id].closed \in BOOLEAN
        /\ orders[id].state \in {"queued", "pending", "final"}
        /\ orders[id].executed \in Nat /\ orders[id].reported \in Nat
        /\ orders[id].lost \in Nat
  <2> HIDE DEF Ids
  <2> TAKE id \in Ids
  <2>1. orders[id].side \in Sides BY <1>2 DEF Orders
  <2>2. Sign(orders[id].side) \in Int BY <2>1, SignType
  <2> QED BY <1>2, <2>1, <2>2, Assumed DEF Orders
<1> QED BY <1>2, <1>3, <1>4, <1>5

\* The fill the engine takes next: its symbol and its signed lots.
HeadSymbol == orders[Head(fills).order_id].symbol
HeadLots == Sign(orders[Head(fills).order_id].side) * Head(fills).lots

\* The fill that the engine takes next.
LEMMA HeadTypes ==
    ASSUME TypeOK, fills # << >>
    PROVE  /\ fills \in Seq(Fills) /\ Tail(fills) \in Seq(Fills)
           /\ Head(fills).order_id \in Ids /\ Head(fills).lots \in Nat \ {0}
           /\ Len(Tail(fills)) <= FillQueueSize
           /\ \A k \in DOMAIN Tail(fills) : Tail(fills)[k].order_id \in Ids
           /\ HeadSymbol \in Symbols /\ HeadLots \in Int \ {0}
           /\ Sign(orders[Head(fills).order_id].side) \in {1, -1}
<1>1. /\ fills \in Seq(Fills) /\ Len(fills) <= FillQueueSize
      /\ \A k \in DOMAIN fills : fills[k].order_id \in Ids
  BY DEF TypeOK
<1>2. /\ 1 \in DOMAIN fills /\ Head(fills) = fills[1] /\ Head(fills) \in Fills
      /\ Tail(fills) \in Seq(Fills) /\ Len(Tail(fills)) = Len(fills) - 1
      /\ Len(fills) \in Nat \ {0}
      /\ \A k \in DOMAIN Tail(fills) : k + 1 \in DOMAIN fills /\ Tail(fills)[k] = fills[k + 1]
  BY <1>1
<1>3. Head(fills).order_id \in Ids /\ Head(fills).lots \in Nat \ {0} BY <1>1, <1>2 DEF Fills
<1>4. Len(Tail(fills)) <= FillQueueSize BY <1>1, <1>2, Assumed
<1>5. \A k \in DOMAIN Tail(fills) : Tail(fills)[k].order_id \in Ids BY <1>1, <1>2
<1>6. /\ orders[Head(fills).order_id].side \in Sides
      /\ HeadSymbol \in Symbols
  BY <1>3, OrderTypes DEF HeadSymbol
<1>7. Sign(orders[Head(fills).order_id].side) \in {1, -1} BY <1>6, SignType
<1>8. HeadLots \in Int \ {0} BY <1>3, <1>7 DEF HeadLots
<1> QED BY <1>1, <1>2, <1>3, <1>4, <1>5, <1>6, <1>7, <1>8

\* A fill of n lots at a price, on a position.
LEMMA PositionTypes ==
    ASSUME NEW p \in Positions, NEW n \in Int \ {0}, NEW price \in Nat \ {0}
    PROVE  /\ p.quantity \in Int /\ p.average_price \in Nat /\ p.realized_pnl \in Int
           /\ AveragePrice(p, n, price) \in Nat /\ RealizedPnL(p, n, price) \in Int
           /\ (Abs(p.quantity) + Abs(n)) \in Nat \ {0}
           /\ (Abs(p.quantity) * p.average_price + Abs(n) * price) \in Nat
<1>1. p.quantity \in Int /\ p.average_price \in Nat /\ p.realized_pnl \in Int BY DEF Positions
<1>2. Abs(p.quantity) \in Nat /\ Abs(n) \in Nat \ {0} BY <1>1 DEF Abs
<1>3. \A a \in Nat, b \in Nat : a * b \in Nat OBVIOUS
<1>4. \A a \in Int, b \in Int : a * b \in Int OBVIOUS
<1>5. /\ (Abs(p.quantity) * p.average_price) \in Nat /\ (Abs(n) * price) \in Nat
  BY <1>1, <1>2, <1>3
<1>6. (Abs(p.quantity) + Abs(n)) \in Nat \ {0} BY <1>2
<1>7. (Abs(p.quantity) * p.average_price + Abs(n) * price) \in Nat BY <1>5
<1>8. WeightedAverage(p, n, price) \in Nat
  <2>1. \A a \in Nat, b \in Nat \ {0} : (a \div b) \in Nat OBVIOUS
  <2> QED BY <1>6, <1>7, <2>1 DEF WeightedAverage
<1>9. AveragePrice(p, n, price) \in Nat BY <1>1, <1>8 DEF AveragePrice
<1>10. RealizedPnL(p, n, price) \in Int
  <2>1. -n \in Int /\ price - p.average_price \in Int BY <1>1
  <2>2. (-n * (price - p.average_price)) \in Int BY <1>4, <2>1
  <2>3. (p.quantity * (price - p.average_price)) \in Int BY <1>1, <1>4, <2>1
  <2> QED BY <2>2, <2>3 DEF RealizedPnL
<1> QED BY <1>1, <1>6, <1>7, <1>9, <1>10

After(p, n, price) == [quantity |-> p.quantity + n,
                       average_price |-> AveragePrice(p, n, price),
                       realized_pnl |-> p.realized_pnl + RealizedPnL(p, n, price)]

\* The step, in these names.
LEMMA UpdateStep ==
    ASSUME NEW price, UpdatePosition(price)
    PROVE  /\ fills # << >> /\ fills' = Tail(fills)
           /\ position' = [position EXCEPT ![HeadSymbol] = After(@, HeadLots, price)]
           /\ paid' = [paid EXCEPT ![HeadSymbol] = @ + HeadLots * price]
           /\ total' = TotalValue(position')
           /\ UNCHANGED <<orders, overlapped>>
<1>1. position' = [position EXCEPT ![HeadSymbol] = After(position[HeadSymbol], HeadLots, price)]
  BY DEF UpdatePosition, After, HeadSymbol, HeadLots
<1> QED BY <1>1 DEF UpdatePosition, HeadSymbol, HeadLots

\* recalcTotalValue, of positions of the right type.
LEMMA TotalType ==
    ASSUME NEW pos \in [Symbols -> Positions]
    PROVE  /\ TotalValue(pos) \in Int
           /\ TotalValue(pos) = SumFunction([s \in Symbols |-> Abs(pos[s].quantity) * pos[s].average_price])
<1> DEFINE f == [s \in Symbols |-> Abs(pos[s].quantity * pos[s].average_price)]
           g == [s \in Symbols |-> Abs(pos[s].quantity) * pos[s].average_price]
<1>1. \A s \in Symbols : pos[s].quantity \in Int /\ pos[s].average_price \in Nat
  BY DEF Positions
<1>2. \A q \in Int, a \in Nat : Abs(q * a) = Abs(q) * a /\ (Abs(q) * a) \in Int
  <2> TAKE q \in Int, a \in Nat
  <2>1. CASE q >= 0
    <3>1. (q * a) \in Nat BY <2>1
    <3> QED BY <2>1, <3>1 DEF Abs
  <2>2. CASE q < 0
    <3>1. (-q) * a = -(q * a) /\ ((-q) * a) \in Nat /\ (q * a) \in Int BY <2>2
    <3> QED BY <2>2, <3>1 DEF Abs
  <2> QED BY <2>1, <2>2
<1>3. \A s \in Symbols : f[s] = g[s] /\ g[s] \in Int BY <1>1, <1>2
<1>4. DOMAIN f = Symbols /\ DOMAIN g = Symbols OBVIOUS
<1>5. TotalValue(pos) = SumFunctionOnSet(f, Symbols) BY <1>4 DEF TotalValue, SumFunction
<1>6. SumFunction(g) = SumFunctionOnSet(g, Symbols) BY <1>4 DEF SumFunction
<1> HIDE DEF f, g
<1>7. SumFunctionOnSet(f, Symbols) = SumFunctionOnSet(g, Symbols) BY <1>3, Assumed, SumSame
<1>8. SumFunctionOnSet(g, Symbols) \in Int BY <1>3, Assumed, SumInt
<1>9. TotalValue(pos) \in Int /\ TotalValue(pos) = SumFunction(g) BY <1>5, <1>6, <1>7, <1>8
<1> QED BY <1>9 DEF g

\* One order changes: the others stay as they are.
Bounded(o) == o.executed <= o.lots /\ o.reported <= o.executed /\ o.lost <= o.reported
OrdersOK == /\ orders \in Seq(Orders) /\ Len(orders) <= OrderBound
            /\ \A id \in Ids : Bounded(orders[id])

\* The parts of the type invariant.
LEMMA TypeParts ==
    TypeOK <=> /\ OrdersOK
               /\ fills \in Seq(Fills) /\ Len(fills) <= FillQueueSize
               /\ \A k \in DOMAIN fills : fills[k].order_id \in Ids
               /\ position \in [Symbols -> Positions]
               /\ total \in Int /\ paid \in [Symbols -> Int] /\ overlapped \subseteq Symbols
  BY DEF TypeOK, OrdersOK, Bounded

\* Changing one order of the list.
LEMMA OneOrder ==
    ASSUME OrdersOK, NEW id \in Ids, NEW o \in Orders, Bounded(o),
           orders' = [orders EXCEPT ![id] = o]
    PROVE  OrdersOK' /\ Ids' = Ids /\ orders'[id] = o
           /\ \A j \in Ids \ {id} : orders'[j] = orders[j]
<1>1. /\ orders' \in Seq(Orders) /\ Len(orders') = Len(orders) /\ DOMAIN orders' = DOMAIN orders
      /\ orders'[id] = o /\ \A j \in DOMAIN orders \ {id} : orders'[j] = orders[j]
  BY DEF OrdersOK, Ids
<1>2. \A j \in DOMAIN orders : Bounded(orders'[j]) BY <1>1 DEF OrdersOK, Ids
<1> QED BY <1>1, <1>2 DEF OrdersOK, Ids, Bounded

\* Of an order only what the exchange and the gateway keep changes.
Same(o, p) == o.symbol = p.symbol /\ o.side = p.side /\ o.lots = p.lots

\* What each step makes of its order.
LEMMA ProcessStep ==
    ASSUME TypeOK, ProcessOrder
    PROVE  \E id \in Ids : \E o \in Orders :
             /\ o = [orders[id] EXCEPT !.state = "pending"] /\ Bounded(o)
             /\ orders[id].state = "queued"
             /\ orders' = [orders EXCEPT ![id] = o]
             /\ UNCHANGED <<fills, overlapped, book>>
<1>1. PICK id \in Waiting :
        /\ orders' = [orders EXCEPT ![id].state = "pending"]
        /\ UNCHANGED <<fills, overlapped, book>>
  BY DEF ProcessOrder
<1>2. id \in Ids /\ orders[id].state = "queued" BY DEF Waiting
<1>3. orders[id] \in Orders /\ Bounded(orders[id]) BY <1>2, OrderTypes, TypeParts DEF OrdersOK
<1> DEFINE o == [orders[id] EXCEPT !.state = "pending"]
<1>4. o \in Orders /\ Bounded(o) BY <1>3 DEF Orders, Bounded
<1>5. orders' = [orders EXCEPT ![id] = o] BY <1>1
<1> QED BY <1>1, <1>2, <1>4, <1>5

\* Finalizing changes one order's state.
LEMMA FinalizeStep ==
    ASSUME TypeOK, NEW id \in Ids, FinalizeOrder(id)
    PROVE  \E o \in Orders :
             /\ o = [orders[id] EXCEPT !.state = "final"] /\ Bounded(o)
             /\ orders[id].closed
             /\ orders' = [orders EXCEPT ![id] = o]
             /\ UNCHANGED <<fills, overlapped, book>>
<1>1. orders[id] \in Orders /\ Bounded(orders[id]) BY OrderTypes, TypeParts DEF OrdersOK
<1> DEFINE o == [orders[id] EXCEPT !.state = "final"]
<1>2. o \in Orders /\ Bounded(o) BY <1>1 DEF Orders, Bounded
<1> QED BY <1>2 DEF FinalizeOrder

\* An execution adds one lot to one order that has some left.
LEMMA ExecuteStep ==
    ASSUME TypeOK, NEW id \in Ids, Execute(id)
    PROVE  \E o \in Orders :
             /\ o = [orders[id] EXCEPT !.executed = @ + 1] /\ Bounded(o) /\ AtExchange(id)
             /\ orders' = [orders EXCEPT ![id] = o]
             /\ UNCHANGED <<fills, overlapped, book>>
<1>1. orders[id] \in Orders /\ Bounded(orders[id]) BY OrderTypes, TypeParts DEF OrdersOK
<1>2. orders[id].executed < orders[id].lots BY DEF Execute, AtExchange
<1> DEFINE o == [orders[id] EXCEPT !.executed = @ + 1]
<1>3. orders[id].lots \in Nat BY OrderTypes
<1>4. o \in Orders /\ Bounded(o) BY <1>1, <1>2, <1>3 DEF Orders, Bounded
<1> QED BY <1>4 DEF Execute

\* Closing changes one order's flag.
LEMMA CloseStep ==
    ASSUME TypeOK, NEW id \in Ids, Close(id)
    PROVE  \E o \in Orders :
             /\ o = [orders[id] EXCEPT !.closed = TRUE] /\ Bounded(o) /\ AtExchange(id)
             /\ orders' = [orders EXCEPT ![id] = o]
             /\ UNCHANGED <<fills, overlapped, book>>
<1>1. orders[id] \in Orders /\ Bounded(orders[id]) BY OrderTypes, TypeParts DEF OrdersOK
<1> DEFINE o == [orders[id] EXCEPT !.closed = TRUE]
<1>2. o \in Orders /\ Bounded(o) BY <1>1 DEF Orders, Bounded
<1> QED BY <1>2 DEF Close

\* A fill is reported of one order, and queued or lost.
LEMMA InjectStep ==
    ASSUME TypeOK, NEW id \in Ids, NEW n \in Lots, InjectFill(id, n)
    PROVE  \E o \in Orders :
             /\ o = [orders[id] EXCEPT !.reported = @ + n,
                                       !.lost = IF Full THEN @ + n ELSE @,
                                       !.state = IF orders[id].reported + n = orders[id].lots
                                                 THEN "final" ELSE @]
             /\ Bounded(o) /\ orders[id].reported + n <= orders[id].executed
             /\ orders' = [orders EXCEPT ![id] = o]
             /\ fills' = IF Full THEN fills ELSE Append(fills, Fill(id, n))
             /\ UNCHANGED <<overlapped, book>>
<1>1. orders[id] \in Orders /\ Bounded(orders[id]) BY OrderTypes, TypeParts DEF OrdersOK
<1>2. orders[id].reported + n <= orders[id].executed /\ n \in Nat BY Assumed DEF InjectFill
<1> DEFINE o == [orders[id] EXCEPT !.reported = @ + n,
                                   !.lost = IF Full THEN @ + n ELSE @,
                                   !.state = IF orders[id].reported + n = orders[id].lots
                                             THEN "final" ELSE @]
<1>3. /\ orders[id].lots \in Nat /\ orders[id].reported \in Nat
      /\ orders[id].lost \in Nat /\ orders[id].executed \in Nat
  BY OrderTypes
<1>4. o \in Orders
  <2>1. orders[id].reported + n \in Nat /\ orders[id].lost + n \in Nat BY <1>2, <1>3
  <2>2. ASSUME NEW r \in Nat, NEW l \in Nat, NEW st \in {"queued", "pending", "final"}
        PROVE  [orders[id] EXCEPT !.reported = r, !.lost = l, !.state = st] \in Orders
    BY <1>1 DEF Orders
  <2>3. (IF Full THEN orders[id].lost + n ELSE orders[id].lost) \in Nat BY <1>3, <2>1
  <2>4. (IF orders[id].reported + n = orders[id].lots THEN "final" ELSE orders[id].state)
          \in {"queued", "pending", "final"}
    BY OrderTypes
  <2> QED BY <2>1, <2>2, <2>3, <2>4
<1>5. Bounded(o) BY <1>1, <1>2, <1>3 DEF Orders, Bounded
<1>6. orders' = [orders EXCEPT ![id] = o] BY DEF InjectFill
<1> QED BY <1>2, <1>4, <1>5, <1>6 DEF InjectFill

\* A new order.
LEMMA SubmitStep ==
    ASSUME TypeOK, NEW s \in Symbols, NEW side \in Sides, NEW n \in Lots, SubmitOrder(s, side, n)
    PROVE  /\ OrdersOK'
           /\ Ids' = Ids \cup {Len(orders) + 1} /\ Len(orders) + 1 \notin Ids
           /\ orders'[Len(orders) + 1] = OrderRequest(s, side, n)
           /\ \A id \in Ids : orders'[id] = orders[id]
           /\ UNCHANGED <<fills, book>>
<1> DEFINE o == OrderRequest(s, side, n)
           N == Len(orders) + 1
<1>1. n \in Nat /\ o \in Orders /\ Bounded(o)
  <2>1. n \in Nat BY Assumed
  <2> QED BY <2>1 DEF OrderRequest, Orders, Bounded
<1>2. /\ orders \in Seq(Orders) /\ Len(orders) < OrderBound /\ Len(orders) \in Nat
      /\ orders' = Append(orders, o) /\ UNCHANGED <<fills, book>>
  BY TypeParts DEF SubmitOrder, OrdersOK
<1>3. /\ orders' \in Seq(Orders) /\ Len(orders') = N /\ Ids = 1 .. Len(orders)
      /\ Ids' = Ids \cup {N} /\ N \notin Ids /\ orders'[N] = o
      /\ \A id \in Ids : orders'[id] = orders[id]
  <2> HIDE DEF o
  <2> QED BY <1>1, <1>2 DEF Ids
<1>4. Len(orders') <= OrderBound BY <1>2, <1>3, Assumed
<1>5. \A id \in Ids' : Bounded(orders'[id])
  <2> HIDE DEF o, N
  <2> QED BY <1>1, <1>3, TypeParts DEF OrdersOK
<1> HIDE DEF o
<1>6. OrdersOK' BY <1>3, <1>4, <1>5 DEF OrdersOK, Bounded
<1> QED BY <1>2, <1>3, <1>6 DEF o

\* At first all lists are empty.
LEMMA TypeInit == ASSUME Init PROVE TypeOK
<1>1. OrdersOK BY Assumed DEF Init, OrdersOK, Ids
<1>2. position \in [Symbols -> Positions] BY DEF Init, Flat, Positions
<1>3. fills \in Seq(Fills) /\ Len(fills) <= FillQueueSize BY Assumed DEF Init
<1> QED BY <1>1, <1>2, <1>3, TypeParts DEF Init

\* Every step keeps the types.
LEMMA TypeStep == ASSUME TypeOK, [Next]_vars PROVE TypeOK'
<1> DEFINE QueueOK == /\ fills \in Seq(Fills) /\ Len(fills) <= FillQueueSize
                      /\ \A k \in DOMAIN fills : fills[k].order_id \in Ids
           BookOK == /\ position \in [Symbols -> Positions]
                     /\ total \in Int /\ paid \in [Symbols -> Int]
<1>0. OrdersOK /\ QueueOK /\ BookOK /\ overlapped \subseteq Symbols BY TypeParts
<1>1. SUFFICES OrdersOK' /\ QueueOK' /\ BookOK' /\ overlapped' \subseteq Symbols
  BY DEF TypeOK, OrdersOK, Bounded
<1>2. ASSUME NEW s \in Symbols, NEW side \in Sides, NEW n \in Lots, SubmitOrder(s, side, n)
      PROVE  OrdersOK' /\ QueueOK' /\ BookOK' /\ overlapped' \subseteq Symbols
  <2>1. OrdersOK' /\ Ids \subseteq Ids' /\ UNCHANGED <<fills, book>> BY <1>2, SubmitStep
  <2>2. overlapped' \subseteq Symbols BY <1>0, <1>2 DEF SubmitOrder
  <2>3. QueueOK' BY <1>0, <2>1
  <2> QED BY <1>0, <2>1, <2>2, <2>3 DEF book
<1>3. ASSUME NEW price \in FillPrices, UpdatePosition(price)
      PROVE  OrdersOK' /\ QueueOK' /\ BookOK' /\ overlapped' \subseteq Symbols
  <2>1. /\ fills # << >> /\ fills' = Tail(fills)
        /\ position' = [position EXCEPT ![HeadSymbol] = After(@, HeadLots, price)]
        /\ paid' = [paid EXCEPT ![HeadSymbol] = @ + HeadLots * price]
        /\ total' = TotalValue(position')
        /\ UNCHANGED <<orders, overlapped>>
    BY <1>3, UpdateStep
  <2>2. OrdersOK' /\ Ids' = Ids BY <1>0, <2>1 DEF OrdersOK, Ids
  <2>3. QueueOK' BY <2>1, <2>2, HeadTypes
  <2>4. HeadSymbol \in Symbols /\ HeadLots \in Int \ {0} /\ price \in Nat \ {0}
    BY <2>1, HeadTypes, Assumed
  <2>5. position[HeadSymbol] \in Positions BY <1>0, <2>4
  <2>6. After(position[HeadSymbol], HeadLots, price) \in Positions
    <3>1. position[HeadSymbol].quantity + HeadLots \in Int BY <2>4, <2>5, PositionTypes
    <3>2. AveragePrice(position[HeadSymbol], HeadLots, price) \in Nat
      BY <2>4, <2>5, PositionTypes
    <3>3. position[HeadSymbol].realized_pnl + RealizedPnL(position[HeadSymbol], HeadLots, price) \in Int
      BY <2>4, <2>5, PositionTypes
    <3> QED BY <3>1, <3>2, <3>3 DEF After, Positions
  <2>7. position' \in [Symbols -> Positions] BY <1>0, <2>1, <2>6
  <2>8. total' \in Int BY <2>1, <2>7, TotalType
  <2>9. (HeadLots * price) \in Int BY <2>4
  <2>10. paid' \in [Symbols -> Int]
    <3>1. paid[HeadSymbol] + HeadLots * price \in Int BY <1>0, <2>4, <2>9
    <3> QED BY <1>0, <2>1, <3>1
  <2> QED BY <1>0, <2>1, <2>2, <2>3, <2>7, <2>8, <2>10
<1>4. ASSUME NEW id \in Ids, NEW o \in Orders, Bounded(o), orders' = [orders EXCEPT ![id] = o],
             UNCHANGED <<fills, overlapped, book>>
      PROVE  OrdersOK' /\ QueueOK' /\ BookOK' /\ overlapped' \subseteq Symbols
  <2>1. OrdersOK' /\ Ids' = Ids BY <1>0, <1>4, OneOrder
  <2> QED BY <1>0, <1>4, <2>1 DEF book
<1>5. ASSUME NEW id \in Ids, NEW n \in Lots, InjectFill(id, n)
      PROVE  OrdersOK' /\ QueueOK' /\ BookOK' /\ overlapped' \subseteq Symbols
  <2>1. PICK o \in Orders :
          /\ Bounded(o) /\ orders' = [orders EXCEPT ![id] = o]
          /\ fills' = IF Full THEN fills ELSE Append(fills, Fill(id, n))
          /\ UNCHANGED <<overlapped, book>>
    BY <1>5, InjectStep
  <2>2. OrdersOK' /\ Ids' = Ids BY <1>0, <2>1, OneOrder
  <2>3. Fill(id, n) \in Fills
    <3>1. id \in Nat BY OrderTypes
    <3> QED BY <3>1, Assumed DEF Fill, Fills
  <2>4. QueueOK'
    <3>1. CASE Full BY <1>0, <2>1, <2>2, <3>1
    <3>2. CASE ~Full
      <4>1. fills' = Append(fills, Fill(id, n)) BY <2>1, <3>2
      <4>2. Len(fills) < FillQueueSize BY <1>0, <3>2, Assumed DEF Full
      <4>3. fills' \in Seq(Fills) /\ Len(fills') = Len(fills) + 1 BY <1>0, <2>3, <4>1
      <4>4. Len(fills') <= FillQueueSize BY <1>0, <4>2, <4>3, Assumed
      <4>5. Fill(id, n).order_id \in Ids BY DEF Fill
      <4>6. \A k \in DOMAIN fills' : fills'[k].order_id \in Ids
        <5>1. \A k \in DOMAIN fills' : \/ k \in DOMAIN fills /\ fills'[k] = fills[k]
                                       \/ fills'[k] = Fill(id, n)
          BY <1>0, <2>3, <4>1
        <5> QED BY <1>0, <4>5, <5>1
      <4> QED BY <2>2, <4>3, <4>4, <4>6
    <3> QED BY <3>1, <3>2
  <2> QED BY <1>0, <2>1, <2>2, <2>4 DEF book
<1>6. ASSUME UNCHANGED vars PROVE OrdersOK' /\ QueueOK' /\ BookOK' /\ overlapped' \subseteq Symbols
  BY <1>0, <1>6 DEF vars, OrdersOK, Ids
<1> HIDE DEF QueueOK, BookOK
<1>7. CASE ProcessOrder BY <1>4, <1>7, ProcessStep
<1>8. ASSUME NEW id \in Ids, FinalizeOrder(id) \/ Execute(id) \/ Close(id)
      PROVE  OrdersOK' /\ QueueOK' /\ BookOK' /\ overlapped' \subseteq Symbols
  <2>1. CASE FinalizeOrder(id) BY <1>4, <2>1, FinalizeStep
  <2>2. CASE Execute(id) BY <1>4, <2>2, ExecuteStep
  <2>3. CASE Close(id) BY <1>4, <2>3, CloseStep
  <2> QED BY <1>8, <2>1, <2>2, <2>3
<1> QED BY <1>2, <1>3, <1>5, <1>6, <1>7, <1>8 DEF Next, Idle

\* The members of the position manager and of the gateway's orders keep their
\* types, the fill queue its size, and no order is executed or reported beyond
\* its lots (position_manager.hpp, order_gateway.hpp:31-45).
THEOREM TypeCorrect == Spec => []TypeOK
<1>1. Init => TypeOK BY TypeInit
<1>2. TypeOK /\ [Next]_vars => TypeOK' BY TypeStep
<1> QED BY <1>1, <1>2, PTL DEF Spec

-----------------------------------------------------------------------------
(* Fills are conserved *)

\* The signed lots of each order that have reached the position.
NetLots == [id \in Ids |-> Sign(orders[id].side) * Booked(id)]
Quantities == \A s \in Symbols : position[s].quantity = SumFunctionOnSet(NetLots, IdsOf(s))
Totals == total = SumFunction([s \in Symbols |-> Abs(position[s].quantity) * position[s].average_price])

\* The two halves of FillsConserved.
LEMMA ConservedParts == FillsConserved <=> Quantities /\ Totals
  BY DEF FillsConserved, Quantities, Totals, NetLots

\* Booked before a step and after it.
LEMMA BookedIs ==
    /\ \A id : Booked(id) = orders[id].reported - orders[id].lost - QueuedIn(fills, id)
    /\ \A id : Booked(id)' = orders'[id].reported - orders'[id].lost - QueuedIn(fills', id)
  BY DEF Booked, Queued, QueuedIn, LotsIn, SumFunction

\* The booked lots with their sign are integers.
LEMMA NetTypes ==
    ASSUME TypeOK
    PROVE  \A id \in Ids : /\ Booked(id) \in Int /\ NetLots[id] \in Int
                           /\ NetLots[id] = Sign(orders[id].side) * Booked(id)
<1> TAKE id \in Ids
<1>1. fills \in Seq(Fills) BY TypeParts
<1>2. QueuedIn(fills, id) \in Nat BY <1>1, QueuedNat
<1>3. /\ orders[id].reported \in Nat /\ orders[id].lost \in Nat
      /\ Sign(orders[id].side) \in Int
  BY OrderTypes
<1>4. Booked(id) \in Int BY <1>2, <1>3, BookedIs
<1>5. (Sign(orders[id].side) * Booked(id)) \in Int BY <1>3, <1>4
<1> QED BY <1>4, <1>5 DEF NetLots

\* The quantities stay right when no order changes what it has booked.
LEMMA QuantitiesSame ==
    ASSUME TypeOK, Quantities, Ids' = Ids, position' = position,
           \A id \in Ids : Same(orders'[id], orders[id]) /\ Booked(id)' = Booked(id)
    PROVE  Quantities'
<1>1. \A id \in Ids : NetLots'[id] = NetLots[id]
  BY DEF NetLots, Same
<1>2. \A s : IdsOf(s)' = IdsOf(s) BY DEF IdsOf, Same
<1>3. \A s : SumFunctionOnSet(NetLots', IdsOf(s)) = SumFunctionOnSet(NetLots, IdsOf(s))
  <2> TAKE s
  <2>1. IsFiniteSet(IdsOf(s)) /\ IdsOf(s) \subseteq Ids BY OrderTypes
  <2>2. \A id \in IdsOf(s) : NetLots'[id] = NetLots[id] BY <1>1, <2>1
  <2> QED BY <2>1, <2>2, SumSame
<1> QED BY <1>2, <1>3 DEF Quantities

\* At first nothing is booked.
LEMMA ConservedInit == ASSUME Init PROVE FillsConserved
<1>1. Quantities
  <2> SUFFICES ASSUME NEW s \in Symbols
               PROVE  position[s].quantity = SumFunctionOnSet(NetLots, IdsOf(s))
    BY DEF Quantities
  <2>1. IdsOf(s) = {} /\ position[s].quantity = 0 BY DEF Init, IdsOf, Ids, Flat
  <2> QED BY <2>1, SumEmpty
<1>2. Totals
  <2> DEFINE f == [s \in Symbols |-> Abs(position[s].quantity) * position[s].average_price]
  <2>1. DOMAIN f = Symbols /\ \A s \in Symbols : f[s] = 0 BY DEF Init, Flat, Abs
  <2> HIDE DEF f
  <2>2. SumFunctionOnSet(f, Symbols) = 0 BY <2>1, Assumed, SumZero
  <2>3. SumFunction(f) = 0 BY <2>1, <2>2 DEF SumFunction
  <2> QED BY <2>3 DEF f, Totals, Init
<1> QED BY <1>1, <1>2, ConservedParts DEF Quantities

\* A new order has booked nothing.
LEMMA ConservedSubmit ==
    ASSUME TypeOK, TypeOK', Quantities,
           NEW s \in Symbols, NEW side \in Sides, NEW n \in Lots, SubmitOrder(s, side, n)
    PROVE  Quantities'
<1>1. PICK new : new = Len(orders) + 1 OBVIOUS
<1>2. /\ Ids' = Ids \cup {new} /\ new \notin Ids
      /\ orders'[new] = OrderRequest(s, side, n)
      /\ \A id \in Ids : orders'[id] = orders[id]
      /\ UNCHANGED <<fills, book>>
  BY <1>1, SubmitStep
<1>3. fills \in Seq(Fills) /\ \A k \in DOMAIN fills : fills[k].order_id \in Ids BY TypeParts
<1>4. QueuedIn(fills, new) = 0
  <2>1. \A k \in DOMAIN fills : fills[k].order_id # new BY <1>2, <1>3
  <2> QED BY <1>3, <2>1, QueuedNone
<1>5. NetLots'[new] = 0
  <2>1. Booked(new)' = 0 BY <1>2, <1>4, BookedIs DEF OrderRequest
  <2>2. Sign(orders'[new].side) \in Int BY <1>2, SignType DEF OrderRequest
  <2> QED BY <1>2, <2>1, <2>2 DEF NetLots
<1>6. \A id \in Ids : NetLots'[id] = NetLots[id]
  <2> TAKE id \in Ids
  <2>1. Booked(id)' = Booked(id) BY <1>2, BookedIs
  <2> QED BY <1>2, <2>1 DEF NetLots
<1>7. ASSUME NEW t \in Symbols
      PROVE  SumFunctionOnSet(NetLots', IdsOf(t)') = SumFunctionOnSet(NetLots, IdsOf(t))
  <2>1. /\ IdsOf(t)' \in {IdsOf(t), IdsOf(t) \cup {new}} /\ new \notin IdsOf(t)
    BY <1>2 DEF IdsOf
  <2>2. IsFiniteSet(IdsOf(t)) /\ IdsOf(t) \subseteq Ids BY OrderTypes
  <2>3. \A id \in IdsOf(t) : NetLots[id] \in Int /\ NetLots'[id] = NetLots[id]
    BY <1>6, <2>2, NetTypes
  <2>4. SumFunctionOnSet(NetLots', IdsOf(t)) = SumFunctionOnSet(NetLots, IdsOf(t))
    BY <2>2, <2>3, SumSame
  <2>5. SumFunctionOnSet(NetLots', IdsOf(t) \cup {new})
          = SumFunctionOnSet(NetLots', IdsOf(t)) + NetLots'[new]
    <3>1. \A id \in IdsOf(t) \cup {new} : NetLots'[id] \in Int BY <1>5, <2>3
    <3> QED BY <2>1, <2>2, <3>1, SumAdd
  <2>6. SumFunctionOnSet(NetLots, IdsOf(t)) \in Int BY <2>2, <2>3, SumInt
  <2> QED BY <1>5, <2>1, <2>4, <2>5, <2>6
<1>8. position' = position BY <1>2 DEF book
<1> QED BY <1>7, <1>8 DEF Quantities

\* The fill the engine takes is booked, with all its lots.
LEMMA ConservedUpdate ==
    ASSUME TypeOK, Quantities, NEW price \in FillPrices, UpdatePosition(price)
    PROVE  Quantities'
<1>1. /\ fills # << >> /\ fills' = Tail(fills)
      /\ position' = [position EXCEPT ![HeadSymbol] = After(@, HeadLots, price)]
      /\ UNCHANGED <<orders, overlapped>>
  BY UpdateStep
<1>2. PICK i, m, h, n : i = Head(fills).order_id /\ m = Head(fills).lots
                        /\ h = HeadSymbol /\ n = HeadLots
  OBVIOUS
<1>3. /\ i \in Ids /\ m \in Nat \ {0} /\ h \in Symbols /\ n \in Int
      /\ fills \in Seq(Fills) /\ Tail(fills) \in Seq(Fills)
      /\ n = Sign(orders[i].side) * m /\ h = orders[i].symbol
  BY <1>1, <1>2, HeadTypes DEF HeadSymbol, HeadLots
<1>4. Ids' = Ids /\ \A s : IdsOf(s)' = IdsOf(s) BY <1>1 DEF Ids, IdsOf
<1>5. \A id \in Ids : NetLots'[id] = Sign(orders[id].side) * Booked(id)'
  BY <1>1, <1>4 DEF NetLots
<1>6. \A id \in Ids : Booked(id)' = Booked(id) + (IF id = i THEN m ELSE 0)
  <2> TAKE id \in Ids
  <2>1. QueuedIn(fills, id) = QueuedIn(fills', id) + (IF id = i THEN m ELSE 0)
    BY <1>1, <1>2, <1>3, QueuedTail
  <2>2. QueuedIn(fills, id) \in Nat /\ QueuedIn(fills', id) \in Nat
    BY <1>1, <1>3, QueuedNat
  <2>3. orders[id].reported \in Nat /\ orders[id].lost \in Nat BY OrderTypes
  <2>4. Booked(id) = orders[id].reported - orders[id].lost - QueuedIn(fills, id)
    BY BookedIs
  <2>5. Booked(id)' = orders[id].reported - orders[id].lost - QueuedIn(fills', id)
    BY <1>1, BookedIs
  <2> QED BY <1>3, <2>1, <2>2, <2>3, <2>4, <2>5
<1>7. \A id \in Ids : id # i => NetLots'[id] = NetLots[id]
  <2> TAKE id \in Ids
  <2>1. Booked(id) \in Int BY NetTypes
  <2> QED BY <1>5, <1>6, <2>1, NetTypes
<1>8. NetLots'[i] = NetLots[i] + n
  <2>1. /\ Booked(i) \in Int /\ NetLots[i] = Sign(orders[i].side) * Booked(i)
        /\ Sign(orders[i].side) \in Int
    BY <1>3, NetTypes, OrderTypes
  <2>2. \A a, b, c \in Int : a * (b + c) = a * b + a * c OBVIOUS
  <2>3. NetLots'[i] = Sign(orders[i].side) * (Booked(i) + m) BY <1>3, <1>5, <1>6
  <2> QED BY <1>3, <2>1, <2>2, <2>3
<1>9. ASSUME NEW s \in Symbols
      PROVE  position'[s].quantity = SumFunctionOnSet(NetLots', IdsOf(s))
  <2>1. IsFiniteSet(IdsOf(s)) /\ IdsOf(s) \subseteq Ids BY OrderTypes
  <2>2. \A id \in IdsOf(s) : NetLots[id] \in Int BY <2>1, NetTypes
  <2>3. position \in [Symbols -> Positions] BY TypeParts
  <2>4. CASE s = h
    <3>1. i \in IdsOf(s) BY <1>3, <2>4 DEF IdsOf
    <3>2. NetLots'[i] \in Int /\ NetLots'[i] - NetLots[i] = n
      BY <1>3, <1>8, <2>2, <3>1
    <3>3. \A id \in IdsOf(s) \ {i} : NetLots'[id] = NetLots[id] BY <1>7, <2>1
    <3>4. SumFunctionOnSet(NetLots', IdsOf(s))
            = SumFunctionOnSet(NetLots, IdsOf(s)) + (NetLots'[i] - NetLots[i])
      BY <2>1, <2>2, <3>1, <3>2, <3>3, SumChange
    <3>5. position'[s].quantity = position[s].quantity + n
      BY <1>1, <1>2, <2>3, <2>4 DEF After
    <3> QED BY <3>2, <3>4, <3>5 DEF Quantities
  <2>5. CASE s # h
    <3>1. i \notin IdsOf(s) BY <1>3, <2>5 DEF IdsOf
    <3>2. \A id \in IdsOf(s) : NetLots'[id] = NetLots[id] BY <1>7, <2>1, <3>1
    <3>3. SumFunctionOnSet(NetLots', IdsOf(s)) = SumFunctionOnSet(NetLots, IdsOf(s))
      BY <2>1, <3>2, SumSame
    <3>4. position'[s] = position[s] BY <1>1, <1>2, <2>3, <2>5
    <3> QED BY <3>3, <3>4 DEF Quantities
  <2> QED BY <2>4, <2>5
<1> QED BY <1>4, <1>9 DEF Quantities

\* A report adds to what is reported what it adds to the queue or to the lost.
LEMMA ConservedInject ==
    ASSUME TypeOK, Quantities, NEW id \in Ids, NEW n \in Lots, InjectFill(id, n)
    PROVE  Quantities'
<1>1. PICK o \in Orders :
        /\ o = [orders[id] EXCEPT !.reported = @ + n,
                                  !.lost = IF Full THEN @ + n ELSE @,
                                  !.state = IF orders[id].reported + n = orders[id].lots
                                            THEN "final" ELSE @]
        /\ Bounded(o)
        /\ orders' = [orders EXCEPT ![id] = o]
        /\ fills' = IF Full THEN fills ELSE Append(fills, Fill(id, n))
        /\ UNCHANGED <<overlapped, book>>
  BY InjectStep
<1>2. /\ Ids' = Ids /\ orders'[id] = o /\ \A j \in Ids \ {id} : orders'[j] = orders[j]
  BY <1>1, OneOrder, TypeParts
<1>3. /\ Same(o, orders[id]) /\ o.reported = orders[id].reported + n
      /\ o.lost = IF Full THEN orders[id].lost + n ELSE orders[id].lost
  <2>1. orders[id] \in Orders BY OrderTypes
  <2> QED BY <1>1, <2>1 DEF Same, Orders
<1>4. n \in Nat \ {0} /\ fills \in Seq(Fills) BY Assumed, TypeParts
<1>5. Fill(id, n) \in Fills /\ Fill(id, n).order_id = id /\ Fill(id, n).lots = n
  <2>1. id \in Nat BY OrderTypes
  <2> QED BY <1>4, <2>1 DEF Fill, Fills
<1>6. ASSUME NEW j \in Ids
      PROVE  Same(orders'[j], orders[j]) /\ Booked(j)' = Booked(j)
  <2>1. Same(orders'[j], orders[j]) BY <1>2, <1>3 DEF Same
  <2>2. /\ Booked(j) = orders[j].reported - orders[j].lost - QueuedIn(fills, j)
        /\ Booked(j)' = orders'[j].reported - orders'[j].lost - QueuedIn(fills', j)
    BY BookedIs
  <2>3. QueuedIn(fills, j) \in Nat BY <1>4, QueuedNat
  <2>4. orders[j].reported \in Nat /\ orders[j].lost \in Nat BY OrderTypes
  <2>5. CASE Full
    <3>1. fills' = fills BY <1>1, <2>5
    <3>2. CASE j = id
      <4>1. orders'[j].reported = orders[j].reported + n /\ orders'[j].lost = orders[j].lost + n
        BY <1>2, <1>3, <2>5, <3>2
      <4> QED BY <1>4, <2>1, <2>2, <2>3, <2>4, <3>1, <4>1
    <3>3. CASE j # id BY <1>2, <2>1, <2>2, <3>1, <3>3
    <3> QED BY <3>2, <3>3
  <2>6. CASE ~Full
    <3>1. QueuedIn(fills', j) = QueuedIn(fills, j) + (IF id = j THEN n ELSE 0)
      BY <1>1, <1>4, <1>5, <2>6, QueuedAppend
    <3>2. CASE j = id
      <4>1. orders'[j].reported = orders[j].reported + n /\ orders'[j].lost = orders[j].lost
        BY <1>2, <1>3, <2>6, <3>2
      <4>2. QueuedIn(fills', j) = QueuedIn(fills, j) + n BY <3>1, <3>2
      <4> QED BY <1>4, <2>1, <2>2, <2>3, <2>4, <4>1, <4>2
    <3>3. CASE j # id BY <1>2, <2>1, <2>2, <2>3, <3>1, <3>3
    <3> QED BY <3>2, <3>3
  <2> QED BY <2>5, <2>6
<1>7. position' = position BY <1>1 DEF book
<1> QED BY <1>2, <1>6, <1>7, QuantitiesSame

\* Every step keeps positions and reports together.
LEMMA ConservedStep ==
    ASSUME TypeOK, TypeOK', FillsConserved, [Next]_vars
    PROVE  FillsConserved'
<1>0. Quantities /\ Totals BY ConservedParts
<1>1. Quantities'
  <2>1. ASSUME NEW id \in Ids, NEW o \in Orders, Bounded(o), Same(o, orders[id]),
               o.reported = orders[id].reported, o.lost = orders[id].lost,
               orders' = [orders EXCEPT ![id] = o], UNCHANGED <<fills, overlapped, book>>
        PROVE  Quantities'
    <3>1. /\ Ids' = Ids /\ orders'[id] = o /\ \A j \in Ids \ {id} : orders'[j] = orders[j]
      BY <2>1, OneOrder, TypeParts
    <3>2. \A j \in Ids : /\ Same(orders'[j], orders[j])
                         /\ orders'[j].reported = orders[j].reported
                         /\ orders'[j].lost = orders[j].lost
      BY <2>1, <3>1 DEF Same
    <3>3. \A j \in Ids : Booked(j)' = Booked(j) BY <2>1, <3>2, BookedIs
    <3>4. position' = position BY <2>1 DEF book
    <3> QED BY <1>0, <3>1, <3>2, <3>3, <3>4, QuantitiesSame
  <2>2. \A id \in Ids : orders[id] \in Orders BY OrderTypes
  <2>3. CASE ProcessOrder
    <3>1. PICK id \in Ids : \E o \in Orders :
             /\ o = [orders[id] EXCEPT !.state = "pending"] /\ Bounded(o)
             /\ orders' = [orders EXCEPT ![id] = o] /\ UNCHANGED <<fills, overlapped, book>>
      BY <2>3, ProcessStep
    <3> QED BY <2>1, <2>2, <3>1 DEF Same, Orders
  <2>4. ASSUME NEW id \in Ids, FinalizeOrder(id) \/ Execute(id) \/ Close(id)
        PROVE  Quantities'
    <3>1. CASE FinalizeOrder(id) BY <2>1, <2>2, <3>1, FinalizeStep DEF Same, Orders
    <3>2. CASE Execute(id) BY <2>1, <2>2, <3>2, ExecuteStep DEF Same, Orders
    <3>3. CASE Close(id) BY <2>1, <2>2, <3>3, CloseStep DEF Same, Orders
    <3> QED BY <2>4, <3>1, <3>2, <3>3
  <2>5. ASSUME UNCHANGED vars PROVE Quantities'
    <3>1. /\ Ids' = Ids /\ position' = position /\ orders' = orders /\ fills' = fills
      BY <2>5 DEF vars, Ids
    <3>2. \A j \in Ids : Same(orders'[j], orders[j]) /\ Booked(j)' = Booked(j)
      BY <3>1, BookedIs DEF Same
    <3> QED BY <1>0, <3>1, <3>2, QuantitiesSame
  <2> QED BY <1>0, <2>3, <2>4, <2>5, ConservedSubmit, ConservedUpdate, ConservedInject
          DEF Next, Idle
<1>2. Totals'
  <2>1. ASSUME NEW price \in FillPrices, UpdatePosition(price) PROVE Totals'
    <3>1. total' = TotalValue(position') BY <2>1, UpdateStep
    <3>2. position' \in [Symbols -> Positions] BY DEF TypeOK
    <3> QED BY <3>1, <3>2, TotalType DEF Totals
  <2>2. ASSUME UNCHANGED book PROVE Totals' BY <1>0, <2>2 DEF Totals, book
  <2>3. CASE ProcessOrder BY <2>2, <2>3, ProcessStep
  <2>4. ASSUME NEW s \in Symbols, NEW side \in Sides, NEW n \in Lots, SubmitOrder(s, side, n)
        PROVE  Totals'
    BY <2>2, <2>4, SubmitStep DEF book
  <2>5. ASSUME NEW id \in Ids, NEW n \in Lots, InjectFill(id, n) PROVE Totals'
    BY <2>2, <2>5 DEF InjectFill, book
  <2>6. ASSUME NEW id \in Ids, FinalizeOrder(id) \/ Execute(id) \/ Close(id) PROVE Totals'
    BY <2>2, <2>6 DEF FinalizeOrder, Execute, Close, book
  <2>7. ASSUME UNCHANGED vars PROVE Totals' BY <2>2, <2>7 DEF vars, book
  <2> QED BY <2>1, <2>3, <2>4, <2>5, <2>6, <2>7 DEF Next, Idle
<1>3. Quantities' /\ Totals' => FillsConserved'
  BY DEF FillsConserved, Quantities, Totals, NetLots
<1> QED BY <1>1, <1>2, <1>3

\* Through the gateway's orders, the fill queue and the pushes that fill_cb
\* forgets (main.cpp:172-175), a position is what was reported less what is queued
\* or lost, and the cached total that checkOrder reads is that of the positions.
THEOREM FillsAreConserved == Spec => []FillsConserved
<1>1. Init => TypeOK /\ FillsConserved BY TypeInit, ConservedInit
<1>2. TypeOK /\ TypeOK' /\ FillsConserved /\ [Next]_vars => FillsConserved' BY ConservedStep
<1> QED BY <1>1, <1>2, TypeCorrect, PTL DEF Spec

-----------------------------------------------------------------------------
(* The profit is accounted for *)

\* The weighted average of a position that grows is a whole price: the Decimal
\* division of calcWeightedAverage has nothing to round.
WholeAverage(p, n, price) ==
    Grows(p, n) => (Abs(p.quantity) * p.average_price + Abs(n) * price)
                      % (Abs(p.quantity) + Abs(n)) = 0
AveragesAreWhole ==
    fills # << >> => \A price \in FillPrices :
                        WholeAverage(position[HeadSymbol], HeadLots, price)

\* What a position cost, less the profit it has realized.
Cost(p) == p.quantity * p.average_price - p.realized_pnl
Accounts == \A s \in Symbols : paid[s] = Cost(position[s])

\* The arithmetic of a position's cost.
LEMMA Products ==
    /\ \A a, b \in Int : (a * b) \in Int
    /\ \A a, b, c \in Int : (a + b) * c = a * c + b * c
    /\ \A a, b, c \in Int : a * (b - c) = a * b - a * c
    /\ \A a, b \in Int : (-a) * b = -(a * b)
    /\ \A a, b \in Int : a * b = b * a
  OBVIOUS

\* What a position costs after a fill: the price of the fill's lots more.
LEMMA CostAfter ==
    ASSUME NEW p \in Positions, NEW n \in Int \ {0}, NEW price \in Nat \ {0},
           WholeAverage(p, n, price)
    PROVE  Cost(After(p, n, price)) = Cost(p) + n * price
<1>1. PICK q, a, r : q = p.quantity /\ a = p.average_price /\ r = p.realized_pnl OBVIOUS
<1>2. q \in Int /\ a \in Nat /\ r \in Int /\ n \in Int /\ price \in Int
  BY <1>1, PositionTypes
<1>3. Cost(p) = q * a - r BY <1>1 DEF Cost
<1>4. Cost(After(p, n, price))
        = (q + n) * AveragePrice(p, n, price) - (r + RealizedPnL(p, n, price))
  BY <1>1 DEF Cost, After
<1>5. CASE Grows(p, n)
  <2>1. PICK w : w = WeightedAverage(p, n, price) OBVIOUS
  <2>2. AveragePrice(p, n, price) = w /\ RealizedPnL(p, n, price) = 0
    BY <1>5, <2>1 DEF AveragePrice, RealizedPnL
  <2>3. w \in Nat BY <1>2, <2>2, PositionTypes
  <2>4. (Abs(q) + Abs(n)) * w = Abs(q) * a + Abs(n) * price
    <3>1. \A x \in Nat, y \in Nat \ {0} : x % y = 0 => y * (x \div y) = x OBVIOUS
    <3>2. (Abs(q) + Abs(n)) \in Nat \ {0} /\ (Abs(q) * a + Abs(n) * price) \in Nat
      BY <1>1, PositionTypes
    <3>3. /\ (Abs(q) * a + Abs(n) * price) % (Abs(q) + Abs(n)) = 0
          /\ w = (Abs(q) * a + Abs(n) * price) \div (Abs(q) + Abs(n))
      BY <1>1, <1>5, <2>1 DEF WholeAverage, WeightedAverage
    <3> QED BY <3>1, <3>2, <3>3
  <2>5. (q + n) * w = q * a + n * price
    <3>1. CASE q >= 0 /\ n >= 0 BY <1>2, <2>3, <2>4, <3>1 DEF Abs
    <3>2. CASE q <= 0 /\ n < 0
      <4>1. Abs(q) = -q /\ Abs(n) = -n BY <1>2, <3>2 DEF Abs
      <4>2. (-q + -n) * w = (-q) * a + (-n) * price BY <2>4, <4>1
      <4>3. (-q + -n) * w = -((q + n) * w) BY <1>2, <2>3
      <4>4. (-q) * a = -(q * a) /\ (-n) * price = -(n * price) BY <1>2, Products
      <4>5. (q + n) * w \in Int /\ q * a \in Int /\ n * price \in Int BY <1>2, <2>3, Products
      <4> QED BY <4>2, <4>3, <4>4, <4>5
    <3> QED BY <1>1, <1>2, <1>5, <3>1, <3>2 DEF Grows, SignOf
  <2>6. q * a \in Int /\ n * price \in Int BY <1>2, Products
  <2> QED BY <1>2, <1>3, <1>4, <2>2, <2>5, <2>6
<1>6. CASE ~Grows(p, n)
  <2>1. n * price \in Int /\ n * a \in Int /\ q * price \in Int /\ q * a \in Int
    BY <1>2, Products
  <2>2. CASE Abs(n) < Abs(q)
    <3>1. AveragePrice(p, n, price) = a /\ RealizedPnL(p, n, price) = -n * (price - a)
      BY <1>1, <1>2, <1>6, <2>2 DEF AveragePrice, RealizedPnL, Abs
    <3>2. -n * (price - a) = -(n * price) + n * a BY <1>2
    <3>3. (q + n) * a = q * a + n * a BY <1>2, Products
    <3> QED BY <1>2, <1>3, <1>4, <2>1, <3>1, <3>2, <3>3
  <2>3. q * (price - a) = q * price - q * a BY <1>2, Products
  <2>4. CASE Abs(n) = Abs(q)
    <3>1. AveragePrice(p, n, price) = 0 /\ RealizedPnL(p, n, price) = q * (price - a)
      BY <1>1, <1>2, <1>6, <2>4 DEF AveragePrice, RealizedPnL, Abs
    <3>2. n = -q BY <1>1, <1>2, <1>6, <2>4 DEF Abs, Grows, SignOf
    <3>3. n * price = -(q * price) BY <1>2, <3>2, Products
    <3> QED BY <1>2, <1>3, <1>4, <2>1, <2>3, <3>1, <3>2, <3>3
  <2>5. CASE Abs(n) > Abs(q)
    <3>1. AveragePrice(p, n, price) = price /\ RealizedPnL(p, n, price) = q * (price - a)
      BY <1>1, <1>2, <1>6, <2>5 DEF AveragePrice, RealizedPnL, Abs
    <3>2. (q + n) * price = q * price + n * price BY <1>2, Products
    <3> QED BY <1>2, <1>3, <1>4, <2>1, <2>3, <3>1, <3>2
  <2>6. Abs(n) \in Int /\ Abs(q) \in Int BY <1>2 DEF Abs
  <2> QED BY <2>2, <2>4, <2>5, <2>6
<1> QED BY <1>5, <1>6

\* Every step keeps what was paid and what the positions cost together.
LEMMA AccountsStep ==
    ASSUME TypeOK, Accounts, AveragesAreWhole, [Next]_vars
    PROVE  Accounts'
<1>1. ASSUME NEW price \in FillPrices, UpdatePosition(price) PROVE Accounts'
  <2>1. /\ fills # << >>
        /\ position' = [position EXCEPT ![HeadSymbol] = After(@, HeadLots, price)]
        /\ paid' = [paid EXCEPT ![HeadSymbol] = @ + HeadLots * price]
    BY <1>1, UpdateStep
  <2>2. /\ HeadSymbol \in Symbols /\ HeadLots \in Int \ {0} /\ price \in Nat \ {0}
        /\ position \in [Symbols -> Positions] /\ paid \in [Symbols -> Int]
    BY <2>1, HeadTypes, Assumed, TypeParts
  <2>3. Cost(After(position[HeadSymbol], HeadLots, price))
          = Cost(position[HeadSymbol]) + HeadLots * price
    BY <2>1, <2>2, CostAfter DEF AveragesAreWhole
  <2>4. PICK h, c : h = HeadSymbol /\ c = HeadLots * price OBVIOUS
  <2>5. ASSUME NEW s \in Symbols PROVE paid'[s] = Cost(position'[s])
    <3>1. CASE s = h BY <2>1, <2>2, <2>3, <2>4, <3>1 DEF Accounts
    <3>2. CASE s # h BY <2>1, <2>2, <2>4, <3>2 DEF Accounts
    <3> QED BY <3>1, <3>2
  <2> QED BY <2>5 DEF Accounts, Cost
<1>2. ASSUME UNCHANGED book PROVE Accounts' BY <1>2 DEF Accounts, Cost, book
<1>3. CASE ProcessOrder BY <1>2, <1>3, ProcessStep
<1>4. ASSUME NEW s \in Symbols, NEW side \in Sides, NEW n \in Lots, SubmitOrder(s, side, n)
      PROVE  Accounts'
  BY <1>2, <1>4, SubmitStep DEF book
<1>5. ASSUME NEW id \in Ids, NEW n \in Lots, InjectFill(id, n) PROVE Accounts'
  BY <1>2, <1>5 DEF InjectFill, book
<1>6. ASSUME NEW id \in Ids, FinalizeOrder(id) \/ Execute(id) \/ Close(id) PROVE Accounts'
  BY <1>2, <1>6 DEF FinalizeOrder, Execute, Close, book
<1>7. ASSUME UNCHANGED vars PROVE Accounts' BY <1>2, <1>7 DEF vars, book
<1> QED BY <1>1, <1>3, <1>4, <1>5, <1>6, <1>7 DEF Next, Idle

\* At any price.
LEMMA AccountsProfit == ASSUME TypeOK, Accounts PROVE ProfitAccounted
<1> SUFFICES ASSUME NEW s \in Symbols, NEW price \in FillPrices
             PROVE  TotalPnL(position[s], price) = position[s].quantity * price - paid[s]
  BY DEF ProfitAccounted
<1>1. PICK q, a, r : /\ q = position[s].quantity /\ a = position[s].average_price
                     /\ r = position[s].realized_pnl
  OBVIOUS
<1>2. q \in Int /\ a \in Int /\ r \in Int /\ price \in Int
  BY <1>1, TypeParts, Assumed DEF Positions
<1>3. paid[s] = q * a - r BY <1>1 DEF Accounts, Cost
<1>4. TotalPnL(position[s], price) = r + q * (price - a) BY <1>1 DEF TotalPnL
<1>5. q * (price - a) = q * price - q * a BY <1>2, Products
<1>6. q * price \in Int /\ q * a \in Int BY <1>2, Products
<1> QED BY <1>1, <1>2, <1>3, <1>4, <1>5, <1>6

\* However fills grow, reduce, close and turn a position, getTotalPnL is at any
\* price what its lots are worth less what was paid for them
\* (position_manager.hpp:18-19), as long as no average has to be rounded.
THEOREM ProfitIsAccounted == Spec /\ []AveragesAreWhole => []ProfitAccounted
<1>1. Init => Accounts BY DEF Init, Accounts, Cost, Flat
<1>2. TypeOK /\ Accounts /\ AveragesAreWhole /\ [Next]_vars => Accounts' BY AccountsStep
<1>3. TypeOK /\ Accounts => ProfitAccounted BY AccountsProfit
<1> QED BY <1>1, <1>2, <1>3, TypeCorrect, PTL DEF Spec

-----------------------------------------------------------------------------
(* The position limit *)

Fits(lots) == Abs(lots) * OrderPrice <= MaxPosition

\* A symbol that never had two orders at a time and lost no fill.
Alone(s) == s \notin overlapped /\ \A id \in IdsOf(s) : orders[id].lost = 0

\* What the exchange may yet execute of an order, and has executed.
Rest(id) == Sign(orders[id].side) * (orders[id].lots - orders[id].executed)
Done == [id \in Ids |-> Sign(orders[id].side) * orders[id].executed]

\* An order is given up when it is closed or reported to its last lot.
Ended == \A id \in Ids : orders[id].state = "final" =>
                            orders[id].closed \/ orders[id].reported = orders[id].lots

\* The limit has room for what was executed and for each order that is open,
\* and one order of a symbol may change its position.
Room(s) == /\ Fits(Exposure(s))
           /\ \A id \in IdsOf(s) : ~orders[id].closed => Fits(Exposure(s) + Rest(id))
Single(s) == \A i, j \in IdsOf(s) : UnderWay(i) /\ UnderWay(j) => i = j
LimitInv == Ended /\ \A s \in Symbols : Alone(s) => Room(s) /\ Single(s)

\* UnderWay before a step and after it.
LEMMA UnderWayIs ==
    /\ \A id : UnderWay(id) <=> \/ orders[id].state # "final"
                                \/ orders[id].reported < orders[id].executed
                                \/ QueuedIn(fills, id) > 0
    /\ \A id : UnderWay(id)' <=> \/ orders'[id].state # "final"
                                 \/ orders'[id].reported < orders'[id].executed
                                 \/ QueuedIn(fills', id) > 0
  BY DEF UnderWay, Queued, QueuedIn, LotsIn, SumFunction

\* Exposure before a step and after it.
LEMMA ExposureIs ==
    /\ \A s : Exposure(s) = SumFunctionOnSet(Done, IdsOf(s))
    /\ \A s : Exposure(s)' = SumFunctionOnSet(Done', IdsOf(s)')
  BY DEF Exposure, Done

\* Executed lots with their sign are integers.
LEMMA ExposureTypes ==
    ASSUME TypeOK
    PROVE  /\ \A id \in Ids : Done[id] \in Int /\ Rest(id) \in Int
           /\ \A s : Exposure(s) \in Int
<1>1. ASSUME NEW id \in Ids PROVE Done[id] \in Int /\ Rest(id) \in Int
  <2>1. /\ Sign(orders[id].side) \in Int /\ orders[id].executed \in Nat
        /\ orders[id].lots \in Nat
    BY OrderTypes
  <2>2. /\ (Sign(orders[id].side) * orders[id].executed) \in Int
        /\ (Sign(orders[id].side) * (orders[id].lots - orders[id].executed)) \in Int
    BY <2>1
  <2> QED BY <2>2 DEF Done, Rest
<1>2. ASSUME NEW s PROVE Exposure(s) \in Int
  <2>1. IsFiniteSet(IdsOf(s)) /\ \A id \in IdsOf(s) : Done[id] \in Int BY <1>1, OrderTypes
  <2> QED BY <2>1, SumInt, ExposureIs
<1> QED BY <1>1, <1>2

\* What lies between two exposures within the limit is within it.
LEMMA FitsBetween ==
    ASSUME NEW a \in Int, NEW b \in Int, NEW c \in Int, Fits(a), Fits(c),
           (a <= b /\ b <= c) \/ (c <= b /\ b <= a)
    PROVE  Fits(b)
<1>1. Abs(a) \in Nat /\ Abs(b) \in Nat /\ Abs(c) \in Nat BY DEF Abs
<1>2. Abs(b) <= Abs(a) \/ Abs(b) <= Abs(c) BY DEF Abs
<1>3. \A x, y, z \in Nat : x <= y => x * z <= y * z /\ (x * z) \in Int /\ (y * z) \in Int
  OBVIOUS
<1>4. OrderPrice \in Nat /\ MaxPosition \in Int BY Assumed
<1>5. CASE Abs(b) <= Abs(a)
  <2>1. /\ Abs(b) * OrderPrice <= Abs(a) * OrderPrice
        /\ (Abs(b) * OrderPrice) \in Int /\ (Abs(a) * OrderPrice) \in Int
    BY <1>1, <1>3, <1>4, <1>5
  <2> QED BY <1>4, <2>1 DEF Fits
<1>6. CASE Abs(b) <= Abs(c)
  <2>1. /\ Abs(b) * OrderPrice <= Abs(c) * OrderPrice
        /\ (Abs(b) * OrderPrice) \in Int /\ (Abs(c) * OrderPrice) \in Int
    BY <1>1, <1>3, <1>4, <1>6
  <2> QED BY <1>4, <2>1 DEF Fits
<1> QED BY <1>2, <1>5, <1>6

\* An order that is open and not executed to its last lot is under way.
LEMMA OpenUnderWay ==
    ASSUME TypeOK, Ended, NEW id \in Ids, ~orders[id].closed,
           orders[id].executed < orders[id].lots
    PROVE  UnderWay(id)
<1>1. orders[id].reported <= orders[id].executed /\ orders[id].reported \in Nat
      /\ orders[id].executed \in Nat /\ orders[id].lots \in Nat
  BY TypeParts, OrderTypes DEF OrdersOK, Bounded
<1>2. orders[id].state # "final" BY <1>1 DEF Ended
<1> QED BY <1>2, UnderWayIs

\* A step that executes nothing and brings no order under way.
LEMMA LimitSteady ==
    ASSUME TypeOK, LimitInv, Ids' = Ids, overlapped' = overlapped,
           \A id \in Ids : /\ Same(orders'[id], orders[id])
                           /\ orders'[id].executed = orders[id].executed
                           /\ orders[id].closed => orders'[id].closed
                           /\ orders'[id].lost = 0 =>
                                orders[id].lost = 0 /\ (UnderWay(id)' => UnderWay(id))
    PROVE  \A s \in Symbols : Alone(s)' => Room(s)' /\ Single(s)'
<1> TAKE s \in Symbols
<1>1. IdsOf(s)' = IdsOf(s) BY DEF IdsOf, Same
<1>2. IdsOf(s) \subseteq Ids /\ IsFiniteSet(IdsOf(s)) BY OrderTypes
<1>3. \A id \in Ids : Done'[id] = Done[id] BY DEF Done, Same
<1>4. Exposure(s)' = Exposure(s)
  <2>1. \A id \in IdsOf(s) : Done'[id] = Done[id] BY <1>2, <1>3
  <2>2. SumFunctionOnSet(Done', IdsOf(s)) = SumFunctionOnSet(Done, IdsOf(s))
    BY <1>2, <2>1, SumSame
  <2> QED BY <1>1, <2>2, ExposureIs
<1>5. \A id \in Ids : Rest(id)' = Rest(id) BY DEF Rest, Same
<1> HAVE Alone(s)'
<1>6. \A id \in IdsOf(s) : orders'[id].lost = 0 BY <1>1 DEF Alone
<1>7. Alone(s) BY <1>2, <1>6 DEF Alone
<1>8. Room(s) /\ Single(s) BY <1>7 DEF LimitInv
<1>9. Room(s)' BY <1>1, <1>2, <1>4, <1>5, <1>8 DEF Room, Fits
<1>10. Single(s)' BY <1>1, <1>2, <1>6, <1>8 DEF Single
<1> QED BY <1>9, <1>10

\* The exchange executes a lot of the one order that is under way: what was
\* executed moves towards what the limit has room for.
LEMMA LimitExecute ==
    ASSUME TypeOK, LimitInv, NEW i \in Ids, Execute(i)
    PROVE  Ended' /\ \A s \in Symbols : Alone(s)' => Room(s)' /\ Single(s)'
<1>1. PICK o \in Orders :
        /\ o = [orders[i] EXCEPT !.executed = @ + 1] /\ Bounded(o) /\ AtExchange(i)
        /\ orders' = [orders EXCEPT ![i] = o] /\ UNCHANGED <<fills, overlapped, book>>
  BY ExecuteStep
<1>2. Ids' = Ids /\ orders'[i] = o /\ \A j \in Ids \ {i} : orders'[j] = orders[j]
  BY <1>1, OneOrder, TypeParts
<1>3. /\ Same(o, orders[i]) /\ o.executed = orders[i].executed + 1
      /\ o.state = orders[i].state /\ o.closed = orders[i].closed
      /\ o.reported = orders[i].reported /\ o.lost = orders[i].lost
  <2>1. orders[i] \in Orders BY OrderTypes
  <2> QED BY <1>1, <2>1 DEF Same, Orders
<1>4. ~orders[i].closed /\ orders[i].executed < orders[i].lots BY <1>1 DEF AtExchange
<1>5. Ended BY DEF LimitInv
<1>6. Ended' BY <1>2, <1>3, <1>5 DEF Ended, Same
<1>7. \A s : IdsOf(s)' = IdsOf(s) BY <1>2, <1>3 DEF IdsOf, Same
<1>8. UnderWay(i) BY <1>4, <1>5, OpenUnderWay
<1>9. \A j \in Ids : UnderWay(j)' => UnderWay(j) BY <1>1, <1>2, <1>8, UnderWayIs
<1>10. PICK g : g = Sign(orders[i].side) OBVIOUS
<1>11. /\ g \in {1, -1} /\ orders[i].executed \in Nat /\ orders[i].lots \in Nat
  BY <1>10, OrderTypes, SignType
<1>12. Done'[i] = Done[i] + g /\ \A j \in Ids \ {i} : Done'[j] = Done[j]
  <2>1. Done'[i] = g * (orders[i].executed + 1) /\ Done[i] = g * orders[i].executed
    BY <1>2, <1>3, <1>10 DEF Done, Same
  <2>2. \A j \in Ids \ {i} : Done'[j] = Done[j] BY <1>2 DEF Done
  <2> QED BY <1>11, <2>1, <2>2
<1>13. Rest(i)' = Rest(i) - g /\ \A j \in Ids \ {i} : Rest(j)' = Rest(j)
  <2>1. /\ Rest(i)' = g * (orders[i].lots - (orders[i].executed + 1))
        /\ Rest(i) = g * (orders[i].lots - orders[i].executed)
    BY <1>2, <1>3, <1>10 DEF Rest, Same
  <2>2. \A j \in Ids \ {i} : Rest(j)' = Rest(j) BY <1>2 DEF Rest
  <2> QED BY <1>11, <2>1, <2>2
<1>14. ASSUME NEW s \in Symbols, Alone(s)' PROVE Room(s)' /\ Single(s)'
  <2>1. IdsOf(s) \subseteq Ids /\ IsFiniteSet(IdsOf(s)) BY OrderTypes
  <2>2. Alone(s)
    <3>1. \A j \in IdsOf(s) : orders[j].lost = 0 BY <1>2, <1>3, <1>7, <1>14, <2>1 DEF Alone
    <3> QED BY <1>1, <1>14, <3>1 DEF Alone
  <2>3. Room(s) /\ Single(s) BY <2>2 DEF LimitInv
  <2>4. Single(s)' BY <1>7, <1>9, <2>1, <2>3 DEF Single
  <2>5. CASE i \in IdsOf(s)
    <3>1. Exposure(s)' = Exposure(s) + g
      <4>1. \A j \in IdsOf(s) : Done[j] \in Int BY <2>1, ExposureTypes
      <4>2. Done'[i] \in Int /\ Done'[i] - Done[i] = g BY <1>11, <1>12, <2>5, <4>1
      <4>3. \A j \in IdsOf(s) \ {i} : Done'[j] = Done[j] BY <1>12, <2>1
      <4>4. SumFunctionOnSet(Done', IdsOf(s))
              = SumFunctionOnSet(Done, IdsOf(s)) + (Done'[i] - Done[i])
        BY <2>1, <2>5, <4>1, <4>2, <4>3, SumChange
      <4> QED BY <1>7, <4>2, <4>4, ExposureIs
    <3>2. PICK e, r : e = Exposure(s) /\ r = Rest(i) OBVIOUS
    <3>3. e \in Int /\ r \in Int BY <3>2, ExposureTypes
    <3>4. Fits(e) /\ Fits(e + r) BY <1>4, <2>3, <2>5, <3>2 DEF Room
    <3>5. Fits(e + g)
      <4>1. r = g * (orders[i].lots - orders[i].executed) BY <1>10, <3>2 DEF Rest
      <4>2. \/ e <= e + g /\ e + g <= e + r
            \/ e + r <= e + g /\ e + g <= e
        BY <1>4, <1>11, <3>3, <4>1
      <4> QED BY <1>11, <3>3, <3>4, <4>2, FitsBetween
    <3>6. ASSUME NEW j \in IdsOf(s), ~orders'[j].closed
          PROVE  Fits((e + g) + Rest(j)')
      <4>1. CASE j = i
        <5>1. (e + g) + (r - g) = e + r BY <1>11, <3>3
        <5>2. Rest(j)' = r - g BY <1>13, <3>2, <4>1
        <5> QED BY <3>4, <5>1, <5>2
      <4>2. CASE j # i
        <5>1. j \in Ids \ {i} /\ ~orders[j].closed BY <1>2, <2>1, <3>6, <4>2
        <5>2. ~UnderWay(j) BY <1>8, <2>3, <2>5, <4>2 DEF Single
        <5>3. ~(orders[j].executed < orders[j].lots) BY <1>5, <5>1, <5>2, OpenUnderWay
        <5>4. /\ orders[j].executed <= orders[j].lots /\ orders[j].executed \in Nat
              /\ orders[j].lots \in Nat /\ Sign(orders[j].side) \in Int
          BY <5>1, OrderTypes, TypeParts DEF OrdersOK, Bounded
        <5>5. Rest(j) = 0
          <6>1. orders[j].lots - orders[j].executed = 0 BY <5>3, <5>4
          <6> QED BY <5>4, <6>1 DEF Rest
        <5>6. (e + g) + Rest(j)' = e + g BY <1>11, <1>13, <3>3, <5>1, <5>5
        <5> QED BY <3>5, <5>6
      <4> QED BY <4>1, <4>2
    <3>7. Exposure(s)' = e + g BY <3>1, <3>2
    <3>8. Room(s)' BY <1>7, <3>5, <3>6, <3>7 DEF Room, Fits
    <3> QED BY <2>4, <3>8
  <2>6. CASE i \notin IdsOf(s)
    <3>1. \A j \in IdsOf(s) : /\ Done'[j] = Done[j] /\ Rest(j)' = Rest(j)
                              /\ orders'[j] = orders[j]
      BY <1>2, <1>12, <1>13, <2>1, <2>6
    <3>2. SumFunctionOnSet(Done', IdsOf(s)) = SumFunctionOnSet(Done, IdsOf(s))
      BY <2>1, <3>1, SumSame
    <3>3. Exposure(s)' = Exposure(s) BY <1>7, <3>2, ExposureIs
    <3>4. Room(s)' BY <1>7, <2>3, <3>1, <3>3 DEF Room, Fits
    <3> QED BY <2>4, <3>4
  <2> QED BY <2>5, <2>6
<1> QED BY <1>6, <1>14

\* When no order of a symbol is under way and no fill of it was lost, its
\* position is what the exchange has executed.
LEMMA SettledExposure ==
    ASSUME TypeOK, FillsConserved, NEW s \in Symbols,
           \A id \in IdsOf(s) : ~UnderWay(id) /\ orders[id].lost = 0
    PROVE  Exposure(s) = position[s].quantity
<1>1. IdsOf(s) \subseteq Ids /\ IsFiniteSet(IdsOf(s)) BY OrderTypes
<1>2. ASSUME NEW id \in IdsOf(s) PROVE NetLots[id] = Done[id]
  <2>1. id \in Ids BY <1>1
  <2>2. fills \in Seq(Fills) BY TypeParts
  <2>3. QueuedIn(fills, id) \in Nat BY <2>2, QueuedNat
  <2>4. /\ orders[id].reported \in Nat /\ orders[id].executed \in Nat
        /\ orders[id].reported <= orders[id].executed
    BY <2>1, OrderTypes, TypeParts DEF OrdersOK, Bounded
  <2>5. QueuedIn(fills, id) = 0 /\ orders[id].reported = orders[id].executed
    BY <2>3, <2>4, UnderWayIs
  <2>6. Booked(id) = orders[id].executed BY <2>4, <2>5, BookedIs
  <2> QED BY <2>1, <2>6 DEF NetLots, Done
<1>3. SumFunctionOnSet(NetLots, IdsOf(s)) = SumFunctionOnSet(Done, IdsOf(s))
  BY <1>1, <1>2, SumSame
<1> QED BY <1>3, ExposureIs, ConservedParts DEF Quantities

\* checkOrder looks at the position, which is what was executed when the new
\* order is alone.
LEMMA LimitSubmit ==
    ASSUME TypeOK, FillsConserved, LimitInv,
           NEW u \in Symbols, NEW side \in Sides, NEW n \in Lots, SubmitOrder(u, side, n)
    PROVE  Ended' /\ \A s \in Symbols : Alone(s)' => Room(s)' /\ Single(s)'
<1>1. PICK new : new = Len(orders) + 1 OBVIOUS
<1>2. /\ Ids' = Ids \cup {new} /\ new \notin Ids
      /\ orders'[new] = OrderRequest(u, side, n)
      /\ \A id \in Ids : orders'[id] = orders[id]
      /\ UNCHANGED <<fills, book>>
  BY <1>1, SubmitStep
<1>3. Ended /\ Ended' BY <1>2 DEF LimitInv, Ended, OrderRequest
<1>4. ASSUME NEW id \in Ids
      PROVE  /\ Done'[id] = Done[id] /\ Rest(id)' = Rest(id)
             /\ UnderWay(id)' <=> UnderWay(id)
  BY <1>2, UnderWayIs DEF Done, Rest
<1>5. PICK g : g = Sign(side) OBVIOUS
<1>6. g \in {1, -1} /\ n \in Nat \ {0} BY <1>5, SignType, Assumed
<1>7. Done'[new] = 0 /\ Rest(new)' = g * n
  BY <1>2, <1>5, <1>6 DEF Done, Rest, OrderRequest
<1>8. ASSUME NEW s \in Symbols, Alone(s)' PROVE Room(s)' /\ Single(s)'
  <2>1. IdsOf(s) \subseteq Ids /\ IsFiniteSet(IdsOf(s)) /\ new \notin IdsOf(s)
    BY <1>2, OrderTypes
  <2>2. IdsOf(s)' = IdsOf(s) \cup (IF s = u THEN {new} ELSE {})
    BY <1>2 DEF IdsOf, OrderRequest
  <2>3. overlapped \subseteq overlapped' BY DEF SubmitOrder
  <2>4. \A id \in IdsOf(s) : orders[id].lost = 0 BY <1>2, <1>8, <2>1, <2>2 DEF Alone
  <2>5. Alone(s) BY <1>8, <2>3, <2>4 DEF Alone
  <2>6. Room(s) /\ Single(s) BY <2>5 DEF LimitInv
  <2>7. \A id \in IdsOf(s) : Done[id] \in Int /\ Done'[id] = Done[id]
    BY <1>4, <2>1, ExposureTypes
  <2>8. SumFunctionOnSet(Done', IdsOf(s)) = Exposure(s)
    BY <2>1, <2>7, SumSame, ExposureIs
  <2>9. CASE s = u
    <3>1. \A id \in IdsOf(s) : ~UnderWay(id) BY <1>8, <2>9 DEF SubmitOrder, Alone
    <3>2. Exposure(s) = position[s].quantity BY <2>4, <3>1, SettledExposure
    <3>3. Exposure(s)' = Exposure(s)
      <4>1. \A id \in IdsOf(s) \cup {new} : Done'[id] \in Int BY <1>7, <2>7
      <4>2. SumFunctionOnSet(Done', IdsOf(s) \cup {new})
              = SumFunctionOnSet(Done', IdsOf(s)) + Done'[new]
        BY <2>1, <4>1, SumAdd
      <4>3. IdsOf(s)' = IdsOf(s) \cup {new} BY <2>2, <2>9
      <4>4. Exposure(s) \in Int BY ExposureTypes
      <4>5. Exposure(s)' = SumFunctionOnSet(Done', IdsOf(s) \cup {new})
        BY <4>3, ExposureIs, Zenon
      <4> QED BY <1>7, <2>8, <4>2, <4>4, <4>5
    <3>4. Fits(Exposure(s) + g * n) BY <1>5, <2>9, <3>2 DEF SubmitOrder, WithinLimits, Fits
    <3>5. ASSUME NEW id \in IdsOf(s), ~orders[id].closed PROVE Rest(id) = 0
      <4>1. id \in Ids BY <2>1
      <4>2. ~(orders[id].executed < orders[id].lots)
        BY <1>3, <3>1, <3>5, <4>1, OpenUnderWay
      <4>3. /\ orders[id].executed <= orders[id].lots /\ orders[id].executed \in Nat
            /\ orders[id].lots \in Nat /\ Sign(orders[id].side) \in Int
        BY <4>1, OrderTypes, TypeParts DEF OrdersOK, Bounded
      <4>4. orders[id].lots - orders[id].executed = 0 BY <4>2, <4>3
      <4> QED BY <4>3, <4>4 DEF Rest
    <3>6. \A id \in IdsOf(s)' : ~orders'[id].closed => Fits(Exposure(s) + Rest(id)')
      <4> TAKE id \in IdsOf(s)'
      <4> HAVE ~orders'[id].closed
      <4>1. CASE id = new BY <1>7, <3>4, <4>1
      <4>2. CASE id \in IdsOf(s)
        <5>1. ~orders[id].closed BY <1>2, <2>1, <4>2
        <5>2. Rest(id) = 0 BY <3>5, <4>2, <5>1
        <5>3. Rest(id)' = 0 BY <1>4, <2>1, <4>2, <5>2
        <5>4. Exposure(s) + 0 = Exposure(s) BY ExposureTypes
        <5> QED BY <2>6, <5>3, <5>4 DEF Room
      <4> QED BY <2>2, <2>9, <4>1, <4>2
    <3>7. Room(s)' BY <2>6, <3>3, <3>6 DEF Room, Fits
    <3>8. Single(s)' BY <1>4, <2>1, <2>2, <3>1 DEF Single
    <3> QED BY <3>7, <3>8
  <2>10. CASE s # u
    <3>1. IdsOf(s)' = IdsOf(s) BY <2>2, <2>10
    <3>2. Exposure(s)' = Exposure(s) BY <2>8, <3>1, ExposureIs
    <3>3. \A id \in IdsOf(s) : orders'[id] = orders[id] /\ Rest(id)' = Rest(id)
      BY <1>2, <1>4, <2>1
    <3>4. Room(s)' BY <2>6, <3>1, <3>2, <3>3 DEF Room, Fits
    <3>5. Single(s)' BY <1>4, <2>1, <2>6, <3>1 DEF Single
    <3> QED BY <3>4, <3>5
  <2> QED BY <2>9, <2>10
<1> QED BY <1>3, <1>8

\* Every step keeps the limit of symbols that have one order at a time.
LEMMA LimitStep ==
    ASSUME TypeOK, FillsConserved, LimitInv, [Next]_vars
    PROVE  LimitInv'
<1>0. Ended /\ \A id \in Ids : orders[id] \in Orders BY OrderTypes DEF LimitInv
<1>1. ASSUME NEW i \in Ids, NEW o \in Orders, Bounded(o), Same(o, orders[i]),
             o.executed = orders[i].executed, orders[i].closed => o.closed,
             o.reported = orders[i].reported, o.lost = orders[i].lost,
             orders[i].state = "final" => o.state = "final",
             o.state = "final" => o.closed \/ orders[i].state = "final",
             orders' = [orders EXCEPT ![i] = o], UNCHANGED <<fills, overlapped, book>>
      PROVE  LimitInv'
  <2>1. Ids' = Ids /\ orders'[i] = o /\ \A j \in Ids \ {i} : orders'[j] = orders[j]
    BY <1>1, OneOrder, TypeParts
  <2>2. Ended' BY <1>0, <1>1, <2>1 DEF Ended, Same
  <2>3. ASSUME NEW j \in Ids
        PROVE  /\ Same(orders'[j], orders[j]) /\ orders'[j].executed = orders[j].executed
               /\ orders[j].closed => orders'[j].closed
               /\ orders'[j].lost = orders[j].lost
               /\ UnderWay(j)' => UnderWay(j)
    BY <1>1, <2>1, UnderWayIs DEF Same
  <2>4. \A s \in Symbols : Alone(s)' => Room(s)' /\ Single(s)'
    BY <1>1, <2>1, <2>3, LimitSteady
  <2> QED BY <2>2, <2>4 DEF LimitInv
<1>2. CASE ProcessOrder
  <2>1. PICK id \in Ids : \E o \in Orders :
           /\ o = [orders[id] EXCEPT !.state = "pending"] /\ Bounded(o)
           /\ orders[id].state = "queued"
           /\ orders' = [orders EXCEPT ![id] = o] /\ UNCHANGED <<fills, overlapped, book>>
    BY <1>2, ProcessStep
  <2> QED BY <1>0, <1>1, <2>1 DEF Same, Orders
<1>3. ASSUME NEW id \in Ids, FinalizeOrder(id) PROVE LimitInv'
  BY <1>0, <1>1, <1>3, FinalizeStep DEF Same, Orders
<1>4. ASSUME NEW id \in Ids, Close(id) PROVE LimitInv'
  BY <1>0, <1>1, <1>4, CloseStep DEF Same, Orders
<1>5. ASSUME NEW id \in Ids, Execute(id) PROVE LimitInv'
  BY <1>5, LimitExecute DEF LimitInv
<1>6. ASSUME NEW s \in Symbols, NEW side \in Sides, NEW n \in Lots, SubmitOrder(s, side, n)
      PROVE  LimitInv'
  BY <1>6, LimitSubmit DEF LimitInv
<1>7. ASSUME NEW price \in FillPrices, UpdatePosition(price) PROVE LimitInv'
  <2>1. fills # << >> /\ fills' = Tail(fills) /\ UNCHANGED <<orders, overlapped>>
    BY <1>7, UpdateStep
  <2>2. Ids' = Ids BY <2>1 DEF Ids
  <2>3. Ended' BY <1>0, <2>1, <2>2 DEF Ended
  <2>4. ASSUME NEW j \in Ids PROVE UnderWay(j)' => UnderWay(j)
    <3>1. /\ fills \in Seq(Fills) /\ Tail(fills) \in Seq(Fills)
          /\ Head(fills).lots \in Nat
      BY <2>1, HeadTypes
    <3>2. QueuedIn(fills, j) = QueuedIn(fills', j)
                                 + (IF Head(fills).order_id = j THEN Head(fills).lots ELSE 0)
      BY <2>1, <3>1, QueuedTail
    <3>3. QueuedIn(fills', j) \in Nat BY <2>1, <3>1, QueuedNat
    <3>4. QueuedIn(fills', j) > 0 => QueuedIn(fills, j) > 0 BY <3>1, <3>2, <3>3
    <3> QED BY <2>1, <3>4, UnderWayIs
  <2>5. \A j \in Ids : Same(orders'[j], orders[j]) BY <2>1 DEF Same
  <2>6. \A s \in Symbols : Alone(s)' => Room(s)' /\ Single(s)'
    BY <2>1, <2>2, <2>4, <2>5, LimitSteady
  <2> QED BY <2>3, <2>6 DEF LimitInv
<1>8. ASSUME NEW i \in Ids, NEW n \in Lots, InjectFill(i, n) PROVE LimitInv'
  <2>1. PICK o \in Orders :
          /\ o = [orders[i] EXCEPT !.reported = @ + n,
                                   !.lost = IF Full THEN @ + n ELSE @,
                                   !.state = IF orders[i].reported + n = orders[i].lots
                                             THEN "final" ELSE @]
          /\ Bounded(o) /\ orders[i].reported + n <= orders[i].executed
          /\ orders' = [orders EXCEPT ![i] = o]
          /\ fills' = IF Full THEN fills ELSE Append(fills, Fill(i, n))
          /\ UNCHANGED <<overlapped, book>>
    BY <1>8, InjectStep
  <2>2. Ids' = Ids /\ orders'[i] = o /\ \A j \in Ids \ {i} : orders'[j] = orders[j]
    BY <2>1, OneOrder, TypeParts
  <2>3. /\ Same(o, orders[i]) /\ o.executed = orders[i].executed
        /\ o.closed = orders[i].closed /\ o.reported = orders[i].reported + n
        /\ o.lost = IF Full THEN orders[i].lost + n ELSE orders[i].lost
        /\ o.state = IF o.reported = o.lots THEN "final" ELSE orders[i].state
    BY <1>0, <2>1 DEF Same, Orders
  <2>4. /\ n \in Nat \ {0} /\ orders[i].lost \in Nat /\ orders[i].reported \in Nat
        /\ orders[i].executed \in Nat /\ orders[i].lots \in Nat
        /\ orders[i].executed <= orders[i].lots
    BY Assumed, OrderTypes, TypeParts DEF OrdersOK, Bounded
  <2>5. orders[i].reported < orders[i].executed /\ orders[i].reported < orders[i].lots
    BY <2>1, <2>4
  <2>6. Ended' BY <1>0, <2>2, <2>3, <2>4, <2>5 DEF Ended, Same
  <2>7. ASSUME NEW j \in Ids, orders'[j].lost = 0
        PROVE  orders[j].lost = 0 /\ (UnderWay(j)' => UnderWay(j))
    <3>1. CASE j = i
      <4>1. UnderWay(i) BY <2>5, UnderWayIs
      <4>2. orders[i].lost = 0 BY <2>2, <2>3, <2>4, <2>7, <3>1
      <4> QED BY <3>1, <4>1, <4>2
    <3>2. CASE j # i
      <4>1. fills \in Seq(Fills) /\ Fill(i, n) \in Fills /\ Fill(i, n).order_id = i
        <5>1. i \in Nat BY OrderTypes
        <5> QED BY <2>4, <5>1, TypeParts DEF Fill, Fills
      <4>2. QueuedIn(Append(fills, Fill(i, n)), j) = QueuedIn(fills, j) + 0
        BY <3>2, <4>1, QueuedAppend
      <4>3. QueuedIn(fills', j) = QueuedIn(fills, j) BY <2>1, <4>1, <4>2, QueuedNat
      <4> QED BY <2>2, <2>7, <3>2, <4>3, UnderWayIs
    <3> QED BY <3>1, <3>2
  <2>8. \A j \in Ids : /\ Same(orders'[j], orders[j])
                       /\ orders'[j].executed = orders[j].executed
                       /\ orders'[j].closed = orders[j].closed
    BY <2>2, <2>3 DEF Same
  <2>9. \A s \in Symbols : Alone(s)' => Room(s)' /\ Single(s)'
    BY <2>1, <2>2, <2>7, <2>8, LimitSteady
  <2> QED BY <2>6, <2>9 DEF LimitInv
<1>9. ASSUME UNCHANGED vars PROVE LimitInv'
  <2>1. /\ Ids' = Ids /\ orders' = orders /\ fills' = fills /\ overlapped' = overlapped
    BY <1>9 DEF vars, Ids
  <2>2. Ended' BY <1>0, <2>1 DEF Ended
  <2>3. \A j \in Ids : Same(orders'[j], orders[j]) /\ (UnderWay(j)' => UnderWay(j))
    BY <2>1, UnderWayIs DEF Same
  <2>4. \A s \in Symbols : Alone(s)' => Room(s)' /\ Single(s)'
    BY <2>1, <2>3, LimitSteady
  <2> QED BY <2>2, <2>4 DEF LimitInv
<1> QED BY <1>2, <1>3, <1>4, <1>5, <1>6, <1>7, <1>8, <1>9 DEF Next, Idle

\* "Position limit: projected symbol position <= max_position_value"
\* (risk_engine.hpp:69), of what the exchange has executed: it holds for every
\* symbol that never had two orders under way and lost no fill, when the limit
\* is not negative, and so allows a flat position.
THEOREM LimitHolds == ASSUME MaxPosition \in Nat PROVE Spec => []LimitHoldsAlone
<1>1. Init => LimitInv
  <2> SUFFICES ASSUME Init PROVE LimitInv OBVIOUS
  <2>1. Ids = {} /\ \A s : IdsOf(s) = {} BY DEF Init, Ids, IdsOf
  <2>2. \A s : Exposure(s) = 0 BY <2>1, SumEmpty DEF Exposure
  <2>3. Fits(0) BY Assumed DEF Fits, Abs
  <2> QED BY <2>1, <2>2, <2>3 DEF LimitInv, Ended, Room, Single
<1>2. TypeOK /\ FillsConserved /\ LimitInv /\ [Next]_vars => LimitInv' BY LimitStep
<1>3. LimitInv => LimitHoldsAlone BY DEF LimitInv, Alone, Room, Fits, LimitHoldsAlone
<1> QED BY <1>1, <1>2, <1>3, TypeCorrect, FillsAreConserved, PTL DEF Spec
=============================================================================
