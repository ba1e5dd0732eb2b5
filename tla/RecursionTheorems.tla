------------------------- MODULE RecursionTheorems -------------------------
(***************************************************************************)
(* What two operators of the community modules return that are defined by  *)
(* recursive functions: SumFunctionOnSet, by one on the subsets of a       *)
(* finite set, and FlattenSeq, by one on the numbers up to a length.  The  *)
(* induction theorems of the library cannot be instantiated, but the       *)
(* theorem that a nonempty set of subsets of a finite set has a minimal    *)
(* member can: every induction below is an argument about a minimal        *)
(* counterexample.                                                         *)
(***************************************************************************)
EXTENDS Integers, SequencesExt, FiniteSetTheorems, TLAPS

Pick(s) == CHOOSE x \in s : TRUE

\* it sums f over every subset of S.
Sums(f, S, it) ==
    it = [s \in SUBSET S |-> IF s = {} THEN 0 ELSE f[Pick(s)] + it[s \ {Pick(s)}]]

\* Of some subsets of a finite set, one has none of the others inside it.
LEMMA MinimalSubset ==
    ASSUME NEW S, IsFiniteSet(S), NEW T, T \subseteq SUBSET S, T # {}
    PROVE  \E s \in T : \A t \in T : t \subseteq s => t = s
<1>1. \E s \in T : \A t \in T : ~ (<<t, s>> \in StrictSubsetOrdering(S))
  BY FS_StrictSubsetOrderingWellFounded, FS_FiniteSubsetsOfFinite, WFMin
<1> QED
  BY <1>1 DEF StrictSubsetOrdering

LEMMA PickIn ==
    ASSUME NEW s, s # {}
    PROVE  Pick(s) \in s
BY DEF Pick

-----------------------------------------------------------------------------
(***************************************************************************)
(* The recursive function exists and is unique.                            *)
(***************************************************************************)

LEMMA SumsValue ==
    ASSUME NEW f, NEW S, NEW it, Sums(f, S, it)
    PROVE  /\ it[{}] = 0
           /\ \A s \in SUBSET S : s # {} => it[s] = f[Pick(s)] + it[s \ {Pick(s)}]
<1> DEFINE V(s) == IF s = {} THEN 0 ELSE f[Pick(s)] + it[s \ {Pick(s)}]
<1>1. it = [s \in SUBSET S |-> V(s)]
  BY DEF Sums
<1>2. \A s \in SUBSET S : it[s] = V(s)
  <2> HIDE DEF V
  <2> QED BY <1>1
<1> QED
  BY <1>2

\* Two sums of f agree where both are defined.
LEMMA SumsUnique ==
    ASSUME NEW f, NEW S, IsFiniteSet(S), NEW R, NEW g, NEW h, Sums(f, S, g), Sums(f, R, h),
           NEW s, s \subseteq S, s \subseteq R
    PROVE  g[s] = h[s]
<1> DEFINE T == {t \in SUBSET s : g[t] # h[t]}
<1>1. IsFiniteSet(s)
  BY FS_Subset
<1>2. ASSUME T # {}
      PROVE  FALSE
  <2>1. PICK t \in T : \A u \in T : u \subseteq t => u = t
    <3>1. T \subseteq SUBSET s
      OBVIOUS
    <3> HIDE DEF T
    <3> QED BY <1>1, <1>2, <3>1, MinimalSubset
  <2>2. t # {}
    BY <2>1, SumsValue
  <2>3. Pick(t) \in t
    BY <2>2, PickIn
  <2>4. g[t \ {Pick(t)}] = h[t \ {Pick(t)}]
    BY <2>1, <2>3
  <2>5. /\ g[t] = f[Pick(t)] + g[t \ {Pick(t)}]
        /\ h[t] = f[Pick(t)] + h[t \ {Pick(t)}]
    BY <2>2, SumsValue
  <2> QED
    BY <2>1, <2>4, <2>5
<1> QED
  BY <1>2

LEMMA SumsExists ==
    ASSUME NEW f, NEW S, IsFiniteSet(S)
    PROVE  \E it : Sums(f, S, it)
<1> DEFINE T == {t \in SUBSET S : ~ \E it : Sums(f, t, it)}
<1>1. ASSUME T # {}
      PROVE  FALSE
  <2>1. PICK t \in T : \A u \in T : u \subseteq t => u = t
    <3>1. T \subseteq SUBSET S
      OBVIOUS
    <3> HIDE DEF T
    <3> QED BY <1>1, <3>1, MinimalSubset
  <2> DEFINE H(u) == CHOOSE it : Sums(f, u, it)
             it == [s \in SUBSET t |->
                      IF s = {} THEN 0
                      ELSE f[Pick(s)] + H(s \ {Pick(s)})[s \ {Pick(s)}]]
  <2>2. ASSUME NEW u \in SUBSET t, u # t
        PROVE  Sums(f, u, H(u))
    <3>1. u \notin T /\ u \in SUBSET S
      BY <2>1, <2>2
    <3>2. \E g : Sums(f, u, g)
      BY <3>1
    <3> QED
      BY <3>2
  <2>3. ASSUME NEW s \in SUBSET t, s # {}
        PROVE  it[s] = f[Pick(s)] + it[s \ {Pick(s)}]
    <3> DEFINE u == s \ {Pick(s)}
               v == u \ {Pick(u)}
    <3>1. u \in SUBSET t /\ u # t
      BY <2>3, PickIn
    <3>2. IsFiniteSet(u)
      BY <2>1, <3>1, FS_Subset
    <3>3. Sums(f, u, H(u))
      BY <2>2, <3>1
    <3>4. H(u)[u] = it[u]
      <4>1. CASE u = {}
        <5>1. H(u)[u] = 0
          <6> HIDE DEF H, u
          <6> QED BY <3>3, <4>1, SumsValue
        <5>2. it[u] = 0
          <6> HIDE DEF H, u
          <6> QED BY <3>1, <4>1
        <5> QED BY <5>1, <5>2
      <4>2. CASE u # {}
        <5>1. v \in SUBSET t /\ v # t /\ v \subseteq u
          BY <3>1, <4>2, PickIn
        <5>2. Sums(f, v, H(v))
          BY <2>2, <5>1
        <5>3. H(u)[v] = H(v)[v]
          <6> HIDE DEF H, u, v
          <6> QED BY <3>2, <3>3, <5>1, <5>2, SumsUnique
        <5>4. H(u)[u] = f[Pick(u)] + H(u)[v]
          <6> HIDE DEF H, u
          <6> QED BY <3>3, <4>2, SumsValue
        <5>5. it[u] = f[Pick(u)] + H(v)[v]
          <6> HIDE DEF H, u
          <6> QED BY <3>1, <4>2
        <5> QED
          <6> HIDE DEF H, u, v, it
          <6> QED BY <5>3, <5>4, <5>5
      <4> QED
        BY <4>1, <4>2
    <3>5. it[s] = f[Pick(s)] + H(u)[u]
      <4> HIDE DEF H
      <4> QED BY <2>3
    <3> QED
      <4> HIDE DEF H, it
      <4> QED BY <3>4, <3>5
  <2>4. Sums(f, t, it)
    <3> DEFINE V(s) == IF s = {} THEN 0 ELSE f[Pick(s)] + it[s \ {Pick(s)}]
    <3>1. \A s \in SUBSET t : it[s] = V(s)
      <4>1. it[{}] = 0
        <5> HIDE DEF H
        <5> QED OBVIOUS
      <4> HIDE DEF it
      <4> QED BY <2>3, <4>1
    <3>2. it = [s \in SUBSET t |-> it[s]]
      <4> HIDE DEF H
      <4> QED OBVIOUS
    <3>3. it = [s \in SUBSET t |-> V(s)]
      <4> HIDE DEF it, V
      <4> QED BY <3>1, <3>2
    <3> QED
      <4> HIDE DEF it
      <4> QED BY <3>3 DEF Sums
  <2> QED
    BY <2>1, <2>4
<1> QED
  BY <1>1

-----------------------------------------------------------------------------
(***************************************************************************)
(* The sum, one element at a time.                                         *)
(***************************************************************************)

LEMMA SumIsSums ==
    ASSUME NEW f, NEW S, IsFiniteSet(S), NEW it, Sums(f, S, it)
    PROVE  SumFunctionOnSet(f, S) = it[S]
<1>1. SumFunctionOnSet(f, S) = (CHOOSE g : Sums(f, S, g))[S]
  BY DEF SumFunctionOnSet, FoldFunctionOnSet, MapThenFoldSet, Sums, Pick
<1>2. Sums(f, S, CHOOSE g : Sums(f, S, g))
  OBVIOUS
<1> HIDE DEF Sums
<1>3. (CHOOSE g : Sums(f, S, g))[S] = it[S]
  BY <1>2, SumsUnique
<1> QED
  BY <1>1, <1>3

LEMMA SumEmpty ==
    ASSUME NEW f
    PROVE  SumFunctionOnSet(f, {}) = 0
<1>1. IsFiniteSet({})
  BY FS_EmptySet
<1>2. PICK it : Sums(f, {}, it)
  BY <1>1, SumsExists
<1> QED
  BY <1>1, <1>2, SumIsSums, SumsValue

LEMMA SumPick ==
    ASSUME NEW f, NEW S, IsFiniteSet(S), S # {}
    PROVE  SumFunctionOnSet(f, S) = f[Pick(S)] + SumFunctionOnSet(f, S \ {Pick(S)})
<1> DEFINE R == S \ {Pick(S)}
<1>1. PICK g : Sums(f, S, g)
  BY SumsExists
<1>2. IsFiniteSet(R)
  BY FS_Subset
<1>3. PICK h : Sums(f, R, h)
  BY <1>2, SumsExists
<1>4. g[R] = h[R]
  <2>1. R \subseteq S
    OBVIOUS
  <2> HIDE DEF R
  <2> QED BY <1>1, <1>3, <2>1, SumsUnique
<1>5. g[S] = f[Pick(S)] + g[R]
  BY <1>1, SumsValue
<1>6. SumFunctionOnSet(f, R) = h[R] /\ SumFunctionOnSet(f, S) = g[S]
  BY <1>1, <1>2, <1>3, SumIsSums
<1> QED
  BY <1>4, <1>5, <1>6

\* Integers add up to an integer, naturals to a natural.
LEMMA SumInt ==
    ASSUME NEW S, IsFiniteSet(S), NEW f, \A x \in S : f[x] \in Int
    PROVE  /\ SumFunctionOnSet(f, S) \in Int
           /\ (\A x \in S : f[x] \in Nat) => SumFunctionOnSet(f, S) \in Nat
<1> DEFINE Typed(s) == /\ SumFunctionOnSet(f, s) \in Int
                       /\ (\A x \in s : f[x] \in Nat) => SumFunctionOnSet(f, s) \in Nat
           T == {s \in SUBSET S : ~Typed(s)}
<1>1. ASSUME T # {}
      PROVE  FALSE
  <2>1. PICK s \in T : \A t \in T : t \subseteq s => t = s
    <3>1. T \subseteq SUBSET S
      OBVIOUS
    <3> HIDE DEF T
    <3> QED BY <1>1, <3>1, MinimalSubset
  <2>2. s # {}
    <3>1. Typed({})
      BY SumEmpty
    <3>2. ~Typed(s)
      BY <2>1
    <3> HIDE DEF Typed
    <3> QED BY <3>1, <3>2
  <2>3. IsFiniteSet(s)
    BY <2>1, FS_Subset
  <2>4. Pick(s) \in s
    BY <2>2, PickIn
  <2>5. Typed(s \ {Pick(s)})
    <3> HIDE DEF Typed
    <3> QED BY <2>1, <2>4
  <2>6. SumFunctionOnSet(f, s) = f[Pick(s)] + SumFunctionOnSet(f, s \ {Pick(s)})
    BY <2>2, <2>3, SumPick
  <2> QED
    BY <2>1, <2>4, <2>5, <2>6
<1>2. Typed(S)
  <2> HIDE DEF Typed
  <2> QED BY <1>1
<1> QED
  BY <1>2

\* Any element may be added last.
LEMMA SumRemove ==
    ASSUME NEW S, IsFiniteSet(S), NEW f, \A x \in S : f[x] \in Int, NEW x \in S
    PROVE  SumFunctionOnSet(f, S) = f[x] + SumFunctionOnSet(f, S \ {x})
<1> DEFINE Removes(s) ==
             \A y \in s : SumFunctionOnSet(f, s) = f[y] + SumFunctionOnSet(f, s \ {y})
           T == {s \in SUBSET S : ~Removes(s)}
<1>1. ASSUME T # {}
      PROVE  FALSE
  <2>1. PICK s \in T : \A t \in T : t \subseteq s => t = s
    <3>1. T \subseteq SUBSET S
      OBVIOUS
    <3> HIDE DEF T
    <3> QED BY <1>1, <3>1, MinimalSubset
  <2>2. PICK y \in s : SumFunctionOnSet(f, s) # f[y] + SumFunctionOnSet(f, s \ {y})
    BY <2>1
  <2> DEFINE p == Pick(s)
  <2>3. p \in s /\ IsFiniteSet(s)
    BY <2>1, <2>2, PickIn, FS_Subset
  <2>4. SumFunctionOnSet(f, s) = f[p] + SumFunctionOnSet(f, s \ {p})
    BY <2>2, <2>3, SumPick
  <2>5. p # y
    BY <2>2, <2>4
  <2>6. Removes(s \ {p}) /\ Removes(s \ {y})
    <3>1. s \ {p} \notin T /\ s \ {y} \notin T
      <4> HIDE DEF T, p
      <4> QED BY <2>1, <2>2, <2>3
    <3> HIDE DEF Removes
    <3> QED BY <2>1, <3>1
  <2>7. (s \ {p}) \ {y} = (s \ {y}) \ {p}
    OBVIOUS
  <2>8. /\ SumFunctionOnSet(f, s \ {p}) = f[y] + SumFunctionOnSet(f, (s \ {p}) \ {y})
        /\ SumFunctionOnSet(f, s \ {y}) = f[p] + SumFunctionOnSet(f, (s \ {p}) \ {y})
    <3> HIDE DEF p
    <3> QED BY <2>2, <2>3, <2>5, <2>6, <2>7
  <2>9. f[p] \in Int /\ f[y] \in Int
    BY <2>1, <2>2, <2>3
  <2>10. SumFunctionOnSet(f, (s \ {p}) \ {y}) \in Int
    <3>1. IsFiniteSet((s \ {p}) \ {y})
      BY <2>3, FS_Subset
    <3>2. (s \ {p}) \ {y} \subseteq S
      BY <2>1
    <3> QED BY <3>1, <3>2, SumInt
  <2> HIDE DEF p
  <2> QED
    BY <2>2, <2>4, <2>8, <2>9, <2>10
<1>2. Removes(S)
  <2> HIDE DEF Removes
  <2> QED BY <1>1
<1> QED
  BY <1>2

\* Only the values on the set count.
LEMMA SumEqual ==
    ASSUME NEW S, IsFiniteSet(S), NEW f, NEW g, \A x \in S : f[x] = g[x]
    PROVE  SumFunctionOnSet(f, S) = SumFunctionOnSet(g, S)
<1> DEFINE T == {s \in SUBSET S : SumFunctionOnSet(f, s) # SumFunctionOnSet(g, s)}
<1>1. ASSUME T # {}
      PROVE  FALSE
  <2>1. PICK s \in T : \A t \in T : t \subseteq s => t = s
    <3>1. T \subseteq SUBSET S
      OBVIOUS
    <3> HIDE DEF T
    <3> QED BY <1>1, <3>1, MinimalSubset
  <2>2. s # {} /\ IsFiniteSet(s)
    BY <2>1, SumEmpty, FS_Subset
  <2>3. Pick(s) \in s
    BY <2>2, PickIn
  <2>4. SumFunctionOnSet(f, s \ {Pick(s)}) = SumFunctionOnSet(g, s \ {Pick(s)})
    BY <2>1, <2>3
  <2>5. /\ SumFunctionOnSet(f, s) = f[Pick(s)] + SumFunctionOnSet(f, s \ {Pick(s)})
        /\ SumFunctionOnSet(g, s) = g[Pick(s)] + SumFunctionOnSet(g, s \ {Pick(s)})
    BY <2>2, SumPick
  <2> QED
    BY <2>1, <2>3, <2>4, <2>5
<1> QED
  BY <1>1

-----------------------------------------------------------------------------
(***************************************************************************)
(* What the proofs about the models use.                                   *)
(***************************************************************************)

\* An element that is new adds its value.
LEMMA SumAdd ==
    ASSUME NEW S, IsFiniteSet(S), NEW f, NEW x, x \notin S,
           \A y \in S \cup {x} : f[y] \in Int
    PROVE  SumFunctionOnSet(f, S \cup {x}) = f[x] + SumFunctionOnSet(f, S)
<1>1. IsFiniteSet(S \cup {x})
  BY FS_AddElement
<1>2. (S \cup {x}) \ {x} = S
  OBVIOUS
<1> QED
  BY <1>1, <1>2, SumRemove

\* A function that changes at one point changes the sum by as much.
LEMMA SumChange ==
    ASSUME NEW S, IsFiniteSet(S), NEW f, NEW g, NEW x \in S,
           \A y \in S : f[y] \in Int /\ g[y] \in Int,
           \A y \in S \ {x} : g[y] = f[y]
    PROVE  SumFunctionOnSet(g, S) = SumFunctionOnSet(f, S) + g[x] - f[x]
<1>1. IsFiniteSet(S \ {x})
  BY FS_Subset
<1>2. SumFunctionOnSet(g, S \ {x}) = SumFunctionOnSet(f, S \ {x})
  BY <1>1, SumEqual
<1>3. SumFunctionOnSet(f, S \ {x}) \in Int
  BY <1>1, SumInt
<1>4. /\ SumFunctionOnSet(f, S) = f[x] + SumFunctionOnSet(f, S \ {x})
      /\ SumFunctionOnSet(g, S) = g[x] + SumFunctionOnSet(g, S \ {x})
  BY SumRemove
<1> QED
  BY <1>2, <1>3, <1>4

\* A sum of naturals is at least each of them.
LEMMA SumBounds ==
    ASSUME NEW S, IsFiniteSet(S), NEW f, \A y \in S : f[y] \in Nat, NEW x \in S
    PROVE  f[x] <= SumFunctionOnSet(f, S)
<1>1. IsFiniteSet(S \ {x})
  BY FS_Subset
<1>2. SumFunctionOnSet(f, S \ {x}) \in Nat
  BY <1>1, SumInt
<1>3. SumFunctionOnSet(f, S) = f[x] + SumFunctionOnSet(f, S \ {x})
  BY SumRemove
<1> QED
  BY <1>2, <1>3

\* The sum of pointwise sums is the sum of the sums.
LEMMA SumPlus ==
    ASSUME NEW S, IsFiniteSet(S), NEW f, NEW g, NEW h,
           \A x \in S : f[x] \in Int /\ g[x] \in Int /\ h[x] = f[x] + g[x]
    PROVE  SumFunctionOnSet(h, S) = SumFunctionOnSet(f, S) + SumFunctionOnSet(g, S)
<1> DEFINE Adds(s) == SumFunctionOnSet(h, s) = SumFunctionOnSet(f, s) + SumFunctionOnSet(g, s)
           T == {s \in SUBSET S : ~Adds(s)}
<1>1. ASSUME T # {}
      PROVE  FALSE
  <2>1. PICK s \in T : \A t \in T : t \subseteq s => t = s
    <3>1. T \subseteq SUBSET S
      OBVIOUS
    <3> HIDE DEF T
    <3> QED BY <1>1, <3>1, MinimalSubset
  <2>2. s # {} /\ IsFiniteSet(s)
    <3>1. Adds({})
      BY SumEmpty
    <3>2. ~Adds(s) /\ IsFiniteSet(s)
      BY <2>1, FS_Subset
    <3> HIDE DEF Adds
    <3> QED BY <3>1, <3>2
  <2> DEFINE p == Pick(s)
             r == s \ {p}
  <2>3. p \in s
    BY <2>2, PickIn
  <2>4. Adds(r)
    <3> HIDE DEF Adds
    <3> QED BY <2>1, <2>3
  <2>5. /\ SumFunctionOnSet(f, s) = f[p] + SumFunctionOnSet(f, r)
        /\ SumFunctionOnSet(g, s) = g[p] + SumFunctionOnSet(g, r)
        /\ SumFunctionOnSet(h, s) = h[p] + SumFunctionOnSet(h, r)
    BY <2>2, SumPick
  <2>6. SumFunctionOnSet(f, r) \in Int /\ SumFunctionOnSet(g, r) \in Int
    <3>1. IsFiniteSet(r)
      BY <2>2, FS_Subset
    <3>2. r \subseteq S
      BY <2>1
    <3> HIDE DEF r
    <3> QED BY <3>1, <3>2, SumInt
  <2>7. f[p] \in Int /\ g[p] \in Int /\ h[p] = f[p] + g[p]
    BY <2>1, <2>3
  <2> HIDE DEF p, r
  <2> QED
    BY <2>1, <2>4, <2>5, <2>6, <2>7
<1> QED
  BY <1>1

\* The sum over 1..k is the sum over 1..(k - 1) and the last value.
LEMMA SumUpTo ==
    ASSUME NEW k \in Nat, k # 0, NEW f, NEW g,
           \A j \in 1..k : f[j] \in Nat, \A j \in 1..(k - 1) : g[j] = f[j]
    PROVE  /\ SumFunctionOnSet(f, 1..k) = SumFunctionOnSet(g, 1..(k - 1)) + f[k]
           /\ SumFunctionOnSet(f, 1..k) \in Nat
           /\ SumFunctionOnSet(g, 1..(k - 1)) \in Nat
<1>1. IsFiniteSet(1..k) /\ IsFiniteSet(1..(k - 1))
  BY FS_Interval
<1>2. k \in 1..k /\ f[k] \in Nat /\ (1..k) \ {k} = 1..(k - 1)
  OBVIOUS
<1>3. SumFunctionOnSet(f, 1..k) = f[k] + SumFunctionOnSet(f, (1..k) \ {k})
  BY <1>1, <1>2, SumRemove, SMTT(30)
<1>4. SumFunctionOnSet(f, 1..(k - 1)) = SumFunctionOnSet(g, 1..(k - 1))
  BY <1>1, SumEqual
<1>5. SumFunctionOnSet(f, 1..k) \in Nat
  BY <1>1, SumInt
<1>6. SumFunctionOnSet(f, 1..(k - 1)) \in Nat
  BY <1>1, SumInt
<1> DEFINE all == SumFunctionOnSet(f, 1..k)
           rest == SumFunctionOnSet(f, 1..(k - 1))
<1>7. all = f[k] + rest
  BY <1>2, <1>3
<1> HIDE DEF all, rest
<1>8. all = rest + f[k]
  BY <1>2, <1>6, <1>7 DEF rest
<1> QED
  BY <1>4, <1>5, <1>6, <1>8 DEF all, rest

-----------------------------------------------------------------------------
(***************************************************************************)
(* Concatenation, by a recursive function on the numbers up to the length. *)
(***************************************************************************)

\* A nonempty set of numbers up to n has a least member.
LEMMA Least ==
    ASSUME NEW n \in Nat, NEW I, I \subseteq 1..n, I # {}
    PROVE  \E i \in I : \A j \in I : i <= j
<1> DEFINE all == 1..n
           S == {1..i : i \in I}
<1>1. S \subseteq SUBSET all /\ S # {}
  <2>1. ASSUME NEW i \in I PROVE 1..i \subseteq 1..n
    <3>1. i \in 1..n
      OBVIOUS
    <3> QED
      BY <3>1
  <2> QED
    BY <2>1
<1>2. IsFiniteSet(all)
  BY FS_Interval
<1> HIDE DEF S, all
<1>3. PICK u \in S : \A v \in S : v \subseteq u => v = u
  BY <1>1, <1>2, MinimalSubset
<1>4. PICK i \in I : u = 1..i
  BY <1>3 DEF S
<1>5. ASSUME NEW j \in I, j < i
      PROVE  FALSE
  <2>1. i \in 1..n /\ j \in 1..n
    OBVIOUS
  <2>2. 1..j \subseteq 1..i /\ i \in 1..i /\ i \notin 1..j
    BY <1>5, <2>1
  <2>3. 1..j \in S
    BY DEF S
  <2> QED
    BY <1>3, <1>4, <2>2, <2>3
<1> QED
  BY <1>5

\* g concatenates the first members of s.
Flattens(s, n, g) == g = [i \in 1..n |-> IF i = 1 THEN s[i] ELSE g[i - 1] \o s[i]]

LEMMA FlattensExists ==
    ASSUME NEW s, NEW n \in Nat
    PROVE  \E g : Flattens(s, n, g)
<1> DEFINE Fails(m) == ~ \E g : Flattens(s, m, g)
           T == {1..m : m \in {i \in 0..n : Fails(i)}}
<1>1. ASSUME T # {}
      PROVE  FALSE
  <2>1. PICK u \in T : \A t \in T : t \subseteq u => t = u
    <3>1. T \subseteq SUBSET (1..n)
      OBVIOUS
    <3>2. IsFiniteSet(1..n)
      BY FS_Interval
    <3> DEFINE all == 1..n
    <3>3. T \subseteq SUBSET all /\ IsFiniteSet(all)
      BY <3>1, <3>2
    <3> HIDE DEF T, all
    <3> QED
      BY <1>1, <3>3, MinimalSubset
  <2>2. PICK m \in 0..n : u = 1..m /\ Fails(m)
    BY <2>1
  <2>3. CASE m = 0
    <3>1. Flattens(s, 0, [i \in 1..0 |-> <<>>])
      BY DEF Flattens
    <3> QED
      BY <2>2, <2>3, <3>1
  <2>4. CASE m # 0
    <3>1. m - 1 \in 0..n /\ 1..(m - 1) \subseteq 1..m /\ m \in 1..m /\ m \notin 1..(m - 1)
      BY <2>4
    <3>2. ~Fails(m - 1)
      <4>1. 1..(m - 1) # u /\ 1..(m - 1) \subseteq u
        BY <2>2, <3>1
      <4>2. 1..(m - 1) \notin T
        <5> HIDE DEF T
        <5> QED
          BY <2>1, <4>1
      <4> HIDE DEF Fails
      <4> QED
        BY <3>1, <4>2
    <3>3. PICK g : Flattens(s, m - 1, g)
      BY <3>2
    <3> DEFINE last == IF m = 1 THEN s[m] ELSE g[m - 1] \o s[m]
               h == [i \in 1..m |-> IF i = m THEN last ELSE g[i]]
               V(i) == IF i = 1 THEN s[i] ELSE h[i - 1] \o s[i]
    <3>4. \A i \in 1..(m - 1) : g[i] = IF i = 1 THEN s[i] ELSE g[i - 1] \o s[i]
      BY <3>3 DEF Flattens
    <3>5. ASSUME NEW i \in 1..m
          PROVE  h[i] = V(i)
      <4>1. CASE i = m
        <5>1. h[i] = last
          BY <4>1
        <5>2. m # 1 => h[m - 1] = g[m - 1]
          BY <2>4
        <5> HIDE DEF h
        <5> QED
          BY <4>1, <5>1, <5>2
      <4>2. CASE i # m
        <5>1. i \in 1..(m - 1) /\ h[i] = g[i]
          BY <4>2
        <5>2. i # 1 => h[i - 1] = g[i - 1]
          BY <4>2
        <5> HIDE DEF h
        <5> QED
          BY <3>4, <5>1, <5>2
      <4> QED
        BY <4>1, <4>2
    <3>6. h = [i \in 1..m |-> h[i]]
      OBVIOUS
    <3>7. h = [i \in 1..m |-> V(i)]
      <4> HIDE DEF h, V
      <4> QED
        BY <3>5, <3>6
    <3>8. Flattens(s, m, h)
      <4> HIDE DEF h
      <4> QED
        BY <3>7 DEF Flattens
    <3> HIDE DEF h
    <3> QED
      BY <2>2, <3>8
  <2> QED
    BY <2>3, <2>4
<1>2. ~Fails(n)
  <2> HIDE DEF Fails
  <2> QED
    BY <1>1
<1> QED
  BY <1>2

LEMMA FlattensType ==
    ASSUME NEW T, NEW s \in Seq(Seq(T)), NEW n \in 1..Len(s), NEW g, Flattens(s, n, g)
    PROVE  g[n] \in Seq(T)
<1> DEFINE I == {i \in 1..n : g[i] \notin Seq(T)}
<1>1. \A i \in 1..n : g[i] = IF i = 1 THEN s[i] ELSE g[i - 1] \o s[i]
  BY DEF Flattens
<1>2. ASSUME I # {}
      PROVE  FALSE
  <2>1. PICK i \in I : \A j \in I : i <= j
    <3>1. I \subseteq 1..n /\ n \in Nat
      OBVIOUS
    <3> HIDE DEF I
    <3> QED
      BY <1>2, <3>1, Least
  <2>2. s[i] \in Seq(T)
    OBVIOUS
  <2>3. i # 1
    BY <1>1, <2>1, <2>2
  <2>4. i - 1 \in 1..n /\ i - 1 \notin I
    <3>1. i - 1 \in 1..n /\ ~(i <= i - 1)
      BY <2>1, <2>3
    <3> HIDE DEF I
    <3> QED
      BY <2>1, <3>1
  <2>5. g[i - 1] \in Seq(T)
    BY <2>4
  <2>6. g[i - 1] \o s[i] \in Seq(T)
    BY <2>2, <2>5
  <2> QED
    BY <1>1, <2>1, <2>3, <2>6
<1>3. n \in 1..n
  OBVIOUS
<1> QED
  BY <1>2, <1>3

LEMMA FlattenSeqType ==
    ASSUME NEW T, NEW s \in Seq(Seq(T))
    PROVE  FlattenSeq(s) \in Seq(T)
<1>1. CASE Len(s) = 0
  <2>1. s = <<>>
    BY <1>1
  <2>2. FlattenSeq(s) = s
    BY <1>1 DEF FlattenSeq
  <2>3. <<>> \in Seq(T)
    OBVIOUS
  <2> QED
    BY <2>1, <2>2, <2>3
<1>2. CASE Len(s) # 0
  <2> DEFINE g == CHOOSE g : Flattens(s, Len(s), g)
  <2>1. Len(s) \in Nat /\ Len(s) \in 1..Len(s)
    BY <1>2
  <2>2. FlattenSeq(s) = g[Len(s)]
    BY <1>2 DEF FlattenSeq, Flattens
  <2>3. Flattens(s, Len(s), g)
    BY <2>1, FlattensExists
  <2> HIDE DEF g
  <2> QED
    BY <2>1, <2>2, <2>3, FlattensType
<1> QED
  BY <1>1, <1>2

Agree(s, t, n) == \A i \in 1..n : s[i] = t[i]

\* Two concatenations agree as long as what they concatenate does.
LEMMA FlattensPrefix ==
    ASSUME NEW T, NEW s \in Seq(Seq(T)), NEW t \in Seq(Seq(T)),
           NEW m \in Nat, NEW n \in Nat, m <= n, NEW g, NEW h, Flattens(s, m, g), Flattens(t, n, h),
           Agree(s, t, m)
    PROVE  Agree(g, h, m)
<1> DEFINE I == {i \in 1..m : g[i] # h[i]}
<1>1. /\ \A i \in 1..m : g[i] = IF i = 1 THEN s[i] ELSE g[i - 1] \o s[i]
      /\ \A i \in 1..n : h[i] = IF i = 1 THEN t[i] ELSE h[i - 1] \o t[i]
  BY DEF Flattens
<1>2. \A i \in 1..m : s[i] = t[i]
  BY DEF Agree
<1>3. ASSUME I # {}
      PROVE  FALSE
  <2>1. PICK i \in I : \A j \in I : i <= j
    <3>1. I \subseteq 1..m
      OBVIOUS
    <3> HIDE DEF I
    <3> QED
      BY <1>3, <3>1, Least
  <2>2. i \in 1..m /\ i \in 1..n /\ s[i] = t[i] /\ g[i] # h[i]
    BY <1>2
  <2>3. i # 1
    BY <1>1, <2>2
  <2>4. i - 1 \in 1..m /\ i - 1 \notin I
    <3>1. i - 1 \in 1..m /\ ~(i <= i - 1)
      BY <2>1, <2>3
    <3> HIDE DEF I
    <3> QED
      BY <2>1, <3>1
  <2>5. g[i - 1] = h[i - 1]
    BY <2>4
  <2>6. g[i] = g[i - 1] \o s[i]
    BY <1>1, <2>2, <2>3, Zenon
  <2>7. h[i] = h[i - 1] \o t[i]
    BY <1>1, <2>2, <2>3, Zenon
  <2> QED
    BY <2>2, <2>5, <2>6, <2>7, Zenon
<1> QED
  BY <1>3 DEF Agree

\* One sequence more.
LEMMA FlattenSeqStep ==
    ASSUME NEW T, NEW s \in Seq(Seq(T)), NEW t \in Seq(Seq(T)), Len(t) = Len(s) + 1,
           \A i \in 1..Len(s) : t[i] = s[i]
    PROVE  FlattenSeq(t) = FlattenSeq(s) \o t[Len(t)]
<1> DEFINE m == Len(s)
           n == Len(t)
           h == CHOOSE f : Flattens(t, n, f)
<1>1. m \in Nat /\ n \in Nat /\ n = m + 1 /\ n \in 1..n /\ t[n] \in Seq(T)
  OBVIOUS
<1>2. FlattenSeq(t) = h[n]
  BY <1>1 DEF FlattenSeq, Flattens
<1>3. Flattens(t, n, h)
  <2>1. \E f : Flattens(t, n, f)
    BY <1>1, FlattensExists
  <2> QED
    BY <2>1
<1>4. CASE m = 0
  <2>1. s = <<>> /\ FlattenSeq(s) = s
    BY <1>4 DEF FlattenSeq
  <2>2. h[1] = t[1]
    <3> HIDE DEF h
    <3> QED
      BY <1>1, <1>3, <1>4 DEF Flattens
  <2>3. <<>> \o t[n] = t[n]
    BY <1>1
  <2> HIDE DEF h
  <2> QED
    BY <1>1, <1>2, <1>4, <2>1, <2>2, <2>3
<1>5. CASE m # 0
  <2> DEFINE g == CHOOSE f : Flattens(s, m, f)
  <2>1. FlattenSeq(s) = g[m]
    BY <1>1, <1>5 DEF FlattenSeq, Flattens
  <2>2. Flattens(s, m, g)
    <3>1. \E f : Flattens(s, m, f)
      BY <1>1, FlattensExists
    <3> QED
      BY <3>1
  <2> HIDE DEF g, h
  <2>3. m \in 1..m /\ m <= n /\ n # 1 /\ n - 1 = m
    BY <1>1, <1>5
  <2>4. h[m] = g[m]
    <3>1. Agree(s, t, m)
      BY DEF Agree
    <3> HIDE DEF m, n
    <3>2. Agree(g, h, m)
      BY <1>1, <1>3, <2>2, <2>3, <3>1, FlattensPrefix
    <3> QED
      BY <2>3, <3>2 DEF Agree
  <2>5. h[n] = h[n - 1] \o t[n]
    BY <1>1, <1>3, <2>3 DEF Flattens
  <2> QED
    BY <1>2, <2>1, <2>3, <2>4, <2>5
<1> QED
  BY <1>4, <1>5

=============================================================================
