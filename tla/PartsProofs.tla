---------------------------- MODULE PartsProofs ----------------------------
(***************************************************************************)
(* The judge's readings and the texts for solvers, and what running parts  *)
(* beside one another keeps: a behaviour of Parts is a behaviour of each   *)
(* of the parts, which stutters while another one runs, so what holds of   *)
(* the part holds of Parts.                                                *)
(***************************************************************************)
EXTENDS Parts, LoopProofs, SolverProofs

-----------------------------------------------------------------------------
(* Probabilities and their sums (judge/mod.rs share, winner, confidence).  *)

\* The units a function puts on the options of a set, one by one: as many as
\* the sum over the set.
UnitsOf(f, s, most) == {p \in s \X (1..most) : p[2] <= f[p[1]]}

LEMMA UnitsOfOne ==
  ASSUME NEW most \in Nat, NEW D, NEW f \in [D -> 0..most], NEW s \in SUBSET D,
         IsFiniteSet(s), NEW x \in s
  PROVE  /\ IsFiniteSet(UnitsOf(f, s, most))
         /\ Cardinality(UnitsOf(f, s, most)) = f[x] + Cardinality(UnitsOf(f, s \ {x}, most))
<1> DEFINE here == UnitsOf(f, {x}, most)
           rest == UnitsOf(f, s \ {x}, most)
<1>1. IsFiniteSet(UnitsOf(f, s, most)) /\ IsFiniteSet(rest) /\ IsFiniteSet(here)
  <2>0. IsFiniteSet(1..most)
    BY FS_Interval
  <2>1. IsFiniteSet(s \X (1..most))
    BY <2>0, FS_Product
  <2>2. UnitsOf(f, s, most) \in SUBSET (s \X (1..most)) /\ rest \in SUBSET (s \X (1..most))
        /\ here \in SUBSET (s \X (1..most))
    BY DEF UnitsOf
  <2> QED
    BY <2>1, <2>2, FS_Subset
<1>2. f[x] \in 0..most
  OBVIOUS
<1>3. Cardinality(here) = f[x]
  <2> DEFINE g == [k \in 1..f[x] |-> <<x, k>>]
  <2>1. \A k \in 1..f[x] : <<x, k>> \in here
    BY <1>2 DEF UnitsOf
  <2>2. \A p \in here : p[2] \in 1..f[x] /\ p = <<x, p[2]>>
    BY <1>2 DEF UnitsOf
  <2>3. g \in Surjection(1..f[x], here) /\ g \in Injection(1..f[x], here)
    <3> HIDE DEF here
    <3> QED
      BY <2>1, <2>2 DEF Surjection, Injection, IsInjective
  <2>4. IsFiniteSet(1..f[x]) /\ Cardinality(1..f[x]) = f[x]
    <3>1. \A n \in Nat : IsFiniteSet(1..n) /\ Cardinality(1..n) = n
      <4> TAKE n \in Nat
      <4> DEFINE one == 1
      <4>0. one \in Int /\ n \in Int
        OBVIOUS
      <4> HIDE DEF one
      <4>1. /\ IsFiniteSet(one..n)
            /\ Cardinality(one..n) = IF one > n THEN 0 ELSE n - one + 1
        BY <4>0, FS_Interval
      <4> USE DEF one
      <4> QED
        BY <4>1
    <3>2. f[x] \in Nat
      BY <1>2
    <3> QED
      BY <3>1, <3>2
  <2> HIDE DEF g, here
  <2> QED
    BY <2>3, <2>4, FS_Surjection
<1>4. UnitsOf(f, s, most) = here \union rest /\ here \intersect rest = {}
  BY DEF UnitsOf
<1>5. Cardinality({}) = 0 /\ Cardinality(rest) \in Nat
  BY <1>1, FS_EmptySet, FS_CardinalityType
<1> HIDE DEF here, rest
<1>6. Cardinality(here \union rest) = Cardinality(here) + Cardinality(rest)
                                       - Cardinality(here \intersect rest)
  BY <1>1, FS_Union
<1>7. Cardinality(here \union rest) = f[x] + Cardinality(rest)
  <2>1. f[x] \in Nat
    BY <1>2
  <2>2. Cardinality(here \union rest) = f[x] + Cardinality(rest) - 0
    BY <1>3, <1>4, <1>5, <1>6
  <2> QED
    BY <1>5, <2>1, <2>2
<1> QED
  BY <1>1, <1>4, <1>7 DEF rest

\* A sum over the options of an answer is the number of its units.
LEMMA TotalIs ==
  ASSUME NEW most \in Nat, NEW D, IsFiniteSet(D), NEW f \in [D -> 0..most]
  PROVE  Total(f) = Cardinality(UnitsOf(f, D, most))
<1> DEFINE Step(g, s) == IF s = {} THEN 0
                         ELSE LET x == CHOOSE x \in s : TRUE IN f[x] + g[s \ {x}]
           iter == CHOOSE g : g = [s \in SUBSET D |-> Step(g, s)]
           c == [s \in SUBSET D |-> Cardinality(UnitsOf(f, s, most))]
<1>1. Total(f) = iter[D]
  BY DEF Total, MapThenSumSet, MapThenFoldSet
<1>2. \A s \in SUBSET D : c[s] = Step(c, s)
  <2> TAKE s \in SUBSET D
  <2>1. CASE s = {}
    <3>1. UnitsOf(f, s, most) = {}
      BY <2>1 DEF UnitsOf
    <3> QED
      BY <2>1, <3>1, FS_EmptySet
  <2>2. CASE s # {}
    <3> DEFINE x == CHOOSE x \in s : TRUE
    <3>1. x \in s /\ s \ {x} \in SUBSET D
      BY <2>2
    <3>2. IsFiniteSet(s)
      BY FS_Subset
    <3>3. Cardinality(UnitsOf(f, s, most)) = f[x] + Cardinality(UnitsOf(f, s \ {x}, most))
      <4> HIDE DEF x
      <4> QED
        BY <3>1, <3>2, UnitsOfOne
    <3>4. c[s] = f[x] + c[s \ {x}]
      <4> HIDE DEF x
      <4> QED
        BY <3>1, <3>3
    <3> QED
      BY <2>2, <3>4
  <2> QED
    BY <2>1, <2>2
<1>3. c = [s \in SUBSET D |-> Step(c, s)]
  <2> HIDE DEF Step
  <2> QED
    BY <1>2
<1>4. iter = [s \in SUBSET D |-> Step(iter, s)]
  <2> HIDE DEF Step, c
  <2> QED
    BY <1>3
<1>5. \A s \in SUBSET D : iter[s] = Step(iter, s)
  <2> HIDE DEF Step, iter
  <2> QED
    BY <1>4
<1>6. iter[D] = c[D]
  <2> DEFINE bad == {s \in SUBSET D : iter[s] # c[s]}
             O == StrictSubsetOrdering(D)
             F == FiniteSubsetsOf(D)
  <2>1. SUFFICES ASSUME bad # {} PROVE FALSE
    <3> HIDE DEF iter, c
    <3> QED
      OBVIOUS
  <2>2. IsWellFoundedOn(O, F)
    BY FS_StrictSubsetOrderingWellFounded
  <2>3. bad \subseteq F
    <3>1. \A s \in SUBSET D : s \in F
      BY FS_Subset DEF FiniteSubsetsOf
    <3> HIDE DEF F, iter, c
    <3> QED
      BY <3>1
  <2>4. PICK m \in bad : \A k \in bad : ~(<<k, m>> \in O)
    <3> HIDE DEF O, F, bad
    <3> QED
      BY <2>1, <2>2, <2>3, WFMin
  <2>5. m \in SUBSET D /\ iter[m] # c[m]
    <3> HIDE DEF iter, c
    <3> QED
      OBVIOUS
  <2>6. m # {}
    <3>1. m = {} => iter[m] = 0 /\ c[m] = 0
      <4>1. iter[m] = Step(iter, m) /\ c[m] = Step(c, m)
        <5> HIDE DEF iter, c, Step
        <5> QED
          BY <1>2, <1>5, <2>5
      <4> HIDE DEF iter, c
      <4> QED
        BY <4>1
    <3> HIDE DEF iter, c
    <3> QED
      BY <2>5, <3>1
  <2> DEFINE x == CHOOSE x \in m : TRUE
  <2>7. x \in m /\ m \ {x} \in SUBSET D /\ <<m \ {x}, m>> \in O
    <3>1. x \in m
      BY <2>6
    <3> HIDE DEF x, iter, c
    <3> QED
      BY <3>1, <2>5 DEF StrictSubsetOrdering
  <2>8. iter[m \ {x}] = c[m \ {x}]
    <3> HIDE DEF x, iter, c, O
    <3> QED
      BY <2>4, <2>7
  <2>9. iter[m] = f[x] + iter[m \ {x}] /\ c[m] = f[x] + c[m \ {x}]
    <3>1. iter[m] = Step(iter, m) /\ c[m] = Step(c, m)
      <4> HIDE DEF iter, c, Step
      <4> QED
        BY <1>2, <1>5, <2>5
    <3> HIDE DEF iter, c
    <3> QED
      BY <3>1, <2>6
  <2> HIDE DEF iter, c, x
  <2> QED
    BY <2>5, <2>8, <2>9
<1>7. c[D] = Cardinality(UnitsOf(f, D, most))
  OBVIOUS
<1> HIDE DEF iter, c
<1> QED
  BY <1>1, <1>6, <1>7

\* Two options together have no more than the whole.
LEMMA TotalHas ==
  ASSUME NEW most \in Nat, NEW D, IsFiniteSet(D), NEW f \in [D -> 0..most]
  PROVE  /\ Total(f) \in Nat
         /\ \A a \in D : f[a] <= Total(f)
         /\ \A a, b \in D : a # b => f[a] + f[b] <= Total(f)
<1> DEFINE N(s) == Cardinality(UnitsOf(f, s, most))
<1>1. \A s \in SUBSET D : IsFiniteSet(s) /\ N(s) \in Nat
  <2> TAKE s \in SUBSET D
  <2>1. IsFiniteSet(s)
    BY FS_Subset
  <2>2. IsFiniteSet(s \X (1..most)) /\ UnitsOf(f, s, most) \in SUBSET (s \X (1..most))
    <3>1. IsFiniteSet(1..most)
      BY FS_Interval
    <3> QED
      BY <2>1, <3>1, FS_Product DEF UnitsOf
  <2>3. IsFiniteSet(UnitsOf(f, s, most))
    BY <2>2, FS_Subset
  <2> QED
    BY <2>1, <2>3, FS_CardinalityType
<1>2. \A a \in D : f[a] \in Nat /\ N(D) = f[a] + N(D \ {a})
  BY UnitsOfOne
<1>3. \A a, b \in D : a # b => N(D \ {a}) = f[b] + N((D \ {a}) \ {b})
  <2> TAKE a, b \in D
  <2>1. HAVE a # b
  <2>2. D \ {a} \in SUBSET D /\ b \in D \ {a} /\ IsFiniteSet(D \ {a})
    BY <2>1, <1>1
  <2> QED
    BY <2>2, UnitsOfOne
<1>4. \A a, b \in D : N(D \ {a}) \in Nat /\ N((D \ {a}) \ {b}) \in Nat
  BY <1>1
<1>5. Total(f) = N(D) /\ N(D) \in Nat
  BY TotalIs, <1>1
<1> HIDE DEF N
<1>6. ASSUME NEW a \in D PROVE f[a] <= N(D)
  <2>1. f[a] \in Nat /\ N(D \ {a}) \in Nat /\ N(D) = f[a] + N(D \ {a})
    BY <1>2, <1>4
  <2> QED
    BY <2>1
<1>7. ASSUME NEW a \in D, NEW b \in D, a # b PROVE f[a] + f[b] <= N(D)
  <2>1. N(D) = f[a] + N(D \ {a}) /\ N(D \ {a}) = f[b] + N((D \ {a}) \ {b})
    BY <1>2, <1>3, <1>7
  <2>2. f[a] \in Nat /\ f[b] \in Nat /\ N((D \ {a}) \ {b}) \in Nat
    BY <1>2, <1>4
  <2> QED
    BY <2>1, <2>2
<1> QED
  BY <1>5, <1>6, <1>7

LEMMA TimesGrows == \A x, y, z \in Nat : x <= y => z * x <= z * y
  OBVIOUS

\* A share that reaches more than a half is more than all others together.
LEMMA ShareIsMajority ==
  ASSUME NEW D, IsFiniteSet(D), NEW f \in [D -> 0..Unit], Unit \in Nat \ {0},
         NEW o, NEW least \in 1..Unit, 2 * least > Unit, ShareReaches(f, o, least)
  PROVE  o \in D /\ 2 * f[o] > Total(f)
<1> DEFINE t == Total(f)
<1>1. t \in Nat /\ t > 0 /\ Probability(f, o) * Unit >= least * t
  BY TotalHas DEF ShareReaches
<1> HIDE DEF t
<1>2. least * t \in Nat /\ least * t > 0
  <2>1. 1 * t <= least * t
    BY <1>1
  <2> QED
    BY <1>1, <2>1
<1>3. o \in D
  <2>1. o \notin D => Probability(f, o) = 0
    BY DEF Probability
  <2> QED
    BY <1>1, <1>2, <2>1
<1>4. f[o] \in Nat /\ f[o] * Unit >= least * t
  BY <1>1, <1>3 DEF Probability
<1>5. ASSUME 2 * f[o] <= t PROVE FALSE
  <2>1. Unit * (2 * f[o]) <= Unit * t
    BY <1>1, <1>4, <1>5, TimesGrows
  <2>2. t * (Unit + 1) <= t * (2 * least)
    BY <1>1, TimesGrows
  <2>3. t * (Unit + 1) = Unit * t + t /\ t * (2 * least) = 2 * (least * t)
        /\ Unit * (2 * f[o]) = 2 * (f[o] * Unit)
    BY <1>1, <1>4
  <2>4. 2 * (f[o] * Unit) >= 2 * (least * t)
    BY <1>1, <1>2, <1>4
  <2> DEFINE a == f[o] * Unit
             b == least * t
             c == Unit * t
  <2>5. a \in Nat /\ b \in Nat /\ c \in Nat
    BY <1>1, <1>4
  <2>6. 2 * a <= c /\ c + t <= 2 * b /\ 2 * a >= 2 * b
    BY <2>1, <2>2, <2>3, <2>4
  <2> HIDE DEF a, b, c
  <2> QED
    BY <1>1, <2>5, <2>6
<1> QED
  BY <1>1, <1>3, <1>4, <1>5 DEF t

\* Two options of one answer do not both reach more than a half.
LEMMA OneReaches ==
  ASSUME NEW D, IsFiniteSet(D), NEW f \in [D -> 0..Unit], Unit \in Nat \ {0},
         NEW a, NEW b, a # b,
         NEW l \in {n \in 1..Unit : 2 * n > Unit}, NEW m \in {n \in 1..Unit : 2 * n > Unit}
  PROVE  ~(ShareReaches(f, a, l) /\ ShareReaches(f, b, m))
<1>1. SUFFICES ASSUME ShareReaches(f, a, l), ShareReaches(f, b, m) PROVE FALSE
  OBVIOUS
<1>2. a \in D /\ 2 * f[a] > Total(f) /\ b \in D /\ 2 * f[b] > Total(f)
  BY <1>1, ShareIsMajority
<1>3. Total(f) \in Nat /\ f[a] + f[b] <= Total(f) /\ f[a] \in Nat /\ f[b] \in Nat
  BY <1>2, TotalHas
<1> QED
  BY <1>2, <1>3

\* The options of a sequence are finitely many.
LEMMA OptionsAreFinite ==
  ASSUME NEW S, NEW options \in Seq(S)
  PROVE  IsFiniteSet(ToSet(options))
<1>1. Len(options) \in Nat /\ DOMAIN options = 1..Len(options)
  OBVIOUS
<1>2. IsFiniteSet(DOMAIN options)
  BY <1>1, FS_Interval
<1>3. options \in Surjection(DOMAIN options, ToSet(options))
  BY <1>1 DEF Surjection, ToSet
<1> QED
  BY <1>2, <1>3, FS_Surjection

\* The winner is an option, and none has more.
LEMMA WinnerIs ==
  ASSUME NEW S, NEW options \in Seq(S), options # << >>, Unit \in Nat,
         NEW f \in [ToSet(options) -> 0..Unit]
  PROVE  /\ Winner(f, options) \in ToSet(options)
         /\ f[Winner(f, options)] = Peak(f)
<1> DEFINE D == ToSet(options)
           V == {f[o] : o \in D}
           M == {Unit + 1 - v : v \in V}
           top == {i \in DOMAIN options : f[options[i]] = Peak(f)}
<1>1. \A i \in DOMAIN options : options[i] \in D
  BY DEF ToSet
<1>2. 1 \in DOMAIN options /\ DOMAIN options = 1..Len(options) /\ Len(options) \in Nat
  OBVIOUS
<1>3. D # {}
  BY <1>1, <1>2
<1>4. V \in SUBSET (0..Unit) /\ V # {}
  BY <1>3
<1>5. \E v \in V : \A w \in V : v >= w
  <2> HIDE DEF V
  <2>1. Unit + 1 \in Nat /\ M \in SUBSET (1..(Unit + 1)) /\ M # {}
    <3>1. \A v \in V : Unit + 1 - v \in 1..(Unit + 1)
      BY <1>4
    <3>2. \E v : v \in V
      BY <1>4
    <3> QED
      BY <3>1, <3>2
  <2>2. Min(M) \in M /\ \A j \in M : Min(M) <= j
    <3> HIDE DEF M
    <3> QED
      BY <2>1, OldestIs
  <2>3. PICK v \in V : Min(M) = Unit + 1 - v
    BY <2>2
  <2>4. ASSUME NEW w \in V PROVE v >= w
    <3>1. Unit + 1 - w \in M
      OBVIOUS
    <3>2. Unit + 1 - v <= Unit + 1 - w
      BY <2>2, <2>3, <3>1
    <3>3. v \in 0..Unit /\ w \in 0..Unit
      BY <1>4
    <3> QED
      BY <3>2, <3>3
  <2> QED
    BY <2>4
<1>6. Peak(f) \in V
  <2>1. Peak(f) = Max(V)
    BY DEF Peak
  <2> HIDE DEF V
  <2> QED
    BY <1>5, <2>1 DEF Max
<1>7. PICK o \in D : f[o] = Peak(f)
  BY <1>6
<1>8. PICK i \in DOMAIN options : options[i] = o
  BY <1>7 DEF ToSet
<1>9. top \in SUBSET (1..Len(options)) /\ top # {}
  BY <1>2, <1>7, <1>8
<1>10. Min(top) \in top
  <2> HIDE DEF top
  <2> QED
    BY <1>2, <1>9, OldestIs
<1>11. Winner(f, options) = options[Min(top)]
  BY DEF Winner
<1> QED
  BY <1>1, <1>10, <1>11

\* An answer that is confident of one option gives it more than all others.
LEMMA ConfidenceIsMajority ==
  ASSUME NEW D, IsFiniteSet(D), D # {}, NEW f \in [D -> 0..Unit], Unit \in Nat,
         Confident(f), Peak(f) \in Nat
  PROVE  2 * Peak(f) > Total(f)
<1> DEFINE n == Cardinality(D)
           t == Total(f)
           p == Peak(f)
<1>1. n \in Nat /\ n # 0
  BY FS_CardinalityType, FS_EmptySet
<1>2. t \in Nat /\ t > 0 /\ p \in Nat
  BY TotalHas DEF Confident
<1>3. 2 * n * p >= (n + 1) * t
  BY DEF Confident
<1> SUFFICES ASSUME 2 * p <= t PROVE FALSE
  BY <1>2
<1> HIDE DEF n, t, p
<1>4. n * (2 * p) <= n * t
  BY <1>1, <1>2, TimesGrows
<1>5. 2 * n * p = n * (2 * p) /\ (n + 1) * t = n * t + t
  BY <1>1, <1>2
<1> DEFINE a == n * (2 * p)
           b == n * t
<1>6. a \in Nat /\ b \in Nat /\ a >= b + t /\ a <= b
  BY <1>1, <1>2, <1>3, <1>4, <1>5
<1> HIDE DEF a, b
<1> QED
  BY <1>2, <1>6

-----------------------------------------------------------------------------
(* Quotes (judge/brief.rs message_ids).                                    *)

LEMMA Counting == \A n \in Nat : IsFiniteSet(1..n) /\ Cardinality(1..n) = n
<1> DEFINE one == 1
<1> TAKE n \in Nat
<1>1. one \in Int /\ n \in Int
  OBVIOUS
<1> HIDE DEF one
<1>2. /\ IsFiniteSet(one..n)
      /\ Cardinality(one..n) = IF one > n THEN 0 ELSE n - one + 1
  BY <1>1, FS_Interval
<1> USE DEF one
<1> QED
  BY <1>2

\* A set of message ids in its order: as many as there are, each of them once.
LEMMA InOrderIs ==
  ASSUME NEW n \in Nat, NEW S \in SUBSET (1..n)
  PROVE  /\ IsFiniteSet(S)
         /\ InOrder(S) \in [1..Cardinality(S) -> S]
         /\ \A i, j \in 1..Cardinality(S) : i < j => InOrder(S)[i] < InOrder(S)[j]
         /\ \A x \in S : \E i \in 1..Cardinality(S) : InOrder(S)[i] = x
<1> DEFINE c == Cardinality(S)
           Upto(i) == {j \in S : j <= i}
           r == [i \in S |-> Cardinality(Upto(i))]
           Rising(s) == \A i, j \in DOMAIN s : i < j => s[i] < s[j]
<1>1. IsFiniteSet(S) /\ c \in Nat /\ \A i \in S : i \in Nat
  <2>1. IsFiniteSet(1..n)
    BY Counting
  <2>2. IsFiniteSet(S)
    BY <2>1, FS_Subset
  <2>3. \A i \in S : i \in Nat
    OBVIOUS
  <2> QED
    BY <2>2, <2>3, FS_CardinalityType
<1>2. IsFiniteSet(1..c) /\ Cardinality(1..c) = c
  BY <1>1, Counting
<1>3. ASSUME NEW i \in S
      PROVE  IsFiniteSet(Upto(i)) /\ r[i] \in Nat /\ r[i] \in 1..c
  <2>1. Upto(i) \in SUBSET S /\ i \in Upto(i)
    BY <1>1
  <2>2. r[i] = Cardinality(Upto(i))
    OBVIOUS
  <2> HIDE DEF Upto, r
  <2>3. IsFiniteSet(Upto(i)) /\ Cardinality(Upto(i)) <= c /\ Cardinality(Upto(i)) \in Nat
    BY <1>1, <2>1, FS_Subset, FS_CardinalityType
  <2>4. Cardinality(Upto(i)) # 0
    BY <2>1, <2>3, FS_EmptySet
  <2> HIDE DEF c
  <2> QED
    BY <1>1, <2>2, <2>3, <2>4
<1>4. ASSUME NEW i \in S, NEW j \in S, i < j PROVE r[i] < r[j]
  <2>1. Upto(i) \in SUBSET Upto(j) /\ j \in Upto(j) /\ j \notin Upto(i)
    <3>0. i \in Nat /\ j \in Nat
      BY <1>1, <1>4
    <3>1. \A k \in S : k <= i => k <= j
      BY <1>1, <1>4, <3>0
    <3>2. j <= j /\ ~(j <= i)
      BY <1>4, <3>0
    <3> QED
      BY <3>1, <3>2, <1>4
  <2>2. r[i] = Cardinality(Upto(i)) /\ r[j] = Cardinality(Upto(j))
    OBVIOUS
  <2>3. IsFiniteSet(Upto(j)) /\ r[i] \in Nat /\ r[j] \in Nat
    BY <1>3
  <2> HIDE DEF Upto, r
  <2>4. Cardinality(Upto(i)) <= Cardinality(Upto(j))
        /\ (Cardinality(Upto(j)) = Cardinality(Upto(i)) => Upto(j) = Upto(i))
    BY <2>1, <2>3, FS_Subset
  <2> QED
    BY <2>1, <2>2, <2>3, <2>4
<1>5. r \in Injection(S, 1..c)
  <2>1. \A i, j \in S : r[i] = r[j] => i = j
    <3> TAKE i, j \in S
    <3>1. i < j => r[i] < r[j]
      BY <1>4
    <3>2. j < i => r[j] < r[i]
      BY <1>4
    <3>3. r[i] \in Nat /\ r[j] \in Nat
      BY <1>3
    <3> HIDE DEF r
    <3> QED
      BY <1>1, <3>1, <3>2, <3>3
  <2>2. r \in [S -> 1..c]
    <3>1. \A i \in S : Cardinality(Upto(i)) \in 1..c
      BY <1>3
    <3> HIDE DEF Upto, c
    <3> QED
      BY <3>1
  <2> HIDE DEF r, c
  <2> QED
    BY <2>1, <2>2 DEF Injection, IsInjective
<1>6. r \in Surjection(S, 1..c)
  <2> HIDE DEF r
  <2> QED
    BY <1>1, <1>2, <1>5, FS_Injection
<1>7. \E s \in [1..c -> S] : Rising(s)
  <2> DEFINE s == [k \in 1..c |-> CHOOSE i \in S : r[i] = k]
  <2>1. \A k \in 1..c : s[k] \in S /\ r[s[k]] = k
    <3>1. \A k \in 1..c : \E i \in S : r[i] = k
      <4> HIDE DEF r, c
      <4> QED
        BY <1>6 DEF Surjection
    <3> HIDE DEF r, c
    <3> QED
      BY <3>1
  <2>2. s \in [1..c -> S]
    <3>1. \A k \in 1..c : (CHOOSE i \in S : r[i] = k) \in S
      BY <2>1
    <3> HIDE DEF r, c
    <3> QED
      BY <3>1
  <2>3. ASSUME NEW k \in 1..c, NEW l \in 1..c, k < l PROVE s[k] < s[l]
    <3>1. s[k] \in S /\ s[l] \in S /\ r[s[k]] = k /\ r[s[l]] = l
      BY <2>1
    <3>2. s[l] < s[k] => r[s[l]] < r[s[k]]
      <4> HIDE DEF r, s, c
      <4> QED
        BY <1>4, <3>1
    <3> HIDE DEF r, s, c
    <3>3. s[k] \in Nat /\ s[l] \in Nat /\ k \in Nat /\ l \in Nat
      <4>1. k \in Nat /\ l \in Nat
        BY <2>3
      <4>2. s[k] \in Nat
        BY <1>1, <3>1
      <4>3. s[l] \in Nat
        BY <1>1, <3>1
      <4> QED
        BY <4>1, <4>2, <4>3
    <3>4. s[k] # s[l]
      BY <2>3, <3>1, <3>3
    <3> QED
      BY <2>3, <3>1, <3>2, <3>3, <3>4
  <2>4. DOMAIN s = 1..c
    OBVIOUS
  <2> HIDE DEF s, c
  <2> QED
    BY <2>2, <2>3, <2>4
<1>8. InOrder(S) \in [1..c -> S] /\ Rising(InOrder(S))
  <2>1. InOrder(S) = CHOOSE s \in [1..c -> S] : Rising(s)
    BY DEF InOrder
  <2> HIDE DEF Rising, c
  <2> QED
    BY <1>7, <2>1
<1> DEFINE o == InOrder(S)
<1>9. DOMAIN o = 1..c /\ \A i \in 1..c : o[i] \in S
  BY <1>8
<1>10. \A i, j \in 1..c : i < j => o[i] < o[j]
  BY <1>8, <1>9
<1> HIDE DEF o, c
<1>11. o \in Injection(1..c, S)
  <2>1. \A i, j \in 1..c : o[i] = o[j] => i = j
    <3> TAKE i, j \in 1..c
    <3>1. o[i] \in Nat /\ o[j] \in Nat
      BY <1>1, <1>9
    <3>2. i < j => o[i] < o[j]
      BY <1>10
    <3>3. j < i => o[j] < o[i]
      BY <1>10
    <3> QED
      BY <1>1, <3>1, <3>2, <3>3
  <2> QED
    BY <1>8, <2>1 DEF Injection, IsInjective, o
<1>12. o \in Surjection(1..c, S)
  <2>1. Cardinality(1..c) = Cardinality(S)
    BY <1>2 DEF c
  <2> QED
    BY <1>1, <1>11, <2>1, FS_Injection
<1>13. \A x \in S : \E i \in 1..c : o[i] = x
  BY <1>12 DEF Surjection
<1> QED
  BY <1>1, <1>8, <1>10, <1>13 DEF o, c

\* What may be quoted of somebody is that somebody's, among the newest.
LEMMA QuotableIs ==
  ASSUME NEW W, NEW transcript \in Seq(W), NEW quoted, MaxQuoteOptions \in Nat \ {0}
  PROVE  /\ MessageIds(transcript, quoted) \in Seq(Nat)
         /\ \A m \in ToSet(MessageIds(transcript, quoted)) :
              /\ m \in DOMAIN transcript /\ transcript[m] \in quoted
              /\ Cardinality({i \in DOMAIN transcript : i > m /\ transcript[i] \in quoted})
                   < MaxQuoteOptions
<1> DEFINE n == Len(transcript)
           S == {i \in DOMAIN transcript : transcript[i] \in quoted}
           ids == InOrder(S)
           c == Cardinality(S)
           skip == IF Len(ids) > MaxQuoteOptions THEN Len(ids) - MaxQuoteOptions ELSE 0
<1>1. n \in Nat /\ DOMAIN transcript = 1..n /\ S \in SUBSET (1..n)
  OBVIOUS
<1>2. MessageIds(transcript, quoted) = SubSeq(ids, skip + 1, Len(ids))
  BY DEF MessageIds
<1>3. \A m : {i \in DOMAIN transcript : i > m /\ transcript[i] \in quoted} = {i \in S : i > m}
  OBVIOUS
<1>4. \A i \in S : i \in DOMAIN transcript /\ transcript[i] \in quoted /\ i \in Nat
  BY <1>1
<1> HIDE DEF S, n
<1>5. /\ IsFiniteSet(S) /\ c \in Nat /\ ids \in [1..c -> S]
      /\ \A i, j \in 1..c : i < j => ids[i] < ids[j]
      /\ \A x \in S : \E i \in 1..c : ids[i] = x
  BY <1>1, InOrderIs, FS_CardinalityType
<1> HIDE DEF c, ids
<1>6. ids \in Seq(Nat) /\ Len(ids) = c
  <2>1. ids \in [1..c -> Nat]
    BY <1>4, <1>5
  <2> QED
    BY <1>5, <2>1
<1>7. skip \in Nat /\ skip <= c /\ c - skip <= MaxQuoteOptions
  BY <1>5, <1>6
<1> DEFINE last == SubSeq(ids, skip + 1, Len(ids))
<1> HIDE DEF skip
<1>8. last \in Seq(Nat) /\ DOMAIN last = 1..(c - skip)
      /\ \A k \in 1..(c - skip) : last[k] = ids[skip + k]
  BY <1>5, <1>6, <1>7
<1>9. ASSUME NEW k \in DOMAIN last
      PROVE  last[k] \in S /\ Cardinality({i \in S : i > last[k]}) < MaxQuoteOptions
  <2> DEFINE p == skip + k
             R == {i \in S : i > ids[p]}
  <2>1. p \in 1..c /\ last[k] = ids[p]
    BY <1>5, <1>7, <1>8, <1>9
  <2>2. ids[p] \in S /\ ids[p] \in Nat
    BY <1>4, <1>5, <2>1
  <2> DEFINE tail == {i \in 1..c : i > p /\ ids[i] \in R}
             f == [i \in tail |-> ids[i]]
  <2> HIDE DEF p
  <2>3. tail \in SUBSET ((p + 1)..c)
    BY <1>5, <2>1
  <2>4. IsFiniteSet((p + 1)..c) /\ Cardinality((p + 1)..c) <= c - p
    <3> DEFINE a == p + 1
    <3>1. a \in Int /\ c \in Int /\ p \in Int /\ p <= c
      BY <1>5, <2>1
    <3> HIDE DEF a
    <3>2. IsFiniteSet(a..c) /\ Cardinality(a..c) = IF a > c THEN 0 ELSE c - a + 1
      BY <3>1, FS_Interval
    <3> USE DEF a
    <3> QED
      BY <3>1, <3>2
  <2>5. IsFiniteSet(tail) /\ Cardinality(tail) <= c - p
    <3>1. IsFiniteSet(tail) /\ Cardinality(tail) <= Cardinality((p + 1)..c)
      <4> HIDE DEF tail
      <4> QED
        BY <2>3, <2>4, FS_Subset
    <3>2. Cardinality(tail) \in Nat /\ Cardinality((p + 1)..c) \in Nat
      BY <2>4, <3>1, FS_CardinalityType
    <3> HIDE DEF tail
    <3>3. c \in Nat /\ p \in Nat
      BY <1>5, <2>1
    <3> QED
      BY <2>4, <3>1, <3>2, <3>3
  <2>6. \A x \in R : \E i \in tail : ids[i] = x
    <3> TAKE x \in R
    <3>1. PICK i \in 1..c : ids[i] = x
      BY <1>5
    <3>2. i > p
      <4>1. i < p => ids[i] < ids[p]
        BY <1>5, <2>1
      <4>2. i \in Nat /\ p \in Nat /\ x > ids[p] /\ x \in Nat
        BY <1>4, <1>5, <2>1
      <4> QED
        BY <2>2, <3>1, <4>1, <4>2
    <3> QED
      BY <3>1, <3>2
  <2>7. f \in Surjection(tail, R)
    <3>1. \A i \in tail : ids[i] \in R
      OBVIOUS
    <3> HIDE DEF tail, R
    <3> QED
      BY <2>6, <3>1 DEF Surjection
  <2>8. IsFiniteSet(R) /\ Cardinality(R) <= Cardinality(tail)
    <3> HIDE DEF f, tail, R
    <3> QED
      BY <2>5, <2>7, FS_Surjection
  <2>9. Cardinality(R) < MaxQuoteOptions
    <3>1. Cardinality(R) \in Nat /\ Cardinality(tail) \in Nat
      <4> HIDE DEF R, tail
      <4> QED
        BY <2>5, <2>8, FS_CardinalityType
    <3>2. c - p < c - skip
      BY <1>5, <1>7, <1>8, <1>9 DEF p
    <3> HIDE DEF R, tail
    <3>3. c \in Nat /\ p \in Nat
      BY <1>5, <2>1
    <3> QED
      BY <1>7, <2>5, <2>8, <3>1, <3>2, <3>3
  <2> QED
    BY <2>1, <2>2, <2>9
<1> HIDE DEF last
<1>10. \A m \in ToSet(last) : m \in S /\ Cardinality({i \in S : i > m}) < MaxQuoteOptions
  BY <1>9 DEF ToSet
<1>11. MessageIds(transcript, quoted) = last
  BY <1>2 DEF last
<1> QED
  BY <1>3, <1>4, <1>8, <1>10, <1>11

-----------------------------------------------------------------------------
(* A call and its answers.                                                 *)

Ids == AllQuestions \union {<<"quote", q>> : q \in DOMAIN Quotes}

CallType ==
  [step: {"none", "trying", "answered", "failed"}, asked: SUBSET Ids, wrote: SUBSET Both,
   transcript: Seq({"buyer", "seller", "serbero"}), retry: 0..MaxRetries, waited: Nat,
   error: {"none", "Unauthorized", "Unavailable", "InvalidRequest", "Malformed"}]

Longest == Max({MaxBackoff, MaxRetryAfter})

\* An answer that passed the check.
Fits(c, id, a) == a \in [ToSet(Asked(c, id)) -> 0..Unit]

\* A call asks what its questions are, its answers passed the check, and it has
\* waited once per retry at most.
JudgeInv ==
  /\ call \in CallType
  /\ DOMAIN answers \in {{}, call.asked}
  /\ \A id \in DOMAIN answers : Fits(call, id, answers[id])
  /\ call.waited <= call.retry * Longest
  /\ OnlyOverloadIsRetried
  /\ ready \in BOOLEAN
  /\ ready => provider.healthy
  /\ call # NoCall => ready

LEMMA NoCallIs == JudgeAssumption => NoCall \in CallType /\ DOMAIN NoAnswers = {}
  BY DEF JudgeAssumption, NoCall, CallType, NoAnswers

LEMMA LongestIs ==
  /\ Longest \in Nat /\ MaxBackoff <= Longest /\ MaxRetryAfter <= Longest
<1> DEFINE S == {MaxBackoff, MaxRetryAfter}
<1>1. MaxBackoff \in Nat /\ MaxRetryAfter \in Nat
  BY JudgeAssumption DEF JudgeAssumption
<1>2. \E x \in S : \A y \in S : x >= y
  <2>1. CASE MaxBackoff >= MaxRetryAfter
    BY <1>1, <2>1
  <2>2. CASE ~(MaxBackoff >= MaxRetryAfter)
    BY <1>1, <2>2
  <2> QED
    BY <2>1, <2>2
<1>3. Max(S) \in S /\ \A y \in S : Max(S) >= y
  <2> HIDE DEF S
  <2> QED
    BY <1>2 DEF Max
<1> QED
  BY <1>1, <1>3 DEF Longest

\* A wait is no longer than the longest.
LEMMA WaitBeforeIs ==
  ASSUME NEW retry \in 0..MaxRetries, NEW after \in Nat
  PROVE  WaitBefore(retry, after) \in Nat /\ WaitBefore(retry, after) <= Longest
<1>1. MaxBackoff \in Nat /\ MaxRetryAfter \in Nat /\ InitialBackoff * 2^retry \in Nat
  BY JudgeAssumption, BackoffsAssumption DEF JudgeAssumption, BackoffsAssumption
<1> DEFINE b == InitialBackoff * 2^retry
<1>2. b \in Nat /\ Backoff(retry) = IF b < MaxBackoff THEN b ELSE MaxBackoff
  BY <1>1 DEF Backoff, Smaller
<1> HIDE DEF b
<1> QED
  BY <1>1, <1>2, LongestIs DEF WaitBefore, Smaller

LEMMA JudgeStarts == JudgeInit => JudgeInv
<1> SUFFICES ASSUME JudgeInit PROVE JudgeInv
  OBVIOUS
<1>1. call = NoCall /\ call \in CallType /\ DOMAIN answers = {} /\ ready = FALSE
  BY NoCallIs, JudgeAssumption DEF JudgeInit
<1>2. call.waited = 0 /\ call.retry = 0 /\ call.step = "none"
  BY <1>1 DEF NoCall
<1>3. call.waited <= call.retry * Longest
  BY <1>2, LongestIs
<1>4. OnlyOverloadIsRetried
  BY <1>2 DEF OnlyOverloadIsRetried
<1> QED
  BY <1>1, <1>3, <1>4 DEF JudgeInv

LEMMA StartupKeeps ==
  ASSUME JudgeInv, NEW p \in Provider, Startup(p)
  PROVE  JudgeInv'
<1>1. call' = call /\ answers' = answers /\ call = NoCall /\ provider' = p
  BY DEF Startup
<1>2. ready' \in BOOLEAN /\ (ready' => p.healthy)
  BY DEF Startup, Provider
<1> QED
  BY <1>1, <1>2 DEF JudgeInv, OnlyOverloadIsRetried, Fits, Asked

LEMMA AskingKeeps ==
  ASSUME JudgeInv, ready, ready' = ready, provider' = provider, answers' = NoAnswers,
         call' \in CallType, call'.step = "trying", call'.retry = 0, call'.waited = 0
  PROVE  JudgeInv'
<1>1. DOMAIN answers' = {}
  BY NoCallIs, JudgeAssumption
<1>2. call'.waited <= call'.retry * Longest
  BY LongestIs
<1> QED
  BY <1>1, <1>2 DEF JudgeInv, OnlyOverloadIsRetried

LEMMA AskTurnKeeps ==
  ASSUME JudgeInv, NEW wrote \in SUBSET Both, NEW guiding \in BOOLEAN, AskTurn(wrote, guiding)
  PROVE  JudgeInv'
<1>1. ForTurn(wrote, guiding) \in SUBSET Ids
  BY DEF ForTurn, Ids
<1> DEFINE asked == ForTurn(wrote, guiding)
<1>2. call' = [NoCall EXCEPT !.step = "trying", !.asked = asked, !.wrote = wrote]
  BY DEF AskTurn
<1> HIDE DEF asked
<1>3. call' \in CallType /\ call'.step = "trying" /\ call'.retry = 0 /\ call'.waited = 0
  BY <1>1, <1>2, NoCallIs, JudgeAssumption DEF CallType, NoCall, asked
<1> QED
  BY <1>3, AskingKeeps DEF AskTurn

LEMMA AskQuotesKeeps ==
  ASSUME JudgeInv, NEW transcript \in Transcripts, AskQuotes(transcript)
  PROVE  JudgeInv'
<1>1. ForState(transcript) \in SUBSET Ids /\ transcript \in Seq({"buyer", "seller", "serbero"})
  BY JudgeAssumption DEF ForState, Ids, JudgeAssumption
<1> DEFINE asked == ForState(transcript)
<1>2. call' = [NoCall EXCEPT !.step = "trying", !.asked = asked, !.transcript = transcript]
  BY DEF AskQuotes
<1> HIDE DEF asked
<1>3. call' \in CallType /\ call'.step = "trying" /\ call'.retry = 0 /\ call'.waited = 0
  BY <1>1, <1>2, NoCallIs, JudgeAssumption DEF CallType, NoCall, asked
<1> QED
  BY <1>3, AskingKeeps DEF AskQuotes

LEMMA CallFailsKeeps ==
  ASSUME JudgeInv, NEW after \in Nat,
         NEW error \in {"Unauthorized", "Unavailable", "InvalidRequest", "Malformed"},
         FailWith(error, after)
  PROVE  JudgeInv'
<1> DEFINE again == call.retry < MaxRetries /\ error = "Unavailable"
           wait == WaitBefore(call.retry, after)
<1>1. call \in CallType /\ call.retry \in 0..MaxRetries /\ call.waited \in Nat
      /\ call.step = "trying" /\ MaxRetries \in Nat
  BY JudgeAssumption DEF JudgeInv, FailWith, CallType, JudgeAssumption
<1>2. wait \in Nat /\ wait <= Longest
  BY <1>1, WaitBeforeIs
<1>3. call' = IF again
              THEN [call EXCEPT !.retry = @ + 1, !.error = error, !.waited = @ + wait]
              ELSE [call EXCEPT !.step = "failed", !.error = error]
  BY DEF FailWith, Retryable
<1> HIDE DEF wait
<1>4. call' \in CallType /\ call'.asked = call.asked /\ call'.transcript = call.transcript
  <2>1. CASE again
    <3>1. call.retry + 1 \in 0..MaxRetries /\ call.waited + wait \in Nat
      BY <1>1, <1>2, <2>1
    <3>2. call' = [[[call EXCEPT !.retry = call.retry + 1] EXCEPT !.error = error]
                    EXCEPT !.waited = call.waited + wait]
      BY <1>1, <1>3, <2>1 DEF CallType
    <3> DEFINE r == call.retry + 1
               w == call.waited + wait
               one == [call EXCEPT !.retry = r]
               two == [one EXCEPT !.error = error]
               three == [two EXCEPT !.waited = w]
    <3>3. r \in 0..MaxRetries /\ w \in Nat /\ call' = three
      BY <3>1, <3>2
    <3> HIDE DEF r, w
    <3>4. one \in CallType /\ one.asked = call.asked /\ one.transcript = call.transcript
      BY <1>1, <3>3 DEF CallType
    <3> HIDE DEF one
    <3>5. two \in CallType /\ two.asked = call.asked /\ two.transcript = call.transcript
      BY <3>4 DEF CallType
    <3> HIDE DEF two
    <3> QED
      BY <3>3, <3>5 DEF CallType
  <2>2. CASE ~again
    BY <1>1, <1>3, <2>2 DEF CallType
  <2> QED
    BY <2>1, <2>2
<1>5. call'.waited <= call'.retry * Longest
  <2>1. CASE again
    <3>1. call'.waited = call.waited + wait /\ call'.retry = call.retry + 1
      BY <1>1, <1>3, <2>1 DEF CallType
    <3>2. call.waited <= call.retry * Longest
      BY DEF JudgeInv
    <3>3. (call.retry + 1) * Longest = call.retry * Longest + Longest
          /\ call.retry * Longest \in Nat
      BY <1>1, LongestIs
    <3> DEFINE l == call.retry * Longest
    <3>4. l \in Nat /\ call.waited <= l /\ (call.retry + 1) * Longest = l + Longest
      BY <3>2, <3>3
    <3> HIDE DEF l
    <3> QED
      BY <1>1, <1>2, <3>1, <3>4, LongestIs
  <2>2. CASE ~again
    <3>1. call'.waited = call.waited /\ call'.retry = call.retry
      BY <1>1, <1>3, <2>2 DEF CallType
    <3> QED
      BY <3>1 DEF JudgeInv
  <2> QED
    BY <2>1, <2>2
<1>6. OnlyOverloadIsRetried'
  <2>1. CASE again
    <3>1. call'.error = "Unavailable"
      BY <1>1, <1>3, <2>1 DEF CallType
    <3> QED
      BY <3>1 DEF OnlyOverloadIsRetried
  <2>2. CASE ~again
    <3>1. call'.step = "failed"
      BY <1>1, <1>3, <2>2 DEF CallType
    <3> QED
      BY <3>1 DEF OnlyOverloadIsRetried
  <2> QED
    BY <2>1, <2>2
<1>7. ready
  BY <1>1 DEF JudgeInv, NoCall
<1>8. answers' = answers /\ ready' = ready /\ provider' = provider
  BY DEF FailWith
<1>9. \A id \in DOMAIN answers' : Fits(call', id, answers'[id])
  BY <1>4, <1>8 DEF JudgeInv, Fits, Asked
<1>10. ready' \in BOOLEAN /\ (ready' => provider'.healthy) /\ (call' # NoCall => ready')
  <2>1. ready' /\ provider.healthy
    BY <1>7, <1>8 DEF JudgeInv
  <2>2. provider' = provider /\ ready \in BOOLEAN
    BY <1>8 DEF JudgeInv
  <2> QED
    BY <2>1, <2>2, <1>8
<1>11. DOMAIN answers' \in {{}, call'.asked}
  BY <1>4, <1>8 DEF JudgeInv
<1> HIDE DEF again
<1> QED
  BY <1>4, <1>5, <1>6, <1>9, <1>10, <1>11 DEF JudgeInv

LEMMA ErrorIs ==
  ASSUME NEW status
  PROVE  ErrorOf(status) \in {"Unauthorized", "Unavailable", "InvalidRequest", "Malformed"}
  BY DEF ErrorOf

\* Every response gives each question a number for each option.
LEMMA ResponsesAre ==
  ASSUME NEW given \in Responses, NEW k \in DOMAIN given
  PROVE  k \in call.asked /\ given[k] \in [DOMAIN given[k] -> Nat]
<1>0. Unit \in Nat
  BY JudgeAssumption DEF JudgeAssumption
<1>1. \A options : Certain(options) \in [DOMAIN Certain(options) -> Nat]
  BY <1>0 DEF Certain
<1>2. \A options : \A a \in Split(options) : a \in [DOMAIN a -> Nat]
  <2> TAKE options
  <2> TAKE a \in Split(options)
  <2>1. PICK x, y \in ToSet(options), p \in 0..(Unit + 1), q \in 0..Unit :
          a = [o \in ToSet(options) |-> (IF o = x THEN p ELSE 0) + (IF o = y THEN q ELSE 0)]
    BY DEF Split
  <2>2. \A o : (IF o = x THEN p ELSE 0) + (IF o = y THEN q ELSE 0) \in Nat
    BY <1>0
  <2> QED
    BY <2>1, <2>2
<1>3. DOMAIN Usual = call.asked /\ \A x \in call.asked : Usual[x] \in [DOMAIN Usual[x] -> Nat]
  <2>1. [yes |-> 0] \in [DOMAIN [yes |-> 0] -> Nat]
    OBVIOUS
  <2> QED
    BY <1>1, <2>1 DEF Usual
<1>4. CASE given = Usual
  BY <1>3, <1>4
<1>5. CASE \E x \in call.asked : \E a \in Split(Asked(call, x)) : given = [Usual EXCEPT ![x] = a]
  <2>1. PICK x \in call.asked : \E a \in Split(Asked(call, x)) : given = [Usual EXCEPT ![x] = a]
    BY <1>5
  <2>2. PICK a \in Split(Asked(call, x)) : given = [Usual EXCEPT ![x] = a]
    BY <2>1
  <2>3. a \in [DOMAIN a -> Nat]
    BY <1>2
  <2>4. DOMAIN given = call.asked /\ given[k] = IF k = x THEN a ELSE Usual[k]
    BY <1>3, <2>2 DEF Usual
  <2> QED
    BY <1>3, <2>3, <2>4
<1>6. CASE \E x \in call.asked : given = [y \in call.asked \ {x} |-> Usual[y]]
  BY <1>3, <1>6
<1> DEFINE changed == {{[Usual EXCEPT ![id] = a] : a \in Split(Asked(call, id))} :
                         id \in call.asked}
           short == {[x \in call.asked \ {id} |-> Usual[x]] : id \in call.asked}
<1>7. given = Usual \/ given \in UNION changed \/ given \in short
  <2>1. Responses = {Usual} \union (UNION changed) \union short
    BY DEF Responses
  <2> HIDE DEF changed, short
  <2> QED
    BY <2>1
<1>8. given \in UNION changed =>
        \E x \in call.asked : given \in {[Usual EXCEPT ![x] = a] : a \in Split(Asked(call, x))}
  OBVIOUS
<1>9. given \in UNION changed =>
        \E x \in call.asked : \E a \in Split(Asked(call, x)) : given = [Usual EXCEPT ![x] = a]
  BY <1>8
<1>10. given \in short => \E x \in call.asked : given = [y \in call.asked \ {x} |-> Usual[y]]
  OBVIOUS
<1> HIDE DEF changed, short
<1> QED
  BY <1>4, <1>5, <1>6, <1>7, <1>9, <1>10

LEMMA AnsweredKeeps ==
  ASSUME JudgeInv, call.step = "trying", NEW given \in Responses, NEW pinned \in BOOLEAN,
         AnswerWith(given, pinned)
  PROVE  JudgeInv'
<1>1. CASE pinned /\ CheckAnswers(call, given)
  <2>1. call' = [call EXCEPT !.step = "answered"] /\ answers' = given
        /\ provider' = provider /\ ready' = ready
    BY <1>1 DEF AnswerWith
  <2>2. call \in CallType
    BY DEF JudgeInv
  <2>3. call' \in CallType /\ call'.asked = call.asked /\ call'.transcript = call.transcript
        /\ call'.waited = call.waited /\ call'.retry = call.retry /\ call'.step = "answered"
    BY <2>1, <2>2 DEF CallType
  <2>4. DOMAIN given = call.asked
    BY <1>1 DEF CheckAnswers
  <2>5. ASSUME NEW id \in call.asked PROVE Fits(call, id, given[id])
    <3> DEFINE a == given[id]
    <3>1. a \in [DOMAIN a -> Nat]
      BY <2>4, ResponsesAre
    <3>2. DOMAIN a = ToSet(Asked(call, id)) /\ CheckUnit(a)
      BY <1>1 DEF CheckAnswers, CheckDistribution
    <3> HIDE DEF a
    <3>3. Unit \in Nat
      BY JudgeAssumption DEF JudgeAssumption
    <3>4. a \in [DOMAIN a -> 0..Unit]
      BY <3>1, <3>2, <3>3 DEF CheckUnit
    <3> QED
      BY <3>2, <3>4 DEF Fits, a
  <2>6. \A id \in DOMAIN answers' : Fits(call', id, answers'[id])
    BY <2>1, <2>3, <2>4, <2>5 DEF Fits, Asked
  <2>7. OnlyOverloadIsRetried'
    BY <2>3 DEF OnlyOverloadIsRetried
  <2>8. call # NoCall
    BY DEF NoCall
  <2>9. ready /\ ready \in BOOLEAN /\ (ready => provider.healthy)
    BY <2>8 DEF JudgeInv
  <2>10. ready' \in BOOLEAN /\ (ready' => provider'.healthy) /\ (call' # NoCall => ready')
    BY <2>1, <2>9
  <2>11. call'.waited <= call'.retry * Longest
    BY <2>3 DEF JudgeInv
  <2>12. DOMAIN answers' \in {{}, call'.asked}
    BY <2>1, <2>3, <2>4
  <2> QED
    BY <2>3, <2>6, <2>7, <2>10, <2>11, <2>12 DEF JudgeInv
<1>2. CASE ~(pinned /\ CheckAnswers(call, given))
  <2>1. FailWith("Malformed", 0)
    BY <1>2 DEF AnswerWith
  <2> QED
    BY <2>1, CallFailsKeeps
<1> QED
  BY <1>1, <1>2

LEMMA JudgeKeeps == JudgeInv /\ [JudgeNext]_judgeVars => JudgeInv'
<1> SUFFICES ASSUME JudgeInv, [JudgeNext]_judgeVars PROVE JudgeInv'
  OBVIOUS
<1>1. CASE \E p \in Provider : Startup(p)
  BY <1>1, StartupKeeps
<1>2. CASE \E wrote \in SUBSET Both, guiding \in BOOLEAN : AskTurn(wrote, guiding)
  BY <1>2, AskTurnKeeps
<1>3. CASE \E transcript \in Transcripts : AskQuotes(transcript)
  BY <1>3, AskQuotesKeeps
<1>4. CASE \E status \in {0, 400, 403, 429, 503}, after \in RetryAfters :
             FailStatus(status, after)
  <2>1. PICK status \in {0, 400, 403, 429, 503}, after \in RetryAfters :
          FailStatus(status, after)
    BY <1>4
  <2>2. after \in Nat
    BY JudgeAssumption DEF JudgeAssumption
  <2>3. FailWith(ErrorOf(status), after)
    BY <2>1 DEF FailStatus
  <2> QED
    BY <2>2, <2>3, ErrorIs, CallFailsKeeps
<1>5. CASE /\ call.step = "trying"
           /\ \/ \E given \in Responses : AnswerWith(given, TRUE)
              \/ AnswerWith(Usual, FALSE)
  <2>1. Usual \in Responses
    BY DEF Responses
  <2>2. PICK given \in Responses, pinned \in BOOLEAN : AnswerWith(given, pinned)
    BY <1>5, <2>1
  <2> QED
    BY <1>5, <2>2, AnsweredKeeps
<1>6. CASE UNCHANGED judgeVars
  BY <1>6 DEF judgeVars, JudgeInv, OnlyOverloadIsRetried, Fits, Asked
<1> QED
  BY <1>1, <1>2, <1>3, <1>4, <1>5, <1>6 DEF JudgeNext

-----------------------------------------------------------------------------
(* What is read in the answers.                                            *)

LEMMA ThresholdsAre ==
  /\ Unit \in Nat \ {0} /\ MaxQuoteOptions \in Nat \ {0} /\ Languages \in Seq(STRING)
  /\ {Fact, Guide, LanguageMin} \subseteq {n \in 1..Unit : 2 * n > Unit}
  BY JudgeAssumption DEF JudgeAssumption

Options == {"not_stated", "says_not_sent", "says_sent", "says_not_received", "says_received",
            "says_received_with_problem", "answers", "asks_language", "asks_next_step",
            "greeting", "not_understood", "other", "unknown"} \union ToSet(Languages)

\* The questions that are read, and their options.
LEMMA OptionsAre ==
  \A x \in {"buyer_payment", "seller_receipt", "message_kind", "language"} :
    OptionsOf(x) \in Seq(Options) /\ OptionsOf(x) # << >>
<1>1. OptionsOf("buyer_payment") \in Seq(Options) /\ OptionsOf("buyer_payment") # << >>
  BY DEF OptionsOf, Options
<1>2. OptionsOf("seller_receipt") \in Seq(Options) /\ OptionsOf("seller_receipt") # << >>
  BY DEF OptionsOf, Options
<1>3. OptionsOf("message_kind") \in Seq(Options) /\ OptionsOf("message_kind") # << >>
  BY DEF OptionsOf, Options
<1>4. OptionsOf("language") \in Seq(Options) /\ OptionsOf("language") # << >>
  <2>1. OptionsOf("language") = Languages \o <<"other", "unknown">>
    BY DEF OptionsOf
  <2>2. Languages \in Seq(Options)
    <3>1. \A i \in 1..Len(Languages) : Languages[i] \in Options
      BY ThresholdsAre DEF Options, ToSet
    <3>2. Languages \in Seq(STRING)
      BY ThresholdsAre
    <3>3. \A T, U : \A q \in Seq(T) : (\A i \in 1..Len(q) : q[i] \in U) => q \in Seq(U)
      OBVIOUS
    <3> QED
      BY <3>1, <3>2, <3>3, Zenon
  <2>3. <<"other", "unknown">> \in Seq(Options)
    BY DEF Options
  <2> DEFINE rest == <<"other", "unknown">>
  <2>4. rest \in Seq(Options) /\ Len(rest) = 2
    BY <2>3
  <2> HIDE DEF rest
  <2>5. \A S : \A s, t \in Seq(S) : s \o t \in Seq(S) /\ Len(s \o t) = Len(s) + Len(t)
    OBVIOUS
  <2>6. Languages \o rest \in Seq(Options) /\ Len(Languages \o rest) = Len(Languages) + 2
    BY <2>2, <2>4, <2>5
  <2>7. Len(Languages) \in Nat
    BY <2>2
  <2>8. Languages \o rest # << >>
    BY <2>6, <2>7
  <2> QED
    BY <2>1, <2>6, <2>8 DEF rest
<1> QED
  BY <1>1, <1>2, <1>3, <1>4

\* An answer that is read has a share for each of finitely many options.
LEMMA AnswerIs ==
  ASSUME JudgeInv, NEW id \in DOMAIN answers,
         id[1] # "quote", id[2] \in {"buyer_payment", "seller_receipt", "message_kind", "language"}
  PROVE  /\ OptionsOf(id[2]) \in Seq(Options) /\ OptionsOf(id[2]) # << >>
         /\ IsFiniteSet(ToSet(OptionsOf(id[2]))) /\ ToSet(OptionsOf(id[2])) # {}
         /\ answers[id] \in [ToSet(OptionsOf(id[2])) -> 0..Unit]
<1> DEFINE options == OptionsOf(id[2])
<1>1. options \in Seq(Options) /\ options # << >>
  BY OptionsAre
<1>2. answers[id] \in [ToSet(options) -> 0..Unit]
  BY DEF JudgeInv, Fits, Asked
<1> HIDE DEF options
<1>3. IsFiniteSet(ToSet(options))
  BY <1>1, OptionsAreFinite
<1>4. options[1] \in ToSet(options)
  BY <1>1 DEF ToSet
<1> QED
  BY <1>1, <1>2, <1>3, <1>4 DEF options

\* Two claims of a choice are not both known.
LEMMA SaysOne ==
  ASSUME JudgeInv, NEW x \in {"buyer_payment", "seller_receipt"}, NEW a, NEW b, a # b,
         NEW l \in {Fact, Guide}, NEW m \in {Fact, Guide}
  PROVE  ~(Says(x, a, l) /\ Says(x, b, m))
<1> DEFINE id == <<"case", x>>
<1> SUFFICES ASSUME Says(x, a, l), Says(x, b, m) PROVE FALSE
  OBVIOUS
<1>1. id \in DOMAIN answers /\ ShareReaches(answers[id], a, l) /\ ShareReaches(answers[id], b, m)
  BY DEF Says
<1>2. id[1] # "quote" /\ id[2] = x
  OBVIOUS
<1> HIDE DEF id
<1>3. IsFiniteSet(ToSet(OptionsOf(x))) /\ answers[id] \in [ToSet(OptionsOf(x)) -> 0..Unit]
  BY <1>1, <1>2, AnswerIs
<1>4. l \in {n \in 1..Unit : 2 * n > Unit} /\ m \in {n \in 1..Unit : 2 * n > Unit}
  BY ThresholdsAre
<1> QED
  BY <1>1, <1>3, <1>4, ThresholdsAre, OneReaches

LEMMA ClaimsExclude == JudgeInv => OneClaimOfAChoice
<1> SUFFICES ASSUME JudgeInv PROVE OneClaimOfAChoice
  OBVIOUS
<1>1. /\ ~(Says("buyer_payment", "says_sent", Fact) /\ Says("buyer_payment", "says_not_sent", Fact))
      /\ ~(/\ Says("buyer_payment", "says_sent", Fact)
           /\ Says("buyer_payment", "says_not_sent", Guide))
  BY SaysOne
<1>2. /\ ~(Says("seller_receipt", "says_received", Fact)
             /\ Says("seller_receipt", "says_not_received", Fact))
      /\ ~(Says("seller_receipt", "says_received", Guide)
             /\ Says("seller_receipt", "says_not_received", Fact))
  BY SaysOne
<1> QED
  BY <1>1, <1>2 DEF OneClaimOfAChoice, CaseFactsKnown

LEMMA KindNeedsMajority ==
  ASSUME JudgeInv, NEW party \in Both, WroteThisTurn(party), KindOf(party) # "answers"
  PROVE  2 * answers[<<party, "message_kind">>][KindOf(party)]
           > Total(answers[<<party, "message_kind">>])
<1> DEFINE id == <<party, "message_kind">>
           options == OptionsOf("message_kind")
           a == answers[id]
<1>1. id \in DOMAIN answers /\ id[1] # "quote" /\ id[2] = "message_kind"
  BY DEF WroteThisTurn, Both
<1>2. Confident(a) /\ KindOf(party) = Winner(a, options)
  BY DEF KindOf
<1> HIDE DEF id
<1>3. /\ options \in Seq(Options) /\ options # << >> /\ a \in [ToSet(options) -> 0..Unit]
      /\ IsFiniteSet(ToSet(options)) /\ ToSet(options) # {}
  BY <1>1, AnswerIs
<1> HIDE DEF a, options
<1>4. Winner(a, options) \in ToSet(options) /\ a[Winner(a, options)] = Peak(a)
  BY <1>3, ThresholdsAre, WinnerIs
<1>5. Peak(a) \in Nat
  BY <1>3, <1>4, ThresholdsAre
<1>6. 2 * Peak(a) > Total(a)
  BY <1>2, <1>3, <1>5, ThresholdsAre, ConfidenceIsMajority
<1> QED
  BY <1>2, <1>4, <1>6 DEF a, id

LEMMA LanguageNeedsMajority ==
  ASSUME JudgeInv, NEW party \in Both, NewLanguage(party) # "kept"
  PROVE  2 * answers[<<party, "language">>][NewLanguage(party)]
           > Total(answers[<<party, "language">>])
<1> DEFINE id == <<party, "language">>
           options == OptionsOf("language")
           a == answers[id]
           w == Winner(a, options)
<1>1. id \in DOMAIN answers /\ ShareReaches(a, w, LanguageMin) /\ NewLanguage(party) = w
  BY DEF NewLanguage
<1>2. id[1] # "quote" /\ id[2] = "language"
  BY DEF Both
<1> HIDE DEF id
<1>3. IsFiniteSet(ToSet(options)) /\ a \in [ToSet(options) -> 0..Unit]
  BY <1>1, <1>2, AnswerIs
<1>4. LanguageMin \in 1..Unit /\ 2 * LanguageMin > Unit
  BY ThresholdsAre
<1> HIDE DEF a, w
<1>5. 2 * a[w] > Total(a)
  BY <1>1, <1>3, <1>4, ThresholdsAre, ShareIsMajority
<1> QED
  BY <1>1, <1>5 DEF a, id

LEMMA QuotesHold == JudgeInv => QuotesAreTheirs
<1> SUFFICES ASSUME JudgeInv, NEW q \in DOMAIN Quotes, QuoteOf(q) # 0
             PROVE  /\ call.transcript[QuoteOf(q)] \in Quotes[q]
                    /\ Cardinality({i \in DOMAIN call.transcript :
                          i > QuoteOf(q) /\ call.transcript[i] \in Quotes[q]}) < MaxQuoteOptions
  BY DEF QuotesAreTheirs
<1>1. QuoteOf(q) \in ToSet(MessageIds(call.transcript, Quotes[q]))
  BY DEF QuoteOf
<1>2. call.transcript \in Seq({"buyer", "seller", "serbero"})
  BY DEF JudgeInv, CallType
<1> QED
  BY <1>1, <1>2, ThresholdsAre, QuotableIs

LEMMA ReadingHolds == JudgeInv => ReadingIsSound
<1> SUFFICES ASSUME JudgeInv PROVE ReadingIsSound
  OBVIOUS
<1>1. ReadingNeedsMajority
  BY KindNeedsMajority, LanguageNeedsMajority DEF ReadingNeedsMajority
<1>2. WaitsAreCapped
  <2>1. call.retry \in 0..MaxRetries /\ call.waited \in Nat /\ MaxRetries \in Nat
        /\ call.waited <= call.retry * Longest
    BY JudgeAssumption DEF JudgeInv, CallType, JudgeAssumption
  <2>2. Longest * call.retry <= Longest * MaxRetries
    BY <2>1, LongestIs, TimesGrows
  <2> DEFINE a == call.retry * Longest
             b == MaxRetries * Longest
  <2>3. a \in Nat /\ b \in Nat /\ a <= b /\ call.waited <= a
    BY <2>1, <2>2, LongestIs
  <2> HIDE DEF a, b
  <2>4. call.waited <= b
    BY <2>1, <2>3
  <2> QED
    BY <2>4 DEF b, WaitsAreCapped, Longest
<1>3. OnlyOverloadIsRetried
  BY DEF JudgeInv
<1> QED
  BY <1>1, <1>2, <1>3, ClaimsExclude, QuotesHold DEF ReadingIsSound

\* However the provider splits its answers, whatever it fails with and however
\* long it asks to wait, what Serbero reads is sound: of two claims that exclude
\* each other one is known, a language or a kind of message is what is likelier
\* than all else, a quote is its party's, and calls end (judge/facts.rs,
\* judge/brief.rs, judge/providers/typesafe.rs).
THEOREM ReadingStaysSound == JudgeSpec => []ReadingIsSound
<1>1. JudgeSpec => []JudgeInv
  BY JudgeStarts, JudgeKeeps, PTL DEF JudgeSpec
<1> QED
  BY <1>1, ReadingHolds, PTL

\* The types of the judge's call; a judge is called only if it passed its checks
\* (mediation/mod.rs ready_judge, judge/mod.rs).
THEOREM JudgeTypesStay == JudgeSpec => []JudgeTypeOK
<1>1. JudgeInv => JudgeTypeOK
  <2> SUFFICES ASSUME JudgeInv PROVE JudgeTypeOK
    OBVIOUS
  <2>1. call \in CallType
    BY DEF JudgeInv
  <2>2. call # NoCall => ready /\ provider.healthy
    BY DEF JudgeInv
  <2>3. ready \in BOOLEAN /\ DOMAIN answers \in {{}, call.asked}
    BY DEF JudgeInv
  <2> QED
    BY <2>1, <2>2, <2>3 DEF JudgeTypeOK, CallType
<1>2. JudgeSpec => []JudgeInv
  BY JudgeStarts, JudgeKeeps, PTL DEF JudgeSpec
<1> QED
  BY <1>1, <1>2, PTL

-----------------------------------------------------------------------------
(* Sequences and their sums.                                               *)

\* A sum over a longer sequence.
LEMMA SumOfMore ==
  ASSUME NEW most \in Nat, NEW s \in Seq(0..most), NEW x \in 0..most
  PROVE  Sum2(s) \in Nat /\ Sum2(Append(s, x)) = Sum2(s) + x
<1> DEFINE t == Append(s, x)
           n == Len(s)
<1>1. n \in Nat /\ DOMAIN s = 1..n /\ s \in [1..n -> 0..most]
  OBVIOUS
<1>2. DOMAIN t = 1..(n + 1) /\ t \in [1..(n + 1) -> 0..most] /\ t[n + 1] = x
      /\ \A i \in 1..n : t[i] = s[i]
  <2>1. Len(t) = n + 1 /\ t[n + 1] = x /\ \A i \in 1..n : t[i] = s[i]
    OBVIOUS
  <2>2. t \in Seq(0..most) /\ DOMAIN t = 1..Len(t)
    OBVIOUS
  <2> HIDE DEF t, n
  <2>3. t \in [1..Len(t) -> 0..most]
    BY <2>2
  <2> QED
    BY <2>1, <2>2, <2>3
<1> HIDE DEF t, n
<1>3. IsFiniteSet(1..n) /\ IsFiniteSet(1..(n + 1)) /\ (1..(n + 1)) \ {n + 1} = 1..n
  BY <1>1, Counting
<1>4. Sum2(s) = Cardinality(UnitsOf(s, 1..n, most)) /\ Sum2(s) \in Nat
  <2>1. Sum2(s) = Total(s)
    BY DEF Sum2, Total
  <2> QED
    BY <1>1, <1>3, <2>1, TotalIs, TotalHas
<1>5. Sum2(t) = Cardinality(UnitsOf(t, 1..(n + 1), most))
  <2>1. Sum2(t) = Total(t)
    BY DEF Sum2, Total
  <2> QED
    BY <1>2, <1>3, <2>1, TotalIs
<1>6. Cardinality(UnitsOf(t, 1..(n + 1), most)) = x + Cardinality(UnitsOf(t, 1..n, most))
  <2>1. n + 1 \in 1..(n + 1)
    BY <1>1
  <2> DEFINE D == 1..(n + 1)
  <2>2. \A f \in [D -> 0..most] : \A i \in D :
          Cardinality(UnitsOf(f, D, most)) = f[i] + Cardinality(UnitsOf(f, D \ {i}, most))
    <3>1. IsFiniteSet(D) /\ D \in SUBSET D
      BY <1>3
    <3> HIDE DEF D
    <3> QED
      BY <3>1, UnitsOfOne
  <2>3. Cardinality(UnitsOf(t, D, most)) = t[n + 1] + Cardinality(UnitsOf(t, D \ {n + 1}, most))
    <3>1. t \in [D -> 0..most] /\ n + 1 \in D
      BY <1>2, <2>1
    <3> HIDE DEF D
    <3> QED
      BY <2>2, <3>1
  <2> QED
    BY <1>2, <1>3, <2>3
<1>7. UnitsOf(t, 1..n, most) = UnitsOf(s, 1..n, most)
  BY <1>1, <1>2 DEF UnitsOf
<1> QED
  BY <1>4, <1>5, <1>6, <1>7 DEF t

LEMMA SumOfNone == Sum2(<< >>) = 0
<1>1. IsFiniteSet({}) /\ << >> \in [{} -> 0..0]
  BY FS_EmptySet
<1>2. Sum2(<< >>) = Cardinality(UnitsOf(<< >>, {}, 0))
  BY <1>1, TotalIs DEF Sum2, Total
<1>3. UnitsOf(<< >>, {}, 0) = {}
  BY DEF UnitsOf
<1> QED
  BY <1>2, <1>3, FS_EmptySet

\* What a sequence of sequences is flattened by: the first of them, the first
\* two, and so on.
Joins(h, s, n) ==
  h = [i \in 1..n |-> IF i = 1 THEN s[i] ELSE h[i - 1] \o s[i]]

LEMMA JoinsAgree ==
  \A n, m \in Nat : \A s, t, h, g :
    /\ Joins(h, s, n) /\ Joins(g, t, m)
    /\ n <= m /\ \A i \in 1..n : s[i] = t[i]
    => \A i \in 1..n : h[i] = g[i]
<1> TAKE n, m \in Nat
<1> TAKE s, t, h, g
<1> SUFFICES ASSUME Joins(h, s, n), Joins(g, t, m), n <= m, \A i \in 1..n : s[i] = t[i]
             PROVE  \A i \in 1..n : h[i] = g[i]
  OBVIOUS
<1> DEFINE bad == {i \in 1..n : h[i] # g[i]}
<1>1. /\ \A i \in 1..n : h[i] = IF i = 1 THEN s[i] ELSE h[i - 1] \o s[i]
      /\ \A i \in 1..m : g[i] = IF i = 1 THEN t[i] ELSE g[i - 1] \o t[i]
  <2>1. \A i \in 1..n : h[i] = IF i = 1 THEN s[i] ELSE h[i - 1] \o s[i]
    BY DEF Joins
  <2>2. \A i \in 1..m : g[i] = IF i = 1 THEN t[i] ELSE g[i - 1] \o t[i]
    BY DEF Joins
  <2> QED
    BY <2>1, <2>2
<1> SUFFICES ASSUME bad # {} PROVE FALSE
  OBVIOUS
<1> DEFINE k == Min(bad)
<1>2. k \in bad /\ \A i \in bad : k <= i
  <2>1. bad \in SUBSET (1..n)
    OBVIOUS
  <2> HIDE DEF bad
  <2> QED
    BY <2>1, OldestIs
<1> HIDE DEF k
<1>3. k \in 1..n /\ k \in 1..m /\ h[k] # g[k] /\ k \in Nat
  BY <1>2
<1>4. k # 1
  BY <1>1, <1>3
<1>5. k - 1 \in 1..n /\ k - 1 \notin bad
  BY <1>2, <1>3, <1>4
<1>6. h[k - 1] = g[k - 1]
  BY <1>5
<1> QED
  BY <1>1, <1>3, <1>4, <1>6

LEMMA JoinsExist ==
  ASSUME NEW S, NEW s \in Seq(Seq(S)), NEW n \in 0..Len(s)
  PROVE  \E h \in [1..n -> Seq(S)] : Joins(h, s, n)
<1> DEFINE Good(m) == \E h \in [1..m -> Seq(S)] : Joins(h, s, m)
           bad == {m \in 1..Len(s) : ~Good(m)}
<1>1. Good(0)
  <2> DEFINE h == [i \in 1..0 |-> << >>]
  <2>1. h \in [1..0 -> Seq(S)] /\ h = [i \in 1..0 |-> IF i = 1 THEN s[i] ELSE h[i - 1] \o s[i]]
    OBVIOUS
  <2> QED
    BY <2>1 DEF Joins
<1>2. ASSUME NEW m \in 0..(Len(s) - 1), Good(m) PROVE Good(m + 1)
  <2>1. PICK h \in [1..m -> Seq(S)] : Joins(h, s, m)
    BY <1>2
  <2> DEFINE x == IF m = 0 THEN s[1] ELSE h[m] \o s[m + 1]
             g == [i \in 1..(m + 1) |-> IF i = m + 1 THEN x ELSE h[i]]
  <2>2. m \in Nat /\ m + 1 \in 1..Len(s) /\ 1 \in 1..Len(s)
    BY <1>2
  <2>3. x \in Seq(S)
    <3>1. s[1] \in Seq(S) /\ s[m + 1] \in Seq(S)
      BY <2>2
    <3>2. m # 0 => h[m] \in Seq(S)
      BY <2>2
    <3>3. \A u, v \in Seq(S) : u \o v \in Seq(S)
      OBVIOUS
    <3> QED
      BY <3>1, <3>2, <3>3
  <2>4. g \in [1..(m + 1) -> Seq(S)]
    <3>1. \A i \in 1..(m + 1) : i # m + 1 => i \in 1..m
      BY <2>2
    <3> HIDE DEF x
    <3> QED
      BY <2>3, <3>1
  <2>5. \A i \in 1..m : h[i] = IF i = 1 THEN s[i] ELSE h[i - 1] \o s[i]
    BY <2>1 DEF Joins
  <2>6. \A i \in 1..(m + 1) : g[i] = IF i = 1 THEN s[i] ELSE g[i - 1] \o s[i]
    <3> TAKE i \in 1..(m + 1)
    <3>1. CASE i = m + 1 /\ m = 0
      BY <3>1, <2>2
    <3>2. CASE i = m + 1 /\ m # 0
      <4>1. g[i - 1] = h[m] /\ i # 1
        BY <2>2, <3>2
      <4>2. g[i] = h[m] \o s[m + 1]
        BY <3>2
      <4> QED
        BY <3>2, <4>1, <4>2
    <3>3. CASE i # m + 1
      <4>1. i \in 1..m /\ (i # 1 => i - 1 \in 1..m)
        BY <2>2, <3>3
      <4>2. g[i] = h[i] /\ (i # 1 => g[i - 1] = h[i - 1])
        BY <2>2, <3>3, <4>1
      <4> HIDE DEF g
      <4> QED
        BY <2>5, <4>1, <4>2
    <3> QED
      BY <3>1, <3>2, <3>3
  <2>7. DOMAIN g = 1..(m + 1)
    OBVIOUS
  <2>8. g = [i \in 1..(m + 1) |-> g[i]]
    OBVIOUS
  <2> HIDE DEF g
  <2>9. Joins(g, s, m + 1)
    BY <2>6, <2>8 DEF Joins
  <2> QED
    BY <2>4, <2>9
<1> HIDE DEF Good
<1>3. bad = {}
  <2> SUFFICES ASSUME bad # {} PROVE FALSE
    OBVIOUS
  <2> DEFINE k == Min(bad)
  <2>1. k \in bad /\ \A i \in bad : k <= i
    <3>1. bad \in SUBSET (1..Len(s)) /\ Len(s) \in Nat
      OBVIOUS
    <3> HIDE DEF bad
    <3> QED
      BY <3>1, OldestIs
  <2> HIDE DEF k
  <2>2. k \in 1..Len(s) /\ ~Good(k) /\ k - 1 \in 0..(Len(s) - 1)
    BY <2>1
  <2>3. Good(k - 1)
    <3>1. k - 1 = 0 \/ k - 1 \in 1..Len(s)
      BY <2>2
    <3>2. k - 1 \notin bad
      BY <2>1, <2>2
    <3> QED
      BY <1>1, <3>1, <3>2
  <2>4. Good((k - 1) + 1) /\ (k - 1) + 1 = k
    BY <1>2, <2>2, <2>3
  <2> QED
    BY <2>2, <2>4
<1>4. Good(n)
  BY <1>1, <1>3
<1> QED
  BY <1>4 DEF Good

\* Flattening one sequence more appends it.
LEMMA FlattenMore ==
  ASSUME NEW S, NEW s \in Seq(Seq(S)), NEW x \in Seq(S)
  PROVE  /\ FlattenSeq(s) \in Seq(S)
         /\ FlattenSeq(Append(s, x)) = FlattenSeq(s) \o x
<1> DEFINE n == Len(s)
           t == Append(s, x)
           h == CHOOSE h : h = [i \in 1..n |-> IF i = 1 THEN s[i] ELSE h[i - 1] \o s[i]]
           g == CHOOSE g : g = [i \in 1..(n + 1) |-> IF i = 1 THEN t[i] ELSE g[i - 1] \o t[i]]
<1>1. n \in Nat /\ t \in Seq(Seq(S)) /\ Len(t) = n + 1 /\ t[n + 1] = x
      /\ \A i \in 1..n : t[i] = s[i]
  OBVIOUS
<1> HIDE DEF t, n
<1>2. Joins(h, s, n)
  <2>1. \E k : Joins(k, s, n)
    <3>1. n \in 0..Len(s)
      BY <1>1 DEF n
    <3> QED
      BY <3>1, JoinsExist
  <2> QED
    BY <2>1 DEF Joins
<1>3. Joins(g, t, n + 1)
  <2>1. \E k : Joins(k, t, n + 1)
    <3>1. n + 1 \in 0..Len(t)
      BY <1>1
    <3> QED
      BY <1>1, <3>1, JoinsExist
  <2> QED
    BY <2>1 DEF Joins
<1>4. FlattenSeq(s) = IF n = 0 THEN s ELSE h[n]
  BY DEF FlattenSeq, n
<1>5. FlattenSeq(t) = g[n + 1]
  <2>1. FlattenSeq(t) = IF Len(t) = 0 THEN t ELSE
           (CHOOSE k : k = [i \in 1..Len(t) |-> IF i = 1 THEN t[i] ELSE k[i - 1] \o t[i]])[Len(t)]
    BY DEF FlattenSeq
  <2> QED
    BY <1>1, <2>1
<1> HIDE DEF h, g
<1>6. \A i \in 1..n : h[i] = g[i]
  <2> DEFINE m == n + 1
  <2>1. m \in Nat /\ n <= m /\ \A i \in 1..n : s[i] = t[i]
    BY <1>1
  <2>2. Joins(g, t, m)
    BY <1>3
  <2> HIDE DEF m
  <2>3. n \in Nat
    BY <1>1
  <2>4. n <= m /\ (\A i \in 1..n : s[i] = t[i]) => \A i \in 1..n : h[i] = g[i]
    BY <1>2, <2>1, <2>2, <2>3, JoinsAgree
  <2> QED
    BY <2>1, <2>4
<1>7. g[n + 1] = IF n = 0 THEN x ELSE g[n] \o x
  <2>1. \A i \in 1..(n + 1) : g[i] = IF i = 1 THEN t[i] ELSE g[i - 1] \o t[i]
    BY <1>3 DEF Joins
  <2>2. g[n + 1] = IF n + 1 = 1 THEN t[n + 1] ELSE g[(n + 1) - 1] \o t[n + 1]
    BY <1>1, <2>1
  <2> QED
    BY <1>1, <2>2
<1>8. n # 0 => h[n] \in Seq(S)
  <2>0. n \in 0..Len(s) /\ n <= n
    BY <1>1 DEF n
  <2>1. PICK k \in [1..n -> Seq(S)] : Joins(k, s, n)
    BY <2>0, JoinsExist
  <2>2. \A i \in 1..n : h[i] = k[i]
    BY <1>1, <1>2, <2>0, <2>1, JoinsAgree
  <2> QED
    BY <1>1, <2>2
<1>9. CASE n = 0
  <2>1. s = << >>
    BY <1>9 DEF n
  <2> QED
    BY <1>4, <1>5, <1>7, <1>9, <2>1 DEF t
<1>10. CASE n # 0
  <2>1. g[n] = h[n]
    <3>1. n \in 1..n
      BY <1>1, <1>10
    <3> QED
      BY <1>6, <3>1
  <2> QED
    BY <1>4, <1>5, <1>7, <1>8, <1>10, <2>1 DEF t
<1> QED
  BY <1>9, <1>10

PieceType == [line : Nat, from : Nat, to : Nat]

\* What has been written of the lines s, up to place a: each piece lies in its
\* line, follows the one before it, and is the whole of a line short enough for
\* a body of b characters.
Written(all, a, s, b) ==
  /\ \A i \in 1..Len(all) :
       /\ all[i].line \in 1..Len(s)
       /\ 1 <= all[i].from /\ all[i].from <= all[i].to /\ all[i].to <= s[all[i].line]
       /\ s[all[i].line] <= b => all[i].from = 1 /\ all[i].to = s[all[i].line]
  /\ \A i \in 1..(Len(all) - 1) :
       IF all[i].to < s[all[i].line]
         THEN all[i + 1].line = all[i].line /\ all[i + 1].from = all[i].to + 1
         ELSE all[i + 1].line = all[i].line + 1 /\ all[i + 1].from = 1
  /\ IF Len(all) = 0
       THEN a = [line |-> 1, written |-> 0]
       ELSE /\ all[1].line = 1 /\ all[1].from = 1
            /\ a = IF all[Len(all)].to < s[all[Len(all)].line]
                     THEN [line |-> all[Len(all)].line, written |-> all[Len(all)].to]
                     ELSE [line |-> all[Len(all)].line + 1, written |-> 0]
  /\ a.line \in 1..(Len(s) + 1)
  /\ a.line <= Len(s) => a.written < s[a.line]
  /\ a.line <= Len(s) /\ s[a.line] <= b => a.written = 0

\* The piece of so many characters from place a, and the place after it.
PieceAt(a, chars) == [line |-> a.line, from |-> a.written + 1, to |-> a.written + chars]

AfterPiece(a, chars, s) ==
  IF chars = s[a.line] - a.written THEN [line |-> a.line + 1, written |-> 0]
                                   ELSE [a EXCEPT !.written = @ + chars]

LEMMA WrittenMore ==
  ASSUME NEW s \in Seq(Nat \ {0}), NEW b \in Nat,
         NEW all \in Seq(PieceType), NEW a \in [line : Nat, written : Nat],
         NEW chars \in Nat \ {0}
  PROVE  /\ Written(all, a, s, b) /\ a.line <= Len(s)
         /\ chars <= s[a.line] - a.written
         /\ s[a.line] <= b => chars = s[a.line] - a.written
         => Written(Append(all, PieceAt(a, chars)), AfterPiece(a, chars, s), s, b)
<1>0. SUFFICES
        ASSUME Written(all, a, s, b), a.line <= Len(s), chars <= s[a.line] - a.written,
               s[a.line] <= b => chars = s[a.line] - a.written
        PROVE  Written(Append(all, PieceAt(a, chars)), AfterPiece(a, chars, s), s, b)
  OBVIOUS
<1> DEFINE p == PieceAt(a, chars)
           next == AfterPiece(a, chars, s)
<1> DEFINE t == Append(all, p)
           n == Len(all)
<1>1. a.line \in 1..Len(s) /\ s[a.line] \in Nat /\ a.written \in Nat /\ Len(s) \in Nat
      /\ a.written < s[a.line]
  BY <1>0 DEF Written
<1>2. p \in PieceType /\ p.line = a.line /\ p.from = a.written + 1 /\ p.to = a.written + chars
      /\ p.to \in Nat /\ p.from \in Nat
  BY <1>0, <1>1 DEF PieceType, PieceAt
<1>3. n \in Nat /\ Len(t) = n + 1 /\ t[n + 1] = p /\ \A i \in 1..n : t[i] = all[i]
  BY <1>2
<1>4. next = IF p.to < s[p.line]
               THEN [line |-> p.line, written |-> p.to]
               ELSE [line |-> p.line + 1, written |-> 0]
  <2>1. CASE chars = s[a.line] - a.written
    <3>1. next = [line |-> a.line + 1, written |-> 0]
      BY <2>1 DEF AfterPiece, next
    <3>2. ~(p.to < s[p.line])
      BY <1>1, <1>2, <2>1
    <3> QED
      BY <1>2, <3>1, <3>2
  <2>2. CASE chars # s[a.line] - a.written
    <3>1. next = [a EXCEPT !.written = @ + chars]
      BY <2>2 DEF AfterPiece, next
    <3>2. next = [line |-> a.line, written |-> a.written + chars]
      BY <3>1
    <3>3. chars < s[a.line] - a.written
      <4>1. chars <= s[a.line] - a.written
        BY <1>0
      <4> QED
        BY <1>1, <2>2, <4>1
    <3>4. p.to < s[p.line]
      <4>1. p.to = a.written + chars /\ p.line = a.line
        BY <1>2
      <4> QED
        BY <1>1, <3>3, <4>1
    <3> QED
      BY <1>2, <3>2, <3>4
  <2> QED
    BY <2>1, <2>2
<1> HIDE DEF t, n, p, next
<1>5. \A i \in 1..(n + 1) :
       /\ t[i].line \in 1..Len(s)
       /\ 1 <= t[i].from /\ t[i].from <= t[i].to /\ t[i].to <= s[t[i].line]
       /\ s[t[i].line] <= b => t[i].from = 1 /\ t[i].to = s[t[i].line]
  <2> TAKE i \in 1..(n + 1)
  <2>1. CASE i = n + 1
    <3>1. s[a.line] <= b => a.written = 0
      BY <1>0 DEF Written
    <3>2. t[i] = p
      BY <1>3, <2>1
    <3>3. chars <= s[a.line] - a.written /\ (s[a.line] <= b => chars = s[a.line] - a.written)
      BY <1>0
    <3>4. /\ p.line \in 1..Len(s)
          /\ 1 <= p.from /\ p.from <= p.to /\ p.to <= s[p.line]
      BY <1>1, <1>2, <3>3
    <3>5. s[p.line] <= b => p.from = 1 /\ p.to = s[p.line]
      BY <1>1, <1>2, <3>1, <3>3
    <3> QED
      BY <3>2, <3>4, <3>5
  <2>2. CASE i # n + 1
    <3>1. i \in 1..n /\ t[i] = all[i]
      BY <1>3, <2>2
    <3> QED
      BY <1>0, <3>1 DEF Written, n
  <2> QED
    BY <2>1, <2>2
<1>6. \A i \in 1..n :
       IF t[i].to < s[t[i].line]
         THEN t[i + 1].line = t[i].line /\ t[i + 1].from = t[i].to + 1
         ELSE t[i + 1].line = t[i].line + 1 /\ t[i + 1].from = 1
  <2> TAKE i \in 1..n
  <2>1. CASE i = n
    <3>1. n # 0 /\ t[i] = all[n] /\ t[i + 1] = p
      BY <1>3, <2>1
    <3>2. a = IF all[n].to < s[all[n].line]
                THEN [line |-> all[n].line, written |-> all[n].to]
                ELSE [line |-> all[n].line + 1, written |-> 0]
      BY <1>0, <3>1 DEF Written, n
    <3> QED
      BY <1>2, <3>1, <3>2
  <2>2. CASE i # n
    <3>0. i \in 1..(n - 1) /\ i + 1 \in 1..n
      BY <1>3, <2>2
    <3>1. i \in 1..(n - 1) /\ t[i] = all[i] /\ t[i + 1] = all[i + 1]
      BY <1>3, <3>0
    <3> QED
      BY <1>0, <3>1 DEF Written, n
  <2> QED
    BY <2>1, <2>2
<1>7. t[1].line = 1 /\ t[1].from = 1
  <2>1. CASE n = 0
    <3>1. a = [line |-> 1, written |-> 0]
      BY <1>0, <2>1 DEF Written, n
    <3> QED
      BY <1>2, <1>3, <2>1, <3>1
  <2>2. CASE n # 0
    <3>1. t[1] = all[1]
      BY <1>3, <2>2
    <3> QED
      BY <1>0, <2>2, <3>1 DEF Written, n
  <2> QED
    BY <2>1, <2>2
<1>8. /\ next.line \in 1..(Len(s) + 1)
      /\ next.line <= Len(s) => next.written < s[next.line]
      /\ next.line <= Len(s) /\ s[next.line] <= b => next.written = 0
  <2>1. CASE chars = s[a.line] - a.written
    <3>1. next = [line |-> a.line + 1, written |-> 0]
      BY <2>1 DEF AfterPiece, next
    <3>2. next.line <= Len(s) => s[next.line] \in Nat \ {0}
      BY <1>1, <3>1
    <3> QED
      BY <1>1, <3>1, <3>2
  <2>2. CASE chars # s[a.line] - a.written
    <3>0. next = [a EXCEPT !.written = @ + chars]
      BY <2>2 DEF AfterPiece, next
    <3>1. next.line = a.line /\ next.written = a.written + chars
      BY <3>0
    <3>2. chars <= s[a.line] - a.written /\ ~(s[a.line] <= b)
      BY <1>0, <2>2
    <3>3. a.written + chars < s[a.line]
      <4>1. \A x, w, c \in Nat : c <= x - w /\ c # x - w => w + c < x
        OBVIOUS
      <4> QED
        BY <1>1, <2>2, <3>2, <4>1
    <3> QED
      BY <1>1, <3>1, <3>2, <3>3
  <2> QED
    BY <2>1, <2>2
<1>9. /\ n + 1 # 0 /\ (n + 1) - 1 = n
      /\ t[n + 1] = p
  BY <1>3
<1>10. Written(t, next, s, b)
  BY <1>3, <1>4, <1>5, <1>6, <1>7, <1>8, <1>9 DEF Written
<1> QED
  BY <1>10 DEF t, p, next

\* Pieces of at most b characters.
ShortPieces(b) == {p \in PieceType : Length(p) \in 0..b}

LEMMA UsedMore ==
  ASSUME NEW b \in Nat, NEW s \in Seq(ShortPieces(b)), NEW p \in ShortPieces(b)
  PROVE  Used(s) \in Nat /\ Used(Append(s, p)) = Used(s) + Separator(s) + Length(p)
<1> DEFINE lens == [i \in DOMAIN s |-> Length(s[i])]
           t == Append(s, p)
           more == [i \in DOMAIN t |-> Length(t[i])]
           n == Len(s)
<1>1. n \in Nat /\ DOMAIN s = 1..n /\ \A i \in 1..n : s[i] \in ShortPieces(b)
  OBVIOUS
<1>2. Length(p) \in 0..b /\ \A i \in 1..n : Length(s[i]) \in 0..b
  BY <1>1 DEF ShortPieces
<1>3. lens \in Seq(0..b) /\ Len(lens) = n /\ \A i \in 1..n : lens[i] = Length(s[i])
  <2>1. lens = [i \in 1..n |-> Length(s[i])]
    BY <1>1
  <2> HIDE DEF lens, n
  <2> QED
    BY <1>1, <1>2, <2>1
<1>4. Len(t) = n + 1 /\ DOMAIN t = 1..(n + 1) /\ t[n + 1] = p /\ t # << >>
      /\ \A i \in 1..n : t[i] = s[i]
  <2>1. t \in Seq(ShortPieces(b)) /\ Len(t) = n + 1
    OBVIOUS
  <2>2. t[n + 1] = p /\ \A i \in 1..n : t[i] = s[i]
    OBVIOUS
  <2> HIDE DEF t, n
  <2>3. DOMAIN t = 1..Len(t)
    BY <2>1
  <2> QED
    BY <1>1, <2>1, <2>2, <2>3
<1>5. more = Append(lens, Length(p))
  <2> DEFINE a == Append(lens, Length(p))
             last == Length(p)
  <2> HIDE DEF lens, t, n, last
  <2>0. last \in 0..b
    BY <1>2 DEF last
  <2>1. Append(lens, last) \in Seq(0..b) /\ Len(Append(lens, last)) = n + 1
        /\ Append(lens, last)[n + 1] = last
        /\ \A i \in 1..n : Append(lens, last)[i] = lens[i]
    BY <1>1, <1>3, <2>0
  <2>2. a \in Seq(0..b) /\ Len(a) = n + 1 /\ a[n + 1] = last /\ \A i \in 1..n : a[i] = lens[i]
    BY <2>1 DEF last
  <2> HIDE DEF a
  <2>3. a = [i \in 1..(n + 1) |-> a[i]]
    BY <1>1, <2>2
  <2>4. \A i \in 1..(n + 1) : Length(t[i]) = a[i]
    <3> TAKE i \in 1..(n + 1)
    <3>1. i = n + 1 \/ i \in 1..n
      BY <1>1
    <3> QED
      BY <1>3, <1>4, <2>2, <3>1 DEF last
  <2>5. more = [i \in 1..(n + 1) |-> Length(t[i])]
    BY <1>4
  <2>6. more = a
    BY <2>3, <2>4, <2>5
  <2> QED
    BY <2>6 DEF a
<1>6. Sum2(lens) \in Nat /\ Sum2(more) = Sum2(lens) + Length(p)
  <2> DEFINE last == Length(p)
  <2>1. last \in 0..b
    BY <1>2
  <2> HIDE DEF lens, more, last
  <2>2. Sum2(lens) \in Nat /\ Sum2(Append(lens, last)) = Sum2(lens) + last
    BY <1>3, <2>1, SumOfMore
  <2> QED
    BY <1>5, <2>2 DEF last
<1>7. Used(s) = Sum2(lens) + (IF s = << >> THEN 0 ELSE n - 1)
  BY DEF Used
<1>8. Used(t) = Sum2(more) + n
  <2>1. Used(t) = Sum2(more) + (IF t = << >> THEN 0 ELSE Len(t) - 1)
    BY DEF Used
  <2> HIDE DEF t, more, n
  <2> QED
    BY <1>1, <1>4, <2>1
<1>9. (s = << >> <=> n = 0) /\ Separator(s) = IF s = << >> THEN 0 ELSE 1
  BY DEF Separator
<1>10. Used(s) \in Nat /\ Used(t) = Used(s) + Separator(s) + Length(p)
  <2> DEFINE last == Length(p)
             x == Sum2(lens)
             y == Sum2(more)
  <2>0. last \in 0..b /\ x \in Nat /\ y = x + last
    BY <1>2, <1>6, Zenon
  <2>1. last \in Nat /\ x \in Nat /\ y = x + last
    <3> HIDE DEF last, x, y
    <3> QED
      BY <2>0
  <2>2. Used(s) = x + (IF s = << >> THEN 0 ELSE n - 1) /\ Used(t) = y + n
    BY <1>7, <1>8
  <2> HIDE DEF last, x, y, n, t, lens, more
  <2>3. Used(s) \in Nat /\ Used(t) = Used(s) + Separator(s) + last
    BY <1>1, <1>9, <2>1, <2>2
  <2> QED
    BY <2>3 DEF last
<1> QED
  BY <1>10

LEMMA UsedNone == Used(<< >>) = 0
<1>1. [i \in DOMAIN << >> |-> Length(<< >>[i])] = << >>
  OBVIOUS
<1> QED
  BY <1>1, SumOfNone DEF Used

Whole == [i \in DOMAIN script |-> [line |-> i, from |-> 1, to |-> script[i]]]

AllPieces == FlattenSeq(chunks) \o body

\* What the loop of chunk has written is sound, body by body.
BodiesInv ==
  /\ body \in Seq(ShortPieces(Budget)) /\ chunks \in Seq(Seq(ShortPieces(Budget)))
  /\ Used(body) <= Budget
  /\ \A i \in 1..Len(chunks) : Used(chunks[i]) <= Budget
  /\ Written(AllPieces, at, script, Budget)
  /\ done => at.line > Len(script) /\ body = << >>

TextsParams ==
  /\ limit \in Limits /\ kind \in {"transcript", "update"} /\ script \in Scripts
  /\ done \in BOOLEAN /\ at \in [line : Nat, written : Nat]

TextsInv ==
  /\ TextsParams
  /\ FitsInOne => body = << >>
  /\ IF done /\ FitsInOne THEN chunks = <<Whole>> ELSE BodiesInv

LEMMA BudgetIs ==
  ASSUME TextsParams
  PROVE  Budget \in Nat \ {0} /\ script \in Seq(Nat \ {0}) /\ limit \in Nat /\ Header \in Nat
         /\ Budget = IF kind = "transcript" THEN limit - Header - 14 ELSE limit - Header - 1
<1>1. limit \in Nat /\ limit > Header + 14 /\ Header \in Nat /\ script \in Seq(Nat \ {0})
  BY TextsAssumption DEF TextsParams, LongestPart
<1> QED
  BY <1>1 DEF Budget, LongestPart

\* The lines and the limit stay.
LEMMA TextStays ==
  ASSUME UNCHANGED <<limit, kind, script>>
  PROVE  /\ Budget' = Budget /\ (FitsInOne' <=> FitsInOne)
         /\ \A b : Used(b)' = Used(b)
  BY DEF Budget, FitsInOne

LEMMA UsedIsNat == ASSUME NEW b \in Nat, NEW s \in Seq(ShortPieces(b)) PROVE Used(s) \in Nat
<1> DEFINE p == [line |-> 0, from |-> 1, to |-> 0]
<1>1. p \in ShortPieces(b)
  BY DEF ShortPieces, PieceType, Length
<1> HIDE DEF p
<1> QED
  BY <1>1, UsedMore

LEMMA TextsStarts == ASSUME TextsInit PROVE TextsInv
<1>1. TextsParams
  BY DEF TextsInit, TextsParams
<1>2. Budget \in Nat \ {0} /\ script \in Seq(Nat \ {0})
  BY <1>1, BudgetIs
<1>3. body = << >> /\ chunks = << >> /\ done = FALSE /\ at = [line |-> 1, written |-> 0]
  BY DEF TextsInit
<1>4. AllPieces = << >>
  BY <1>3 DEF AllPieces, FlattenSeq
<1>5. Written(AllPieces, at, script, Budget)
  <2>1. Len(script) \in Nat /\ (1 <= Len(script) => script[1] \in Nat \ {0})
    BY <1>2
  <2>2. Len(AllPieces) = 0
    BY <1>4
  <2> QED
    BY <1>3, <2>1, <2>2 DEF Written
<1>6. Used(body) <= Budget
  BY <1>2, <1>3, UsedNone
<1>7. BodiesInv
  BY <1>3, <1>5, <1>6 DEF BodiesInv
<1> QED
  BY <1>1, <1>3, <1>7 DEF TextsInv

LEMMA WriteWholeKeeps == ASSUME TextsInv, WriteWhole PROVE TextsInv'
<1>1. done' = TRUE /\ FitsInOne /\ UNCHANGED <<limit, kind, script, at, body>> /\ ~done
      /\ chunks' = <<Whole>>
  BY DEF WriteWhole, Whole
<1>2. TextsParams'
  BY <1>1 DEF TextsInv, TextsParams
<1>3. FitsInOne' /\ Whole' = Whole
  BY <1>1, TextStays DEF Whole
<1>4. body' = << >>
  BY <1>1 DEF TextsInv
<1> QED
  BY <1>1, <1>2, <1>3, <1>4 DEF TextsInv

\* The body is full, or the last one.
LEMMA ClosingABodyKeeps ==
  ASSUME TextsInv, ~FitsInOne, ~done, UNCHANGED <<limit, kind, script, at>>,
         chunks' = Append(chunks, body), body' = << >>,
         done' \in BOOLEAN, done' => at.line > Len(script)
  PROVE  TextsInv'
<1>1. /\ UNCHANGED <<limit, kind, script, at>> /\ ~done
      /\ done' \in BOOLEAN /\ (done' => at.line > Len(script))
      /\ chunks' = Append(chunks, body) /\ body' = << >>
  OBVIOUS
<1>2. TextsParams /\ BodiesInv
  BY DEF TextsInv
<1>3. Budget' = Budget /\ ~FitsInOne' /\ (\A b : Used(b)' = Used(b)) /\ Budget \in Nat \ {0}
  BY <1>1, <1>2, TextStays, BudgetIs
<1>4. TextsParams'
  BY <1>1, <1>2 DEF TextsParams
<1> DEFINE S == ShortPieces(Budget)
<1>5. ShortPieces(Budget)' = S
  BY <1>3 DEF ShortPieces, Length
<1>6. body \in Seq(S) /\ chunks \in Seq(Seq(S)) /\ Used(body) <= Budget
      /\ \A i \in 1..Len(chunks) : Used(chunks[i]) <= Budget
  BY <1>2 DEF BodiesInv
<1>7. body' \in Seq(S) /\ chunks' \in Seq(Seq(S))
  <2> HIDE DEF S
  <2> QED
    BY <1>1, <1>6
<1>8. Used(body') <= Budget
  BY <1>1, <1>3, UsedNone
<1>9. \A i \in 1..Len(chunks') : Used(chunks'[i]) <= Budget
  <2> HIDE DEF S
  <2>1. Len(chunks') = Len(chunks) + 1 /\ chunks'[Len(chunks) + 1] = body
        /\ \A i \in 1..Len(chunks) : chunks'[i] = chunks[i]
    BY <1>1, <1>6
  <2>2. \A i \in 1..(Len(chunks) + 1) : i = Len(chunks) + 1 \/ i \in 1..Len(chunks)
    BY <1>6
  <2> QED
    BY <1>6, <2>1, <2>2
<1>10. AllPieces' = AllPieces
  <2>1. /\ FlattenSeq(chunks) \in Seq(S)
        /\ FlattenSeq(Append(chunks, body)) = FlattenSeq(chunks) \o body
    <3> HIDE DEF S
    <3> QED
      BY <1>6, FlattenMore
  <2>2. \A u, v \in Seq(S) : (u \o v) \o << >> = u \o v
    <3> HIDE DEF S
    <3> QED
      OBVIOUS
  <2> QED
    BY <1>1, <1>6, <2>1, <2>2 DEF AllPieces
<1>11. Written(AllPieces, at, script, Budget)'
  BY <1>1, <1>2, <1>3, <1>10 DEF BodiesInv, Written
<1>12. BodiesInv'
  BY <1>1, <1>3, <1>5, <1>7, <1>8, <1>9, <1>11 DEF BodiesInv
<1> QED
  BY <1>3, <1>4, <1>12 DEF TextsInv

LEMMA FlushKeeps == ASSUME TextsInv, ~FitsInOne, Flush PROVE TextsInv'
<1>1. done \in BOOLEAN
  BY DEF TextsInv, TextsParams
<1> QED
  BY <1>1, ClosingABodyKeeps DEF Flush, InLoop

LEMMA FinishTextKeeps == ASSUME TextsInv, ~FitsInOne, Finish PROVE TextsInv'
  BY ClosingABodyKeeps DEF Finish

LEMMA PlaceIs ==
  ASSUME NEW all, NEW a, NEW s, NEW b, Written(all, a, s, b)
  PROVE  /\ a.line \in 1..(Len(s) + 1)
         /\ a.line <= Len(s) => a.written < s[a.line]
         /\ a.line <= Len(s) /\ s[a.line] <= b => a.written = 0
<1>1. a.line \in 1..(Len(s) + 1)
  BY Zenon DEF Written
<1>2. a.line <= Len(s) => a.written < s[a.line]
  BY Zenon DEF Written
<1>3. a.line <= Len(s) /\ s[a.line] <= b => a.written = 0
  BY Zenon DEF Written
<1> QED
  BY <1>1, <1>2, <1>3

LEMMA TakeKeeps == ASSUME TextsInv, ~FitsInOne, Take PROVE TextsInv'
<1> DEFINE chars == IF Left < Room THEN Left ELSE Room
           p == [line |-> at.line, from |-> at.written + 1, to |-> at.written + chars]
           S == ShortPieces(Budget)
<1>1. /\ UNCHANGED <<limit, kind, script, chunks, done>> /\ ~done /\ at.line <= Len(script)
      /\ ~StartsNext /\ body' = Append(body, p)
      /\ at' = IF chars = Left THEN [line |-> at.line + 1, written |-> 0]
                               ELSE [at EXCEPT !.written = @ + chars]
  BY DEF Take, InLoop
<1>2. TextsParams /\ BodiesInv
  BY DEF TextsInv
<1>3. Budget' = Budget /\ ~FitsInOne' /\ (\A b : Used(b)' = Used(b)) /\ Budget \in Nat \ {0}
      /\ script \in Seq(Nat \ {0})
  BY <1>1, <1>2, TextStays, BudgetIs
<1>4. ShortPieces(Budget)' = S
  BY <1>3 DEF ShortPieces, Length
<1>5. /\ body \in Seq(S) /\ chunks \in Seq(Seq(S)) /\ Used(body) <= Budget
      /\ \A i \in 1..Len(chunks) : Used(chunks[i]) <= Budget
      /\ Written(AllPieces, at, script, Budget)
  BY <1>2 DEF BodiesInv
<1>6. at \in [line : Nat, written : Nat] /\ at.line \in 1..Len(script)
      /\ script[at.line] \in Nat /\ at.written < script[at.line]
      /\ (script[at.line] <= Budget => at.written = 0)
  <2>0. /\ at.line \in 1..(Len(script) + 1)
        /\ at.line <= Len(script) => at.written < script[at.line]
        /\ at.line <= Len(script) /\ script[at.line] <= Budget => at.written = 0
    BY <1>5, PlaceIs, Zenon
  <2>1. at.line \in 1..(Len(script) + 1) /\ at.written < script[at.line]
        /\ (script[at.line] <= Budget => at.written = 0)
    BY <1>1, <2>0
  <2>2. at \in [line : Nat, written : Nat]
    BY <1>2 DEF TextsParams
  <2> QED
    BY <1>1, <1>3, <2>1, <2>2
<1> HIDE DEF S
<1>7. Left \in Nat \ {0} /\ Left = script[at.line] - at.written
  BY <1>6 DEF Left
<1>8. /\ Used(body) \in Nat /\ Separator(body) \in Nat
      /\ body = << >> => Used(body) = 0 /\ Separator(body) = 0
  BY <1>3, <1>5, UsedIsNat, UsedNone DEF Separator, S
<1>9. /\ Room = IF Budget > Used(body) + Separator(body)
                  THEN Budget - Used(body) - Separator(body) ELSE 0
      /\ Room \in Nat \ {0} /\ (body = << >> \/ Left <= Room \/ ~(Left <= Budget))
  <2>1. Room # 0 /\ (body = << >> \/ ~(Left > Room) \/ ~(Left <= Budget))
    BY <1>1 DEF StartsNext
  <2>2. Room = IF Budget > Used(body) + Separator(body)
                  THEN Budget - Used(body) - Separator(body) ELSE 0
    BY DEF Room
  <2>3. Room \in Nat
    BY <1>3, <1>8, <2>2
  <2> QED
    BY <1>7, <2>1, <2>2, <2>3
<1>10. /\ Room <= Budget /\ Used(body) + Separator(body) + Room = Budget
       /\ (body = << >> => Room = Budget)
  BY <1>3, <1>8, <1>9
<1>11. /\ chars \in Nat \ {0} /\ chars <= Left /\ chars <= Room
       /\ (Left <= Budget => chars = Left)
  BY <1>3, <1>7, <1>9, <1>10
<1>12. /\ chars <= script[at.line] - at.written
       /\ script[at.line] <= Budget => chars = script[at.line] - at.written
       /\ at' = IF chars = script[at.line] - at.written THEN [line |-> at.line + 1, written |-> 0]
                               ELSE [at EXCEPT !.written = @ + chars]
  <2> HIDE DEF chars
  <2> QED
    BY <1>1, <1>3, <1>6, <1>7, <1>11
<1> HIDE DEF chars
<1>13. p \in S /\ Length(p) = chars
  <2>1. chars \in 0..Budget
    BY <1>3, <1>9, <1>10, <1>11
  <2>2. p \in PieceType
    BY <1>6, <1>11 DEF PieceType
  <2>3. p.to = at.written + chars /\ p.from = at.written + 1
    OBVIOUS
  <2>4. Length(p) = chars
    BY <1>6, <1>11, <2>3 DEF Length
  <2> HIDE DEF p
  <2> QED
    BY <2>1, <2>2, <2>4 DEF S, ShortPieces
<1>14. \A u, v \in Seq(S) : \A x \in S : u \o Append(v, x) = Append(u \o v, x)
  OBVIOUS
<1>15. FlattenSeq(chunks) \in Seq(S)
  BY <1>5, FlattenMore
<1>16. AllPieces' = Append(AllPieces, p)
  BY <1>1, <1>5, <1>13, <1>14, <1>15 DEF AllPieces
<1>17. AllPieces \in Seq(PieceType)
  <2>1. AllPieces \in Seq(S)
    <3> HIDE DEF p
    <3>1. \A u, v \in Seq(S) : u \o v \in Seq(S)
      OBVIOUS
    <3> QED
      BY <1>5, <1>15, <3>1 DEF AllPieces
  <2>2. S \subseteq PieceType
    BY DEF S, ShortPieces
  <2> HIDE DEF p
  <2> QED
    BY <2>1, <2>2
<1>18. Written(Append(AllPieces, p), at', script, Budget)
  <2> DEFINE all == AllPieces
             b == Budget
             s == script
             a == at
  <2>1. /\ Written(all, a, s, b) /\ a.line <= Len(s)
        /\ chars <= s[a.line] - a.written
        /\ s[a.line] <= b => chars = s[a.line] - a.written
    BY <1>1, <1>5, <1>12
  <2>2. s \in Seq(Nat \ {0}) /\ b \in Nat /\ all \in Seq(PieceType)
        /\ a \in [line : Nat, written : Nat] /\ chars \in Nat \ {0}
    BY <1>3, <1>6, <1>11, <1>17
  <2> HIDE DEF p, all, b, s, a
  <2>3. Written(Append(all, PieceAt(a, chars)), AfterPiece(a, chars, s), s, b)
    BY <2>1, <2>2, WrittenMore
  <2>4. PieceAt(a, chars) = p /\ AfterPiece(a, chars, s) = at'
    BY <1>12 DEF PieceAt, AfterPiece, p, a, s
  <2> QED
    BY <2>3, <2>4 DEF all, b, s
<1>19. Written(AllPieces, at, script, Budget)'
  <2>1. Written(AllPieces', at', script, Budget)
    BY <1>16, <1>18
  <2> QED
    BY <1>1, <1>3, <2>1 DEF Written
<1>20. Used(Append(body, p)) = Used(body) + Separator(body) + Length(p)
  <2> DEFINE b == Budget
  <2>1. b \in Nat /\ body \in Seq(ShortPieces(b)) /\ p \in ShortPieces(b)
    BY <1>3, <1>5, <1>13 DEF S
  <2> HIDE DEF b, p
  <2> QED
    BY <2>1, UsedMore
<1>21. Used(body') <= Budget
  <2>1. Used(body') = Used(body) + Separator(body) + chars
    BY <1>1, <1>13, <1>20
  <2>2. \A u, x, r, c \in Nat : c <= r => u + x + c <= u + x + r
    OBVIOUS
  <2> HIDE DEF p
  <2> QED
    BY <1>8, <1>9, <1>10, <1>11, <2>1, <2>2
<1>22. body' \in Seq(S)
  <2> HIDE DEF p
  <2> QED
    BY <1>1, <1>5, <1>13
<1>23. at' \in [line : Nat, written : Nat]
  <2>1. CASE chars = script[at.line] - at.written
    BY <1>6, <1>12, <2>1
  <2>2. CASE chars # script[at.line] - at.written
    <3>1. at' = [at EXCEPT !.written = @ + chars]
      BY <1>12, <2>2
    <3> QED
      BY <1>6, <1>11, <3>1
  <2> QED
    BY <2>1, <2>2
<1> HIDE DEF p
<1>24. TextsParams'
  BY <1>1, <1>2, <1>23 DEF TextsParams
<1>25. \A i \in 1..Len(chunks') : Used(chunks'[i]) <= Budget'
  BY <1>1, <1>3, <1>5
<1>26. BodiesInv'
  BY <1>1, <1>3, <1>4, <1>5, <1>19, <1>21, <1>22, <1>25 DEF BodiesInv
<1> QED
  BY <1>3, <1>24, <1>26 DEF TextsInv

LEMMA TextsKeep == ASSUME TextsInv, [TextsNext]_textsVars PROVE TextsInv'
<1>1. CASE UNCHANGED textsVars
  <2>1. UNCHANGED <<limit, kind, script, at, body, chunks, done>>
    BY <1>1 DEF textsVars
  <2>2. Budget' = Budget /\ (FitsInOne' <=> FitsInOne) /\ \A b : Used(b)' = Used(b)
    BY <2>1, TextStays
  <2>3. TextsParams' <=> TextsParams
    BY <2>1 DEF TextsParams
  <2>4. BodiesInv' <=> BodiesInv
    <3>1. ShortPieces(Budget)' = ShortPieces(Budget)
      BY <2>2 DEF ShortPieces, Length
    <3>2. Written(AllPieces, at, script, Budget)' <=> Written(AllPieces, at, script, Budget)
      BY <2>1, <2>2 DEF AllPieces, Written
    <3> QED
      BY <2>1, <2>2, <3>1, <3>2 DEF BodiesInv
  <2>5. Whole' = Whole
    BY <2>1 DEF Whole
  <2> QED
    BY <2>1, <2>2, <2>3, <2>4, <2>5 DEF TextsInv
<1>2. CASE WriteWhole
  BY <1>2, WriteWholeKeeps
<1>3. CASE ~FitsInOne /\ Flush
  BY <1>3, FlushKeeps
<1>4. CASE ~FitsInOne /\ Take
  BY <1>4, TakeKeeps
<1>5. CASE ~FitsInOne /\ Finish
  BY <1>5, FinishTextKeeps
<1> QED
  BY <1>1, <1>2, <1>3, <1>4, <1>5 DEF TextsNext

\* A line short enough is one piece.
LEMMA ShortAreWhole ==
  ASSUME NEW s \in Seq(Nat \ {0}), NEW b \in Nat, NEW all, NEW a, Written(all, a, s, b)
  PROVE  \A i \in 1..Len(all) : s[all[i].line] <= b => Length(all[i]) = s[all[i].line]
<1> TAKE i \in 1..Len(all)
<1>1. HAVE s[all[i].line] <= b
<1>2. all[i].line \in 1..Len(s) /\ all[i].from = 1 /\ all[i].to = s[all[i].line]
  BY <1>1, Zenon DEF Written
<1>3. s[all[i].line] \in Nat
  BY <1>2
<1> QED
  BY <1>2, <1>3 DEF Length

\* What all those pieces amount to.
LEMMA WrittenIsSound ==
  ASSUME NEW s \in Seq(Nat \ {0}), NEW b \in Nat, NEW all \in Seq(PieceType),
         NEW a \in [line : Nat, written : Nat], Written(all, a, s, b), a.line > Len(s)
  PROVE  /\ \A i \in 1..(Len(all) - 1) :
              IF all[i].to < s[all[i].line]
                THEN all[i + 1].line = all[i].line /\ all[i + 1].from = all[i].to + 1
                ELSE all[i + 1].line = all[i].line + 1 /\ all[i + 1].from = 1
         /\ all = << >> <=> s = << >>
         /\ all # << >> => /\ all[1].line = 1 /\ all[1].from = 1
                           /\ all[Len(all)].line = Len(s)
                           /\ all[Len(all)].to = s[Len(s)]
<1> DEFINE n == Len(all)
<1>1. n \in Nat /\ Len(s) \in Nat /\ (all = << >> <=> n = 0) /\ (s = << >> <=> Len(s) = 0)
  OBVIOUS
<1>2. \A i \in 1..n : /\ all[i].line \in 1..Len(s) /\ all[i].to <= s[all[i].line]
                      /\ s[all[i].line] <= b => all[i].from = 1 /\ all[i].to = s[all[i].line]
  BY DEF Written
<1>3. a.line = Len(s) + 1
  <2>1. a.line \in 1..(Len(s) + 1)
    BY PlaceIs, Zenon
  <2> QED
    BY <1>1, <2>1
<1>4. ASSUME n = 0 PROVE Len(s) = 0
  <2>1. a = [line |-> 1, written |-> 0]
    BY <1>4 DEF Written
  <2> QED
    BY <1>1, <1>3, <2>1
<1>5. ASSUME n # 0 PROVE /\ all[1].line = 1 /\ all[1].from = 1
                         /\ all[n].line = Len(s) /\ all[n].to = s[Len(s)] /\ Len(s) # 0
  <2>1. /\ all[1].line = 1 /\ all[1].from = 1
        /\ a = IF all[n].to < s[all[n].line]
                 THEN [line |-> all[n].line, written |-> all[n].to]
                 ELSE [line |-> all[n].line + 1, written |-> 0]
    BY <1>5 DEF Written
  <2>2. n \in 1..n /\ all[n] \in PieceType
    BY <1>1, <1>5
  <2>3. all[n].line \in 1..Len(s) /\ all[n].to <= s[all[n].line] /\ all[n].to \in Nat
        /\ s[all[n].line] \in Nat
    <3>1. all[n].line \in 1..Len(s) /\ all[n].to <= s[all[n].line]
      BY <1>2, <2>2
    <3>2. all[n].to \in Nat
      BY <2>2 DEF PieceType
    <3>3. s[all[n].line] \in Nat
      BY <3>1
    <3> QED
      BY <3>1, <3>2, <3>3
  <2>4. ~(all[n].to < s[all[n].line])
    <3> SUFFICES ASSUME all[n].to < s[all[n].line] PROVE FALSE
      OBVIOUS
    <3>1. a.line = all[n].line
      BY <2>1
    <3> QED
      BY <1>1, <1>3, <2>3, <3>1
  <2>5. a.line = all[n].line + 1
    BY <2>1, <2>4
  <2>6. all[n].line = Len(s)
    BY <1>1, <1>3, <2>3, <2>5
  <2>7. all[n].to = s[all[n].line]
    BY <2>3, <2>4
  <2> QED
    BY <1>1, <2>1, <2>3, <2>6, <2>7
<1>6. \A i \in 1..(n - 1) :
        IF all[i].to < s[all[i].line]
          THEN all[i + 1].line = all[i].line /\ all[i + 1].from = all[i].to + 1
          ELSE all[i + 1].line = all[i].line + 1 /\ all[i + 1].from = 1
  BY Zenon DEF Written
<1> QED
  BY <1>1, <1>4, <1>5, <1>6

LEMMA FlattenOne == ASSUME NEW S, NEW x \in Seq(S) PROVE FlattenSeq(<<x>>) = x
<1>1. << >> \in Seq(Seq(S)) /\ Append(<< >>, x) = <<x>> /\ << >> \o x = x
  OBVIOUS
<1>2. FlattenSeq(<< >>) = << >>
  BY DEF FlattenSeq
<1>3. FlattenSeq(Append(<< >>, x)) = FlattenSeq(<< >>) \o x
  BY <1>1, FlattenMore
<1> QED
  BY <1>1, <1>2, <1>3

LEMMA WholeIsSound == ASSUME TextsInv, done, FitsInOne PROVE DmsAreSound
<1>1. chunks = <<Whole>> /\ TextsParams /\ script \in Seq(Nat \ {0})
  BY BudgetIs DEF TextsInv
<1> DEFINE n == Len(script)
<1>2. n \in Nat /\ (script = << >> <=> n = 0)
      /\ \A i \in 1..n : script[i] \in Nat \ {0}
  BY <1>1
<1>3. /\ Whole \in Seq(PieceType) /\ Len(Whole) = n /\ DOMAIN Whole = 1..n
      /\ \A i \in 1..n : Whole[i] = [line |-> i, from |-> 1, to |-> script[i]]
  <2>1. Whole = [i \in 1..n |-> [line |-> i, from |-> 1, to |-> script[i]]]
    BY <1>1 DEF Whole
  <2> HIDE DEF n
  <2>2. \A i \in 1..n : [line |-> i, from |-> 1, to |-> script[i]] \in PieceType
    BY <1>2 DEF PieceType
  <2> QED
    BY <1>2, <2>1, <2>2
<1>4. Pieces = Whole
  BY <1>1, <1>3, FlattenOne DEF Pieces
<1>5. \A i \in 1..n : Whole[i].line = i /\ Whole[i].from = 1 /\ Whole[i].to = script[i]
  BY <1>3
<1> HIDE DEF n
<1>6. \A i \in 1..(n - 1) :
        /\ ~(Whole[i].to < script[Whole[i].line])
        /\ Whole[i + 1].line = Whole[i].line + 1 /\ Whole[i + 1].from = 1
  <2> TAKE i \in 1..(n - 1)
  <2>1. i \in 1..n /\ i + 1 \in 1..n
    BY <1>2
  <2>2. script[i] \in Nat
    BY <1>2, <2>1
  <2> QED
    BY <1>5, <2>1, <2>2
<1>7. Whole # << >> => n \in 1..n /\ 1 \in 1..n
  BY <1>2, <1>3
<1>8. Whole # << >> => Head(Whole) = Whole[1] /\ Last(Whole) = Whole[n]
  BY <1>3 DEF Last
<1>9. NothingIsCut
  <2>1. Whole = << >> <=> script = << >>
    BY <1>2, <1>3
  <2>2. \A i \in 1..(Len(Whole) - 1) :
          IF Whole[i].to < script[Whole[i].line]
            THEN Whole[i + 1].line = Whole[i].line /\ Whole[i + 1].from = Whole[i].to + 1
            ELSE Whole[i + 1].line = Whole[i].line + 1 /\ Whole[i + 1].from = 1
    BY <1>3, <1>6
  <2>3. Whole # << >> => /\ Head(Whole).line = 1 /\ Head(Whole).from = 1
                         /\ Last(Whole).line = n /\ Last(Whole).to = script[n]
    BY <1>5, <1>7, <1>8
  <2> QED
    BY <1>4, <2>1, <2>2, <2>3 DEF NothingIsCut, n
<1>10. ShortLinesStayWhole
  <2>1. \A i \in 1..n : Length(Whole[i]) = script[Whole[i].line]
    BY <1>2, <1>5 DEF Length
  <2> QED
    BY <1>3, <1>4, <2>1 DEF ShortLinesStayWhole
<1>11. DmsFit
  BY DEF DmsFit
<1> QED
  BY <1>9, <1>10, <1>11 DEF DmsAreSound

LEMMA ChunksAreSound == ASSUME TextsInv, ~(done /\ FitsInOne) PROVE DmsAreSound
<1>1. TextsParams /\ BodiesInv
  BY DEF TextsInv
<1>2. Budget \in Nat \ {0} /\ script \in Seq(Nat \ {0}) /\ limit \in Nat /\ Header \in Nat
      /\ Budget = IF kind = "transcript" THEN limit - Header - 14 ELSE limit - Header - 1
  BY <1>1, BudgetIs
<1>3. /\ body \in Seq(ShortPieces(Budget)) /\ chunks \in Seq(Seq(ShortPieces(Budget)))
      /\ \A i \in 1..Len(chunks) : Used(chunks[i]) <= Budget
      /\ Written(AllPieces, at, script, Budget)
      /\ done => at.line > Len(script) /\ body = << >>
  BY <1>1 DEF BodiesInv
<1> DEFINE S == ShortPieces(Budget)
           n == Len(chunks)
<1>4. Pieces \in Seq(S) /\ AllPieces = Pieces \o body
  <2>1. body \in Seq(S) /\ chunks \in Seq(Seq(S))
    BY <1>3
  <2> HIDE DEF S
  <2> QED
    BY <2>1, FlattenMore DEF Pieces, AllPieces
<1>5. Pieces \in Seq(PieceType) /\ body \in Seq(S)
  <2>1. S \subseteq PieceType /\ body \in Seq(S)
    BY <1>3 DEF ShortPieces
  <2> HIDE DEF S
  <2> QED
    BY <1>4, <2>1
<1>6. ShortLinesStayWhole
  <2>1. \A i \in 1..Len(AllPieces) :
          script[AllPieces[i].line] <= Budget => Length(AllPieces[i]) = script[AllPieces[i].line]
    BY <1>2, <1>3, ShortAreWhole
  <2>2. \A u, v \in Seq(S) : /\ DOMAIN u = 1..Len(u) /\ 1..Len(u) \subseteq 1..Len(u \o v)
                             /\ \A i \in 1..Len(u) : (u \o v)[i] = u[i]
    <3> HIDE DEF S
    <3> QED
      OBVIOUS
  <2>3. /\ DOMAIN Pieces = 1..Len(Pieces) /\ 1..Len(Pieces) \subseteq 1..Len(AllPieces)
        /\ \A i \in 1..Len(Pieces) : AllPieces[i] = Pieces[i]
    BY <1>4, <1>5, <2>2
  <2> QED
    BY <2>1, <2>3 DEF ShortLinesStayWhole
<1>7. NothingIsCut
  <2> SUFFICES ASSUME done PROVE NothingIsCut
    BY DEF NothingIsCut
  <2>1. AllPieces = Pieces
    <3>1. \A u \in Seq(S) : u \o << >> = u
      <4> HIDE DEF S
      <4> QED
        OBVIOUS
    <3> QED
      BY <1>3, <1>4, <3>1
  <2>2. Written(Pieces, at, script, Budget) /\ at.line > Len(script)
        /\ at \in [line : Nat, written : Nat]
    BY <1>1, <1>3, <2>1 DEF TextsParams
  <2> DEFINE all == Pieces
  <2>3. /\ \A i \in 1..(Len(all) - 1) :
              IF all[i].to < script[all[i].line]
                THEN all[i + 1].line = all[i].line /\ all[i + 1].from = all[i].to + 1
                ELSE all[i + 1].line = all[i].line + 1 /\ all[i + 1].from = 1
        /\ all = << >> <=> script = << >>
        /\ all # << >> => /\ all[1].line = 1 /\ all[1].from = 1
                          /\ all[Len(all)].line = Len(script)
                          /\ all[Len(all)].to = script[Len(script)]
    <3>1. all \in Seq(PieceType) /\ Written(all, at, script, Budget)
      BY <1>5, <2>2
    <3> HIDE DEF all
    <3> QED
      BY <1>2, <2>2, <3>1, WrittenIsSound
  <2>4. all # << >> => Head(all) = all[1] /\ Last(all) = all[Len(all)]
    BY <1>5 DEF Last
  <2> QED
    BY <2>3, <2>4 DEF NothingIsCut
<1>8. DmsFit
  <2> SUFFICES ASSUME done, ~FitsInOne, NEW i \in DOMAIN chunks
               PROVE  HeaderOf(i, n) + 1 + Used(chunks[i])
                        <= limit + (IF kind = "transcript" /\ i >= 100 THEN 1 ELSE 0)
    BY DEF DmsFit
  <2>1. i \in 1..n /\ n \in Nat /\ chunks[i] \in Seq(S)
    <3> HIDE DEF S
    <3>1. chunks \in Seq(Seq(S))
      BY <1>3 DEF S
    <3> QED
      BY <3>1
  <2>2. Used(chunks[i]) \in Nat /\ Used(chunks[i]) <= Budget
    BY <1>2, <1>3, <2>1, UsedIsNat
  <2>3. Digits(i) \in 1..3 /\ Digits(n) \in 1..3 /\ (i < 100 => Digits(i) <= 2)
    BY <2>1 DEF Digits
  <2>4. HeaderOf(i, n) = IF kind = "transcript" THEN Header + 8 + Digits(i) + Digits(n) ELSE Header
    BY DEF HeaderOf
  <2> HIDE DEF n, S
  <2> DEFINE u == Used(chunks[i])
             di == Digits(i)
             dn == Digits(n)
             head == HeaderOf(i, n)
             b == Budget
  <2>5. /\ u \in Nat /\ u <= b /\ di \in 1..3 /\ dn \in 1..3 /\ (i < 100 => di <= 2)
        /\ head = IF kind = "transcript" THEN Header + 8 + di + dn ELSE Header
        /\ b \in Nat
        /\ b = IF kind = "transcript" THEN limit - Header - 14 ELSE limit - Header - 1
        /\ limit \in Nat /\ Header \in Nat /\ i \in Nat
    BY <1>2, <2>1, <2>2, <2>3, <2>4
  <2> HIDE DEF u, di, dn, head, b
  <2>6. head + 1 + u <= limit + (IF kind = "transcript" /\ i >= 100 THEN 1 ELSE 0)
    BY <2>5
  <2> QED
    BY <2>6 DEF head, u
<1> QED
  BY <1>6, <1>7, <1>8 DEF DmsAreSound

\* What solvers read is all that was said, in order, whole where it fits, in DMs
\* that are not too long (solver/mod.rs transcript, update, chunk).
THEOREM DmsStaySound == TextsSpec => []DmsAreSound
<1>1. TextsInit => TextsInv
  BY TextsStarts
<1>2. TextsInv /\ [TextsNext]_textsVars => TextsInv'
  BY TextsKeep
<1>3. TextsInv => DmsAreSound
  BY WholeIsSound, ChunksAreSound
<1> QED
  BY <1>1, <1>2, <1>3, PTL DEF TextsSpec

-----------------------------------------------------------------------------
(* Parts beside one another.                                               *)

\* A step of another part.
LEMMA OthersStandStill ==
  ASSUME [PartsNext]_partsVars
  PROVE  /\ SettleNext \/ UNCHANGED settleVars
         /\ ClosingNext \/ UNCHANGED closingVars
         /\ ObserversNext \/ UNCHANGED observersVars
         /\ FeedbackNext \/ UNCHANGED feedbackVars
         /\ JudgeNext \/ UNCHANGED judgeVars
         /\ TextsNext \/ UNCHANGED textsVars
         /\ BacklogNext \/ UNCHANGED backlogVars
<1>1. CASE UNCHANGED partsVars
  BY <1>1, Zenon DEF partsVars
<1>2. CASE PartsNext
  BY <1>2, Zenon DEF PartsNext, Only
<1> QED
  BY <1>1, <1>2

\* The turn loop, a closing, the delivery of notices, the feedback of solvers, the
\* calls of the judge, the texts for solvers and the sync loop are each implemented
\* by Parts (run_turns, finish, deliver_due, record, read, chunk, sync_loop).
THEOREM PartsImplementEach ==
  PartsSpec => /\ SettleSpec /\ ClosingSpec /\ ObserversSpec /\ FeedbackSpec
               /\ JudgeSpec /\ TextsSpec /\ BacklogSpec
<1>1. PartsInit => /\ SettleInit /\ ClosingInit /\ ObserversInit /\ FeedbackInit
                   /\ JudgeInit /\ TextsInit /\ BacklogInit
  BY DEF PartsInit
<1>2. [PartsNext]_partsVars => [SettleNext]_settleVars
  BY OthersStandStill
<1>3. [PartsNext]_partsVars => [ClosingNext]_closingVars
  BY OthersStandStill
<1>4. [PartsNext]_partsVars => [ObserversNext]_observersVars
  BY OthersStandStill
<1>5. [PartsNext]_partsVars => [FeedbackNext]_feedbackVars
  BY OthersStandStill
<1>6. [PartsNext]_partsVars => [JudgeNext]_judgeVars
  BY OthersStandStill
<1>7. [PartsNext]_partsVars => [TextsNext]_textsVars
  BY OthersStandStill
<1>8. [PartsNext]_partsVars => [BacklogNext]_backlogVars
  BY OthersStandStill
<1> QED
  BY <1>1, <1>2, <1>3, <1>4, <1>5, <1>6, <1>7, <1>8, PTL
  DEF PartsSpec, SettleSpec, ClosingSpec, ObserversSpec, FeedbackSpec, JudgeSpec, TextsSpec,
      BacklogSpec

\* What is proved of the turns, of closings, of notices, of feedback, of readings,
\* of texts and of revisions holds where they are checked together
\* (mediation/turn.rs, mediation/guide.rs, notifier/observers.rs,
\* mediation/feedback.rs, judge, solver/mod.rs, daemon/sync.rs).
THEOREM PartsKeepTheirPromises ==
  PartsSpec => [](/\ TurnsNeverOverlap /\ ClosingIsSound
                  /\ NoticesAreSound /\ FeedbackIsSound
                  /\ ReadingIsSound /\ DmsAreSound
                  /\ ReplacedStaysReplaced)
  BY PartsImplementEach, OneTurnOfASession, ClosingStaysSound, NoticesStaySound,
     FeedbackStaysSound, ReadingStaysSound, DmsStaySound, ReplacedNeverReturns, PTL

\* What is drawn at first stays in its range.
LEMMA DrawnStaysDrawn ==
  /\ PartsInit => part \in PartNames /\ limit \in Limits /\ script \in Scripts
  /\ PartsInit => done \in BOOLEAN
  /\ [PartsNext]_partsVars => UNCHANGED part
  /\ [TextsNext]_textsVars => UNCHANGED <<limit, script>>
  /\ done \in BOOLEAN /\ [TextsNext]_textsVars => done' \in BOOLEAN
<1>1. PartsInit => part \in PartNames /\ limit \in Limits /\ script \in Scripts
  BY DEF PartsInit, TextsInit
<1>2. PartsInit => done \in BOOLEAN
  BY DEF PartsInit, TextsInit
<1>3. [PartsNext]_partsVars => UNCHANGED part
  BY Zenon DEF PartsNext, Only, partsVars
<1>4. [TextsNext]_textsVars => UNCHANGED <<limit, script>>
  BY DEF TextsNext, textsVars, WriteWhole, Flush, Finish, Take
<1>5. done \in BOOLEAN /\ [TextsNext]_textsVars => done' \in BOOLEAN
  BY DEF TextsNext, textsVars, WriteWhole, Flush, Finish, Take
<1> QED
  BY <1>1, <1>2, <1>3, <1>4, <1>5

\* The types of every part, where they are checked together: each is that of the
\* part, and a text keeps its lines and its limit (mediation/turn.rs,
\* mediation/guide.rs, notifier/observers.rs, mediation/feedback.rs, judge,
\* solver/mod.rs, daemon/sync.rs).
THEOREM PartsTypeCorrect == PartsSpec => []PartsTypeOK
<1> DEFINE Drawn == part \in PartNames /\ limit \in Limits /\ script \in Scripts /\ done \in BOOLEAN
<1>1. PartsInit => Drawn
  BY DrawnStaysDrawn
<1>2. Drawn /\ [PartsNext]_partsVars => Drawn'
  <2> SUFFICES ASSUME Drawn, [PartsNext]_partsVars PROVE Drawn'
    OBVIOUS
  <2>1. [TextsNext]_textsVars
    BY OthersStandStill
  <2> QED
    BY <2>1, DrawnStaysDrawn
<1>3. PartsSpec => []Drawn
  <2> HIDE DEF Drawn
  <2> QED
    BY <1>1, <1>2, PTL DEF PartsSpec
<1>4. /\ SettleTypeOK /\ ClosingTypeOK /\ ObserversTypeOK /\ FeedbackTypeOK /\ JudgeTypeOK
      /\ Drawn /\ BacklogTypeOK
      => PartsTypeOK
  BY DEF PartsTypeOK
<1> HIDE DEF Drawn
<1> QED
  BY <1>3, <1>4, PartsImplementEach, SettleTypesStay, ClosingTypesStay, ObserversTypesStay,
     FeedbackTypesStay, JudgeTypesStay, BacklogTypesStay, PTL

=============================================================================
