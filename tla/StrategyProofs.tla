---------------------------- MODULE StrategyProofs ----------------------------
(***************************************************************************)
(* What a run of GreedyStrategy makes of any input: the lemmas that the    *)
(* theorems about plans rest on.  First what the folds and sums of the     *)
(* community modules compute over a finite set, whatever the set: the      *)
(* induction is over its subsets, which WellFoundedInduction states        *)
(* without an operator parameter.  Then each fold of the strategy is shown *)
(* to follow its steps, each step to keep the books, and FoldInvariant     *)
(* does the rest.                                                          *)
(***************************************************************************)
EXTENDS GreedyStrategy, FiniteSetTheorems, TLAPS

-------------------------------------------------------------------------------
(* Induction over a finite set: a family of subsets that holds the empty   *)
(* set and grows by one element at a time holds them all.                  *)
LEMMA SmallestSubset ==
  ASSUME NEW S, IsFiniteSet(S), NEW B, B \subseteq SUBSET S, B # {}
  PROVE  \E T \in B : \A U \in B : ~(U \subseteq T /\ U # T)
<1>1. B \subseteq FiniteSubsetsOf(S)
  BY FS_FiniteSubsetsOfFinite
<1>2. \E T \in B : \A U \in B : ~ (<<U, T>> \in StrictSubsetOrdering(S))
  BY <1>1, WFMin, FS_StrictSubsetOrderingWellFounded
<1>3. PICK T \in B : \A U \in B : ~ (<<U, T>> \in StrictSubsetOrdering(S))
  BY <1>2
<1>4. ASSUME NEW U \in B, U \subseteq T, U # T  PROVE FALSE
  BY <1>3, <1>4 DEF StrictSubsetOrdering
<1> QED
  BY <1>4

LEMMA GrowingFamily ==
  ASSUME NEW S, IsFiniteSet(S), NEW G, {} \in G,
         \A T \in SUBSET S : \A x \in S \ T : T \in G => T \cup {x} \in G
  PROVE  S \in G
<1> SUFFICES ASSUME S \notin G  PROVE FALSE
  OBVIOUS
<1> DEFINE B == (SUBSET S) \ G
<1>1. PICK T \in B : \A U \in B : ~(U \subseteq T /\ U # T)
  <2>1. B # {} /\ B \subseteq SUBSET S
    OBVIOUS
  <2> HIDE DEF B
  <2> QED
    BY <2>1, SmallestSubset
<1>2. PICK x \in T : TRUE
  BY <1>1
<1>3. T \ {x} \in G
  BY <1>1, <1>2
<1>4. T = (T \ {x}) \cup {x}
  BY <1>2
<1>5. (T \ {x}) \in SUBSET S /\ x \in S \ (T \ {x})
  BY <1>1, <1>2
<1>6. T \in G
  BY <1>3, <1>4, <1>5
<1> QED
  BY <1>1, <1>6

-------------------------------------------------------------------------------
(* A fold over the subsets of S takes an element that c chooses, and the   *)
(* step of that element on the fold of the rest.                           *)
Folds(g, S, c, base, step, A) ==
  /\ g \in [SUBSET S -> A]
  /\ \A T \in SUBSET S :
       g[T] = IF T = {} THEN base ELSE step[<<c[T], g[T \ {c[T]}]>>]

LEMMA FoldUnique ==
  ASSUME NEW S, IsFiniteSet(S), NEW c, NEW base, NEW step, NEW A,
         \A T \in SUBSET S : T # {} => c[T] \in T,
         NEW U \in SUBSET S, NEW V \in SUBSET S,
         NEW g, Folds(g, U, c, base, step, A),
         NEW h, Folds(h, V, c, base, step, A),
         NEW W, W \subseteq U, W \subseteq V
  PROVE  g[W] = h[W]
<1> SUFFICES ASSUME g[W] # h[W]  PROVE FALSE
  OBVIOUS
<1> DEFINE B == {T \in SUBSET W : g[T] # h[T]}
<1>1. IsFiniteSet(W)
  BY FS_Subset
<1>2. PICK T \in B : \A X \in B : ~(X \subseteq T /\ X # T)
  <2>1. B # {} /\ B \subseteq SUBSET W
    OBVIOUS
  <2> HIDE DEF B
  <2> QED
    BY <2>1, <1>1, SmallestSubset
<1>3. T \subseteq U /\ T \subseteq V /\ T \subseteq S
  OBVIOUS
<1>4. CASE T = {}
  BY <1>2, <1>3, <1>4 DEF Folds
<1>5. CASE T # {}
  <2>1. c[T] \in T
    BY <1>3, <1>5
  <2>2. g[T \ {c[T]}] = h[T \ {c[T]}]
    BY <1>2, <2>1
  <2>3. g[T] = step[<<c[T], g[T \ {c[T]}]>>] /\ h[T] = step[<<c[T], h[T \ {c[T]}]>>]
    BY <1>3, <1>5 DEF Folds
  <2> QED
    BY <2>2, <2>3
<1> QED
  BY <1>4, <1>5

LEMMA FoldExists ==
  ASSUME NEW S, IsFiniteSet(S), NEW c, NEW A, NEW base \in A, NEW step,
         \A T \in SUBSET S : T # {} => c[T] \in T,
         \A x \in S, a \in A : step[<<x, a>>] \in A
  PROVE  \E g : Folds(g, S, c, base, step, A)
<1> SUFFICES ASSUME ~ \E g : Folds(g, S, c, base, step, A)  PROVE FALSE
  OBVIOUS
<1> DEFINE Sol(g, T) == Folds(g, T, c, base, step, A)
           B == {T \in SUBSET S : ~ \E g : Sol(g, T)}
<1>1. PICK T \in B : \A U \in B : ~(U \subseteq T /\ U # T)
  <2>1. B # {} /\ B \subseteq SUBSET S
    OBVIOUS
  <2> HIDE DEF B
  <2> QED
    BY <2>1, SmallestSubset
<1>2. T \in SUBSET S /\ ~ \E g : Sol(g, T)
  OBVIOUS
<1>3. \A W \in SUBSET T : W # T => \E g : Sol(g, W)
  BY <1>1, <1>2
<1> DEFINE of(W) == CHOOSE g : Sol(g, W)
<1>4. \A W \in SUBSET T : W # T => Sol(of(W), W)
  BY <1>3
<1> HIDE DEF of
<1> DEFINE at(W) == of(W)[W]
           h == [W \in SUBSET T |->
                   IF W # T THEN at(W)
                   ELSE IF T = {} THEN base
                   ELSE step[<<c[T], at(T \ {c[T]})>>]]
<1>5. ASSUME NEW W \in SUBSET T, W # T
      PROVE  at(W) \in A
  <2>1. Folds(of(W), W, c, base, step, A)
    BY <1>4, <1>5
  <2>2. of(W) \in [SUBSET W -> A] /\ W \in SUBSET W
    BY <2>1 DEF Folds
  <2> QED
    BY <2>2
<1>6. ASSUME NEW W \in SUBSET T, W # T, W # {}
      PROVE  at(W) = step[<<c[W], at(W \ {c[W]})>>]
  <2>1. c[W] \in W /\ W \in SUBSET S
    BY <1>2, <1>6
  <2>2. of(W)[W] = step[<<c[W], of(W)[W \ {c[W]}]>>]
    BY <1>4, <1>6 DEF Folds
  <2>3. W \ {c[W]} \in SUBSET T /\ W \ {c[W]} # T
    BY <1>6, <2>1
  <2>4. Sol(of(W), W) /\ Sol(of(W \ {c[W]}), W \ {c[W]})
    BY <1>4, <1>6, <2>3
  <2>5. of(W)[W \ {c[W]}] = of(W \ {c[W]})[W \ {c[W]}]
    <3> DEFINE X == W \ {c[W]}
               gW == of(W)
               gX == of(X)
    <3>1. /\ X \in SUBSET S /\ W \in SUBSET S /\ X \subseteq W /\ X \subseteq X
          /\ Folds(gW, W, c, base, step, A) /\ Folds(gX, X, c, base, step, A)
      BY <2>1, <2>4
    <3> HIDE DEF X, gW, gX
    <3>2. gW[X] = gX[X]
      BY ONLY <3>1, FoldUnique, IsFiniteSet(S),
              \A Y \in SUBSET S : Y # {} => c[Y] \in Y
    <3> QED
      BY <3>2 DEF X, gW, gX
  <2> QED
    BY <2>2, <2>5
<1>7. ASSUME NEW W \in SUBSET T, W # T, W = {}
      PROVE  at(W) = base
  BY <1>4, <1>7 DEF Folds
<1>8. T # {} => c[T] \in T /\ T \ {c[T]} \in SUBSET T /\ T \ {c[T]} # T
  BY <1>2
<1> HIDE DEF at
<1>9. h \in [SUBSET T -> A]
  <2>1. ASSUME NEW W \in SUBSET T  PROVE h[W] \in A
    <3>1. CASE W # T
      BY <1>5, <3>1
    <3>2. CASE W = T /\ T = {}
      BY <3>2
    <3>3. CASE W = T /\ T # {}
      <4>1. at(T \ {c[T]}) \in A /\ c[T] \in S
        BY <1>2, <1>5, <1>8, <3>3
      <4> QED
        BY <3>3, <4>1
    <3> QED
      BY <3>1, <3>2, <3>3
  <2> QED
    BY <2>1
<1>10. ASSUME NEW W \in SUBSET T
       PROVE  h[W] = IF W = {} THEN base ELSE step[<<c[W], h[W \ {c[W]}]>>]
  <2>1. CASE W # T /\ W # {}
    <3>1. W \ {c[W]} \in SUBSET T /\ W \ {c[W]} # T
      BY <1>2, <2>1
    <3> QED
      BY <1>6, <2>1, <3>1
  <2>2. CASE W # T /\ W = {}
    BY <1>7, <2>2
  <2>3. CASE W = T
    BY <1>8, <2>3
  <2> QED
    BY <2>1, <2>2, <2>3
<1>11. Sol(h, T)
  BY <1>9, <1>10 DEF Folds
<1> QED
  BY <1>2, <1>11
-------------------------------------------------------------------------------
(* A function that takes the steps wherever what is left of the fold is of *)
(* its type is that fold.                                                  *)
Follows(f, S, c, base, step, A) ==
  /\ f[{}] = base
  /\ \A T \in SUBSET S : T # {} /\ f[T \ {c[T]}] \in A =>
        f[T] = step[<<c[T], f[T \ {c[T]}]>>]

LEMMA FoldAgrees ==
  ASSUME NEW S, IsFiniteSet(S), NEW c, NEW A, NEW base, NEW step,
         \A T \in SUBSET S : T # {} => c[T] \in T,
         NEW g, Folds(g, S, c, base, step, A),
         NEW f, Follows(f, S, c, base, step, A)
  PROVE  \A T \in SUBSET S : f[T] = g[T]
<1> SUFFICES ASSUME NEW W \in SUBSET S, f[W] # g[W]  PROVE FALSE
  OBVIOUS
<1> DEFINE B == {T \in SUBSET S : f[T] # g[T]}
<1>2. PICK T \in B : \A X \in B : ~(X \subseteq T /\ X # T)
  <2>1. B # {} /\ B \subseteq SUBSET S
    OBVIOUS
  <2> HIDE DEF B
  <2> QED
    BY <2>1, SmallestSubset
<1>3. T \in SUBSET S
  OBVIOUS
<1>4. CASE T = {}
  BY <1>2, <1>3, <1>4 DEF Folds, Follows
<1>5. CASE T # {}
  <2>1. c[T] \in T /\ T \ {c[T]} \in SUBSET S
    BY <1>3, <1>5
  <2>2. f[T \ {c[T]}] = g[T \ {c[T]}]
    BY <1>2, <2>1
  <2>3. g[T] = step[<<c[T], g[T \ {c[T]}]>>] /\ g[T \ {c[T]}] \in A
    BY <1>3, <1>5, <2>1 DEF Folds
  <2> QED
    BY <1>3, <1>5, <2>2, <2>3 DEF Follows
<1> QED
  BY <1>4, <1>5

-------------------------------------------------------------------------------
(* Sums.  SumOf(q, S) is the sum of q[x] for x in S, Sums the fold that    *)
(* computes it.                                                            *)
SumOf(q, S) == MapThenSumSet(LAMBDA x : q[x], S)
First(S) == [T \in SUBSET S |-> CHOOSE x \in T : TRUE]
Plus(q, S) == [p \in S \X Int |-> q[p[1]] + p[2]]
Sums(g, q, S) == Folds(g, S, First(S), 0, Plus(q, S), Int)

LEMMA SumFold ==
  ASSUME NEW S, IsFiniteSet(S), NEW q, \A x \in S : q[x] \in Int
  PROVE  \E g : Sums(g, q, S) /\ SumOf(q, S) = g[S]
<1> DEFINE c == First(S)
           step == Plus(q, S)
           Iter(g) == g = [s \in SUBSET S |->
                             IF s = {} THEN 0
                             ELSE q[CHOOSE x \in s : TRUE]
                                  + g[s \ {CHOOSE x \in s : TRUE}]]
<1>1. \A T \in SUBSET S : T # {} => c[T] \in T
  BY DEF First
<1>2. \A x \in S, a \in Int : step[<<x, a>>] \in Int
  BY DEF Plus
<1>3. PICK g : Folds(g, S, c, 0, step, Int)
  <2>1. 0 \in Int
    OBVIOUS
  <2> HIDE DEF c, step
  <2> QED
    BY <1>1, <1>2, <2>1, FoldExists
<1>4. Iter(g)
  <2>1. ASSUME NEW s \in SUBSET S
        PROVE  g[s] = IF s = {} THEN 0 ELSE q[CHOOSE x \in s : TRUE]
                                  + g[s \ {CHOOSE x \in s : TRUE}]
    <3>1. CASE s = {}
      BY <1>3, <3>1 DEF Folds
    <3>2. CASE s # {}
      <4>1. g[s] = step[<<c[s], g[s \ {c[s]}]>>]
        BY <1>3, <3>2 DEF Folds
      <4>2. c[s] = (CHOOSE x \in s : TRUE) /\ c[s] \in S
        BY <1>1, <3>2 DEF First
      <4>3. g[s \ {c[s]}] \in Int
        BY <1>3 DEF Folds
      <4>4. step[<<c[s], g[s \ {c[s]}]>>] = q[c[s]] + g[s \ {c[s]}]
        BY <4>2, <4>3 DEF Plus
      <4> QED
        BY <3>2, <4>1, <4>2, <4>4
    <3> QED
      BY <3>1, <3>2
  <2>2. g = [s \in SUBSET S |-> g[s]]
    BY <1>3 DEF Folds
  <2> QED
    BY <2>1, <2>2
<1> DEFINE f == CHOOSE h : Iter(h)
<1>5. Iter(f)
  BY <1>4
<1>6. SumOf(q, S) = f[S]
  BY DEF SumOf, MapThenSumSet, MapThenFoldSet
<1>7. f[S] = g[S]
  <2> HIDE DEF f
  <2>1. f[{}] = 0
    BY <1>5
  <2>2. ASSUME NEW T \in SUBSET S, T # {}, f[T \ {c[T]}] \in Int
        PROVE  f[T] = step[<<c[T], f[T \ {c[T]}]>>]
    <3>1. c[T] = (CHOOSE x \in T : TRUE) /\ c[T] \in S
      BY <1>1, <2>2 DEF First
    <3>2. f[T] = q[c[T]] + f[T \ {c[T]}]
      BY <1>5, <2>2, <3>1
    <3> QED
      BY <2>2, <3>1, <3>2 DEF Plus
  <2>4. Follows(f, S, c, 0, step, Int)
    BY <2>1, <2>2 DEF Follows
  <2> HIDE DEF c, step
  <2>5. \A T \in SUBSET S : f[T] = g[T]
    BY ONLY <1>1, <1>3, <2>4, FoldAgrees, IsFiniteSet(S)
  <2> QED
    BY <2>5
<1> QED
  BY <1>3, <1>6, <1>7 DEF Sums

(* The first two equations of sums: of nothing, and of the element that is *)
(* chosen first.                                                           *)
LEMMA SumsPart ==
  ASSUME NEW S, IsFiniteSet(S), NEW q, \A x \in S : q[x] \in Int,
         NEW g, Sums(g, q, S), NEW T \in SUBSET S
  PROVE  SumOf(q, T) = g[T]
<1>1. IsFiniteSet(T) /\ \A x \in T : q[x] \in Int
  BY FS_Subset
<1>2. PICK h : Sums(h, q, T) /\ SumOf(q, T) = h[T]
  BY <1>1, SumFold
<1> DEFINE c == First(S)
           step == Plus(q, S)
<1>3. Folds(g, S, c, 0, step, Int)
  BY DEF Sums
<1>4. Folds(h, T, c, 0, step, Int)
  <2>1. h \in [SUBSET T -> Int]
    BY <1>2 DEF Sums, Folds
  <2>2. ASSUME NEW W \in SUBSET T
        PROVE  h[W] = IF W = {} THEN 0 ELSE step[<<c[W], h[W \ {c[W]}]>>]
    <3>1. h[W] = IF W = {} THEN 0
                 ELSE Plus(q, T)[<<First(T)[W], h[W \ {First(T)[W]}]>>]
      BY <1>2 DEF Sums, Folds
    <3>2. CASE W # {}
      <4>1. First(T)[W] = c[W] /\ c[W] \in T
        BY <3>2 DEF First
      <4>2. h[W \ {c[W]}] \in Int
        BY <2>1
      <4> QED
        BY <3>1, <3>2, <4>1, <4>2 DEF Plus
    <3> QED
      BY <3>1, <3>2
  <2> QED
    BY <2>1, <2>2 DEF Folds
<1>5. \A X \in SUBSET S : X # {} => c[X] \in X
  BY DEF First
<1>6. h[T] = g[T]
  <2>1. S \in SUBSET S /\ T \subseteq S
    OBVIOUS
  <2> HIDE DEF c, step
  <2> QED
    BY ONLY <1>3, <1>4, <1>5, <2>1, FoldUnique, IsFiniteSet(S)
<1> QED
  BY <1>2, <1>6

LEMMA SumNone == \A q : SumOf(q, {}) = 0
<1> TAKE q
<1>1. IsFiniteSet({}) /\ \A x \in {} : q[x] \in Int
  BY FS_EmptySet
<1>2. PICK g : Sums(g, q, {}) /\ SumOf(q, {}) = g[{}]
  BY <1>1, SumFold
<1> QED
  BY <1>2 DEF Sums, Folds

LEMMA SumInt ==
  ASSUME NEW S, IsFiniteSet(S), NEW q, \A x \in S : q[x] \in Int
  PROVE  SumOf(q, S) \in Int
<1>1. PICK g : Sums(g, q, S) /\ SumOf(q, S) = g[S]
  BY SumFold
<1> QED
  BY <1>1 DEF Sums, Folds

(* The element taken off first does not matter.                            *)
LEMMA SumLess ==
  ASSUME NEW S, IsFiniteSet(S), NEW q, \A x \in S : q[x] \in Int,
         NEW x \in S
  PROVE  SumOf(q, S) = q[x] + SumOf(q, S \ {x})
<1>1. PICK g : Sums(g, q, S) /\ SumOf(q, S) = g[S]
  BY SumFold
<1>2. g \in [SUBSET S -> Int]
  BY <1>1 DEF Sums, Folds
<1>3. ASSUME NEW T \in SUBSET S, T # {}
      PROVE  \E y \in T : g[T] = q[y] + g[T \ {y}]
  <2> DEFINE y == First(S)[T]
  <2>1. y \in T
    BY <1>3 DEF First
  <2>2. g[T] = Plus(q, S)[<<y, g[T \ {y}]>>]
    BY <1>1, <1>3 DEF Sums, Folds
  <2>3. g[T \ {y}] \in Int
    BY <1>2
  <2>4. Plus(q, S)[<<y, g[T \ {y}]>>] = q[y] + g[T \ {y}]
    BY <2>1, <2>3 DEF Plus
  <2> QED
    BY <2>1, <2>2, <2>4
<1> DEFINE B == {T \in SUBSET S : \E z \in T : g[T] # q[z] + g[T \ {z}]}
<1>4. B = {}
  <2> SUFFICES ASSUME B # {}  PROVE FALSE
    OBVIOUS
  <2>1. PICK T \in B : \A U \in B : ~(U \subseteq T /\ U # T)
    <3>1. B \subseteq SUBSET S
      OBVIOUS
    <3> HIDE DEF B
    <3> QED
      BY <3>1, SmallestSubset
  <2>2. PICK z \in T : g[T] # q[z] + g[T \ {z}]
    OBVIOUS
  <2>3. PICK y \in T : g[T] = q[y] + g[T \ {y}]
    BY <1>3, <2>2
  <2>4. y # z /\ T \in SUBSET S
    BY <2>2, <2>3
  <2> DEFINE Ty == T \ {y}
             Tz == T \ {z}
             R == T \ {y, z}
  <2>5. /\ Ty \in SUBSET S /\ Tz \in SUBSET S /\ R \in SUBSET S
        /\ Ty \notin B /\ Tz \notin B /\ z \in Ty /\ y \in Tz
        /\ Ty \ {z} = R /\ Tz \ {y} = R
    BY <2>1, <2>4
  <2>6. g[Ty] = q[z] + g[R] /\ g[Tz] = q[y] + g[R]
    BY <2>5
  <2>7. g[R] \in Int /\ q[y] \in Int /\ q[z] \in Int
    BY <1>2, <2>4, <2>5
  <2> QED
    BY <2>2, <2>3, <2>6, <2>7
<1>5. g[S] = q[x] + g[S \ {x}]
  BY <1>4
<1>6. SumOf(q, S \ {x}) = g[S \ {x}]
  BY <1>1, SumsPart
<1> QED
  BY <1>1, <1>5, <1>6

LEMMA SumMore ==
  ASSUME NEW S, IsFiniteSet(S), NEW q, \A x \in S : q[x] \in Int,
         NEW x, x \notin S, q[x] \in Int
  PROVE  SumOf(q, S \cup {x}) = q[x] + SumOf(q, S)
<1>1. IsFiniteSet(S \cup {x}) /\ \A y \in S \cup {x} : q[y] \in Int
  BY FS_AddElement
<1>2. (S \cup {x}) \ {x} = S
  OBVIOUS
<1>3. SumOf(q, S \cup {x}) = q[x] + SumOf(q, (S \cup {x}) \ {x})
  BY <1>1, SumLess
<1> QED
  BY <1>2, <1>3
(* Sums depend on the values only.                                         *)
LEMMA SumSame ==
  ASSUME NEW S, IsFiniteSet(S), NEW q, NEW r,
         \A x \in S : q[x] \in Int /\ r[x] = q[x]
  PROVE  SumOf(q, S) = SumOf(r, S)
<1> DEFINE G == {T \in SUBSET S : SumOf(q, T) = SumOf(r, T)}
<1>1. {} \in G
  BY SumNone
<1>2. ASSUME NEW T \in SUBSET S, NEW x \in S \ T, T \in G
      PROVE  T \cup {x} \in G
  <2>1. IsFiniteSet(T) /\ \A y \in T : q[y] \in Int /\ r[y] \in Int
    BY FS_Subset
  <2>2. SumOf(q, T \cup {x}) = q[x] + SumOf(q, T)
    BY <2>1, SumMore
  <2>3. SumOf(r, T \cup {x}) = r[x] + SumOf(r, T)
    BY <2>1, SumMore
  <2> QED
    BY <1>2, <2>2, <2>3
<1>3. S \in G
  <2> HIDE DEF G
  <2> QED
    BY <1>1, <1>2, GrowingFamily
<1> QED
  BY <1>3

LEMMA SumNothing ==
  ASSUME NEW S, IsFiniteSet(S), NEW q, \A x \in S : q[x] = 0
  PROVE  SumOf(q, S) = 0
<1> DEFINE G == {T \in SUBSET S : SumOf(q, T) = 0}
<1>1. {} \in G
  BY SumNone
<1>2. ASSUME NEW T \in SUBSET S, NEW x \in S \ T, T \in G
      PROVE  T \cup {x} \in G
  <2>1. IsFiniteSet(T) /\ \A y \in T : q[y] \in Int
    BY FS_Subset
  <2>2. SumOf(q, T \cup {x}) = q[x] + SumOf(q, T)
    BY <2>1, SumMore
  <2> QED
    BY <1>2, <2>2
<1>3. S \in G
  <2> HIDE DEF G
  <2> QED
    BY <1>1, <1>2, GrowingFamily
<1> QED
  BY <1>3

LEMMA SumNat ==
  ASSUME NEW S, IsFiniteSet(S), NEW q, \A x \in S : q[x] \in Nat
  PROVE  SumOf(q, S) \in Nat
<1> DEFINE G == {T \in SUBSET S : SumOf(q, T) \in Nat}
<1>1. {} \in G
  BY SumNone
<1>2. ASSUME NEW T \in SUBSET S, NEW x \in S \ T, T \in G
      PROVE  T \cup {x} \in G
  <2>1. IsFiniteSet(T) /\ \A y \in T : q[y] \in Int
    BY FS_Subset
  <2>2. SumOf(q, T \cup {x}) = q[x] + SumOf(q, T)
    BY <2>1, SumMore
  <2> QED
    BY <1>2, <2>2
<1>3. S \in G
  <2> HIDE DEF G
  <2> QED
    BY <1>1, <1>2, GrowingFamily
<1> QED
  BY <1>3

LEMMA SumUnion ==
  ASSUME NEW S, IsFiniteSet(S), NEW U, IsFiniteSet(U), S \cap U = {},
         NEW q, \A x \in S \cup U : q[x] \in Int
  PROVE  SumOf(q, S \cup U) = SumOf(q, S) + SumOf(q, U)
<1> DEFINE G == {T \in SUBSET U : SumOf(q, S \cup T) = SumOf(q, S) + SumOf(q, T)}
<1>0. SumOf(q, S) \in Int
  BY SumInt
<1>1. {} \in G
  BY <1>0, SumNone
<1>2. ASSUME NEW T \in SUBSET U, NEW x \in U \ T, T \in G
      PROVE  T \cup {x} \in G
  <2>1. IsFiniteSet(T) /\ IsFiniteSet(S \cup T)
    BY FS_Subset, FS_Union
  <2>2. SumOf(q, T \cup {x}) = q[x] + SumOf(q, T)
    BY <2>1, SumMore
  <2>3. SumOf(q, (S \cup T) \cup {x}) = q[x] + SumOf(q, S \cup T)
    <3> DEFINE V == S \cup T
    <3>1. IsFiniteSet(V) /\ (\A y \in V : q[y] \in Int) /\ x \notin V /\ q[x] \in Int
      BY <2>1
    <3> HIDE DEF V
    <3>2. SumOf(q, V \cup {x}) = q[x] + SumOf(q, V)
      BY <3>1, SumMore
    <3> QED
      BY <3>2 DEF V
  <2>4. SumOf(q, T) \in Int
    BY <2>1, SumInt
  <2>5. S \cup (T \cup {x}) = (S \cup T) \cup {x}
    OBVIOUS
  <2>6. q[x] \in Int /\ SumOf(q, S \cup T) = SumOf(q, S) + SumOf(q, T)
    BY <1>2
  <2>7. SumOf(q, S \cup (T \cup {x})) = q[x] + SumOf(q, S \cup T)
    BY ONLY <2>3, <2>5
  <2>8. SumOf(q, S \cup (T \cup {x})) = SumOf(q, S) + SumOf(q, T \cup {x})
    BY ONLY <1>0, <2>2, <2>4, <2>6, <2>7
  <2> QED
    BY <2>8
<1>3. U \in G
  <2> HIDE DEF G
  <2> QED
    BY <1>1, <1>2, GrowingFamily
<1> QED
  BY <1>3

(* A value of a sum of naturals is at most the sum, and a sum over less    *)
(* and of less is less.                                                    *)
LEMMA SumAtLeast ==
  ASSUME NEW S, IsFiniteSet(S), NEW q, \A x \in S : q[x] \in Nat,
         NEW T \in SUBSET S
  PROVE  SumOf(q, T) \in Nat /\ SumOf(q, T) <= SumOf(q, S)
<1>1. IsFiniteSet(T) /\ IsFiniteSet(S \ T)
  BY FS_Subset
<1>2. S = T \cup (S \ T) /\ T \cap (S \ T) = {}
  OBVIOUS
<1>3. SumOf(q, T) \in Nat /\ SumOf(q, S \ T) \in Nat
  BY <1>1, SumNat
<1>4. SumOf(q, T \cup (S \ T)) = SumOf(q, T) + SumOf(q, S \ T)
  <2>1. \A x \in T \cup (S \ T) : q[x] \in Int
    OBVIOUS
  <2> QED
    BY <1>1, <1>2, <2>1, SumUnion
<1>5. SumOf(q, S) = SumOf(q, T) + SumOf(q, S \ T)
  BY <1>2, <1>4
<1> QED
  BY <1>3, <1>5

LEMMA SumOne ==
  ASSUME NEW q, NEW x, q[x] \in Int
  PROVE  SumOf(q, {x}) = q[x]
<1>1. SumOf(q, {} \cup {x}) = q[x] + SumOf(q, {})
  BY FS_EmptySet, SumMore
<1>2. {} \cup {x} = {x}
  OBVIOUS
<1> QED
  BY <1>1, <1>2, SumNone

LEMMA SumMember ==
  ASSUME NEW S, IsFiniteSet(S), NEW q, \A x \in S : q[x] \in Nat, NEW x \in S
  PROVE  q[x] <= SumOf(q, S)
<1>1. SumOf(q, {x}) = q[x]
  BY SumOne
<1>2. {x} \in SUBSET S
  OBVIOUS
<1>3. SumOf(q, {x}) <= SumOf(q, S)
  BY <1>2, SumAtLeast
<1> QED
  BY <1>1, <1>3

LEMMA SumMonotone ==
  ASSUME NEW S, IsFiniteSet(S), NEW q, NEW r,
         \A x \in S : q[x] \in Int /\ r[x] \in Int /\ q[x] <= r[x]
  PROVE  SumOf(q, S) <= SumOf(r, S)
<1> DEFINE G == {T \in SUBSET S : SumOf(q, T) <= SumOf(r, T)}
<1>1. {} \in G
  BY SumNone
<1>2. ASSUME NEW T \in SUBSET S, NEW x \in S \ T, T \in G
      PROVE  T \cup {x} \in G
  <2>1. IsFiniteSet(T) /\ \A y \in T : q[y] \in Int /\ r[y] \in Int
    BY FS_Subset
  <2>2. SumOf(q, T \cup {x}) = q[x] + SumOf(q, T) /\ SumOf(q, T) \in Int
    BY <2>1, SumMore, SumInt
  <2>3. SumOf(r, T \cup {x}) = r[x] + SumOf(r, T) /\ SumOf(r, T) \in Int
    BY <2>1, SumMore, SumInt
  <2>4. q[x] \in Int /\ r[x] \in Int /\ q[x] <= r[x]
    OBVIOUS
  <2> QED
    BY <1>2, <2>2, <2>3, <2>4
<1>3. S \in G
  <2> HIDE DEF G
  <2> QED
    BY <1>1, <1>2, GrowingFamily
<1> QED
  BY <1>3

(* A sum may be taken over other names of its elements.                    *)
Renames(f, S, U) == f \in [S -> U] /\ \A x, y \in S : f[x] = f[y] => x = y

LEMMA SumRenamed ==
  ASSUME NEW S, IsFiniteSet(S), NEW U, NEW f, Renames(f, S, U),
         NEW q, NEW r, \A x \in S : q[x] \in Int /\ r[f[x]] = q[x]
  PROVE  SumOf(r, {f[x] : x \in S}) = SumOf(q, S)
<1> USE DEF Renames
<1> DEFINE im(T) == {f[x] : x \in T}
           G == {T \in SUBSET S : IsFiniteSet(im(T)) /\ SumOf(r, im(T)) = SumOf(q, T)}
<1>1. {} \in G
  <2>1. im({}) = {}
    OBVIOUS
  <2> QED
    BY <2>1, SumNone, FS_EmptySet
<1>2. ASSUME NEW T \in SUBSET S, NEW x \in S \ T, T \in G
      PROVE  T \cup {x} \in G
  <2>1. IsFiniteSet(T) /\ \A y \in T : q[y] \in Int
    BY FS_Subset
  <2>2. SumOf(q, T \cup {x}) = q[x] + SumOf(q, T)
    BY <2>1, SumMore
  <2>3. im(T \cup {x}) = im(T) \cup {f[x]} /\ f[x] \notin im(T)
    OBVIOUS
  <2>4. \A z \in im(T) : r[z] \in Int
    OBVIOUS
  <2>5. IsFiniteSet(im(T)) /\ SumOf(r, im(T)) = SumOf(q, T)
    BY <1>2
  <2>6. r[f[x]] = q[x] /\ r[f[x]] \in Int
    OBVIOUS
  <2> DEFINE I == im(T)
             y == f[x]
  <2>7. IsFiniteSet(I) /\ (\A z \in I : r[z] \in Int) /\ y \notin I /\ r[y] \in Int
    BY <2>3, <2>4, <2>5, <2>6
  <2> HIDE DEF I, y
  <2>8. SumOf(r, I \cup {y}) = r[y] + SumOf(r, I) /\ IsFiniteSet(I \cup {y})
    BY <2>7, SumMore, FS_AddElement
  <2> QED
    BY <2>2, <2>3, <2>5, <2>6, <2>8 DEF I, y
<1>3. S \in G
  <2> HIDE DEF G
  <2> QED
    BY <1>1, <1>2, GrowingFamily
<1> QED
  BY <1>3

(* The sum of sums.                                                        *)
LEMMA SumPlus ==
  ASSUME NEW S, IsFiniteSet(S), NEW q, NEW r, NEW t,
         \A x \in S : q[x] \in Int /\ r[x] \in Int /\ t[x] = q[x] + r[x]
  PROVE  SumOf(t, S) = SumOf(q, S) + SumOf(r, S)
<1> DEFINE G == {T \in SUBSET S : SumOf(t, T) = SumOf(q, T) + SumOf(r, T)}
<1>1. {} \in G
  BY SumNone
<1>2. ASSUME NEW T \in SUBSET S, NEW x \in S \ T, T \in G
      PROVE  T \cup {x} \in G
  <2>1. IsFiniteSet(T)
        /\ \A y \in T : q[y] \in Int /\ r[y] \in Int /\ t[y] \in Int
    BY FS_Subset
  <2>2. SumOf(q, T \cup {x}) = q[x] + SumOf(q, T) /\ SumOf(q, T) \in Int
    BY <2>1, SumMore, SumInt
  <2>3. SumOf(r, T \cup {x}) = r[x] + SumOf(r, T) /\ SumOf(r, T) \in Int
    BY <2>1, SumMore, SumInt
  <2>4. SumOf(t, T \cup {x}) = t[x] + SumOf(t, T)
    BY <2>1, SumMore
  <2>5. q[x] \in Int /\ r[x] \in Int /\ t[x] = q[x] + r[x]
    OBVIOUS
  <2> QED
    BY <1>2, <2>2, <2>3, <2>4, <2>5
<1>3. S \in G
  <2> HIDE DEF G
  <2> QED
    BY <1>1, <1>2, GrowingFamily
<1> QED
  BY <1>3

(* The last element of a finite set, by an order given as a set of pairs.  *)
Linear(R, S) ==
  /\ \A x, y \in S : x # y => <<x, y>> \in R \/ <<y, x>> \in R
  /\ \A x, y, z \in S : <<x, y>> \in R /\ <<y, z>> \in R => <<x, z>> \in R
IsLast(x, T, R) == x \in T /\ \A y \in T \ {x} : <<y, x>> \in R

LEMMA LastExists ==
  ASSUME NEW S, IsFiniteSet(S), NEW R, Linear(R, S), NEW T \in SUBSET S, T # {}
  PROVE  \E x : IsLast(x, T, R)
<1> DEFINE G == {U \in SUBSET S : U = {} \/ \E x \in U : \A y \in U \ {x} :
                                                 <<y, x>> \in R}
<1>1. {} \in G
  OBVIOUS
<1>2. IsFiniteSet(T)
  BY FS_Subset
<1>3. ASSUME NEW U \in SUBSET T, NEW z \in T \ U, U \in G
      PROVE  U \cup {z} \in G
  <2>1. CASE U = {}
    BY <2>1
  <2>2. CASE U # {}
    <3>1. PICK x \in U : \A y \in U \ {x} : <<y, x>> \in R
      BY <1>3, <2>2
    <3>2. CASE <<z, x>> \in R
      <4>1. \A y \in (U \cup {z}) \ {x} : <<y, x>> \in R
        BY <3>1, <3>2
      <4> QED
        BY <3>1, <4>1
    <3>3. CASE <<x, z>> \in R
      <4>1. ASSUME NEW y \in (U \cup {z}) \ {z}  PROVE <<y, z>> \in R
        <5>1. CASE y = x
          BY <3>3, <5>1
        <5>2. CASE y # x
          <6>1. <<y, x>> \in R /\ y \in S /\ x \in S /\ z \in S
            BY <3>1, <4>1, <5>2
          <6> QED
            BY <3>3, <6>1 DEF Linear
        <5> QED
          BY <5>1, <5>2
      <4> QED
        BY <4>1
    <3>4. x # z /\ x \in S /\ z \in S
      BY <3>1
    <3> QED
      BY <3>2, <3>3, <3>4 DEF Linear
  <2> QED
    BY <2>1, <2>2
<1>4. T \in G
  <2> HIDE DEF G
  <2> QED
    BY <1>1, <1>2, <1>3, GrowingFamily
<1> QED
  BY <1>4 DEF IsLast

LEMMA MinChosen ==
  ASSUME NEW T, IsFiniteSet(T), T \subseteq Int, T # {}
  PROVE  Min(T) \in T /\ \A y \in T : Min(T) <= y
<1> DEFINE R == {p \in T \X T : p[1] > p[2]}
<1>1. Linear(R, T)
  BY DEF Linear
<1>2. \E x : IsLast(x, T, R)
  <2> HIDE DEF R
  <2>1. T \in SUBSET T
    OBVIOUS
  <2> QED
    BY <1>1, <2>1, LastExists
<1>3. PICK x : x \in T /\ \A y \in T \ {x} : <<y, x>> \in R
  BY <1>2 DEF IsLast
<1>4. \A y \in T \ {x} : y > x
  BY <1>3
<1>5. x \in T /\ \A y \in T : x <= y
  BY <1>3, <1>4
<1> QED
  BY <1>5 DEF Min

(* Two that follow the same steps end the same.                            *)
Picks(c, S) == \A T \in SUBSET S : T # {} => c[T] \in T
Closed(step, S, A) == \A x \in S, a \in A : step[<<x, a>>] \in A

LEMMA FollowersAgree ==
  ASSUME NEW S, IsFiniteSet(S), NEW c, Picks(c, S), NEW A, NEW base \in A,
         NEW step, Closed(step, S, A),
         NEW f, Follows(f, S, c, base, step, A),
         NEW g, Follows(g, S, c, base, step, A)
  PROVE  f[S] = g[S]
<1>1. PICK h : Folds(h, S, c, base, step, A)
  BY FoldExists DEF Picks, Closed
<1>2. \A T \in SUBSET S : f[T] = h[T]
  BY <1>1, FoldAgrees DEF Picks
<1>3. \A T \in SUBSET S : g[T] = h[T]
  BY <1>1, FoldAgrees DEF Picks
<1> QED
  BY <1>2, <1>3

(* What a fold gives is of its type, and in every relation between the     *)
(* elements folded and the result that holds at the start and through      *)
(* each step.                                                              *)
Steady(I, S, c, step, A) ==
  \A T \in SUBSET S, a \in A :
    T # {} /\ <<T \ {c[T]}, a>> \in I => <<T, step[<<c[T], a>>]>> \in I

LEMMA FoldInvariant ==
  ASSUME NEW S, IsFiniteSet(S), NEW c, Picks(c, S), NEW A, NEW base \in A,
         NEW step, Closed(step, S, A),
         NEW f, Follows(f, S, c, base, step, A),
         NEW I, <<{}, base>> \in I, Steady(I, S, c, step, A)
  PROVE  f[S] \in A /\ <<S, f[S]>> \in I
<1>1. PICK g : Folds(g, S, c, base, step, A)
  BY FoldExists DEF Picks, Closed
<1>2. \A T \in SUBSET S : f[T] = g[T]
  BY <1>1, FoldAgrees DEF Picks
<1> DEFINE B == {T \in SUBSET S : <<T, f[T]>> \notin I}
<1>3. B = {}
  <2> SUFFICES ASSUME B # {}  PROVE FALSE
    OBVIOUS
  <2>1. PICK T \in B : \A U \in B : ~(U \subseteq T /\ U # T)
    <3>1. B \subseteq SUBSET S
      OBVIOUS
    <3> HIDE DEF B
    <3> QED
      BY <3>1, SmallestSubset
  <2>2. T \in SUBSET S /\ <<T, f[T]>> \notin I
    OBVIOUS
  <2>3. T # {}
    BY <2>2 DEF Follows
  <2> DEFINE R == T \ {c[T]}
  <2>4. R \in SUBSET S /\ R \subseteq T /\ R # T
    BY <2>2, <2>3 DEF Picks
  <2>5. <<R, f[R]>> \in I
    BY <2>1, <2>4
  <2>6. f[R] = g[R] /\ f[T] = g[T] /\ g[R] \in A
    BY <1>1, <1>2, <2>2, <2>4 DEF Folds
  <2>7. f[T] = step[<<c[T], f[R]>>]
    BY <2>2, <2>3, <2>6 DEF Follows
  <2> QED
    BY <2>2, <2>3, <2>5, <2>6, <2>7 DEF Steady
<1>4. f[S] \in A
  BY <1>1, <1>2 DEF Folds
<1> QED
  BY <1>3, <1>4
-------------------------------------------------------------------------------
(* Ranks: how many of a finite set come before an element, in a strict     *)
(* linear order.  No two elements have the same rank, and every number     *)
(* below the size of the set is one.                                       *)
Strict(R, S) == Linear(R, S) /\ \A x \in S : <<x, x>> \notin R
Preceding(R, S, x) == {y \in S : <<y, x>> \in R}
RankIn(R, S, x) == Cardinality(Preceding(R, S, x))

LEMMA PrecedingFinite ==
  ASSUME NEW S, IsFiniteSet(S), NEW R, NEW x
  PROVE  IsFiniteSet(Preceding(R, S, x)) /\ RankIn(R, S, x) \in Nat
<1>1. Preceding(R, S, x) \in SUBSET S
  BY DEF Preceding
<1>2. IsFiniteSet(Preceding(R, S, x))
  BY <1>1, FS_Subset
<1> QED
  BY <1>2, FS_CardinalityType DEF RankIn

LEMMA RankBelow ==
  ASSUME NEW S, IsFiniteSet(S), NEW R, Strict(R, S), NEW x \in S
  PROVE  RankIn(R, S, x) \in Nat /\ RankIn(R, S, x) < Cardinality(S)
<1>1. Preceding(R, S, x) \in SUBSET S /\ x \notin Preceding(R, S, x)
  BY DEF Preceding, Strict
<1>2. IsFiniteSet(Preceding(R, S, x)) /\ RankIn(R, S, x) \in Nat
  BY PrecedingFinite
<1>3. /\ Cardinality(Preceding(R, S, x)) <= Cardinality(S)
      /\ Cardinality(S) = Cardinality(Preceding(R, S, x)) => S = Preceding(R, S, x)
  BY <1>1, FS_Subset
<1>4. Cardinality(S) \in Nat
  BY FS_CardinalityType
<1> QED
  BY <1>1, <1>2, <1>3, <1>4 DEF RankIn

LEMMA RankGrows ==
  ASSUME NEW S, IsFiniteSet(S), NEW R, Strict(R, S), NEW x \in S, NEW y \in S,
         <<x, y>> \in R
  PROVE  RankIn(R, S, x) < RankIn(R, S, y)
<1> DEFINE B == Preceding(R, S, x)
           C == Preceding(R, S, y)
<1>1. B \cup {x} \subseteq C /\ x \notin B
  BY DEF Preceding, Strict, Linear
<1>2. /\ IsFiniteSet(B) /\ IsFiniteSet(C)
      /\ RankIn(R, S, x) = Cardinality(B) /\ RankIn(R, S, y) = Cardinality(C)
      /\ RankIn(R, S, x) \in Nat /\ RankIn(R, S, y) \in Nat
  BY PrecedingFinite DEF RankIn
<1> HIDE DEF B, C
<1>3. Cardinality(B \cup {x}) = Cardinality(B) + 1
  BY <1>1, <1>2, FS_AddElement
<1>4. Cardinality(B \cup {x}) <= Cardinality(C)
  BY <1>1, <1>2, FS_Subset
<1> QED
  BY <1>2, <1>3, <1>4

LEMMA RanksDiffer ==
  ASSUME NEW S, IsFiniteSet(S), NEW R, Strict(R, S), NEW x \in S, NEW y \in S,
         RankIn(R, S, x) = RankIn(R, S, y)
  PROVE  x = y
<1>1. RankIn(R, S, x) \in Nat /\ RankIn(R, S, y) \in Nat
  BY PrecedingFinite
<1>2. ASSUME x # y PROVE FALSE
  <2>1. <<x, y>> \in R \/ <<y, x>> \in R
    BY <1>2 DEF Strict, Linear
  <2> QED
    BY <1>1, <2>1, RankGrows
<1> QED
  BY <1>2

LEMMA RanksReached ==
  ASSUME NEW S, IsFiniteSet(S), NEW R, Strict(R, S),
         NEW k \in Nat, k < Cardinality(S)
  PROVE  \E x \in S : RankIn(R, S, x) = k
<1> DEFINE n == Cardinality(S)
           T == 0 .. n - 1
           f == [x \in S |-> RankIn(R, S, x)]
<1>1. n \in Nat
  BY FS_CardinalityType
<1>2. ASSUME NEW x \in S PROVE RankIn(R, S, x) \in T
  BY <1>1, <1>2, RankBelow
<1>3. f \in Injection(S, T)
  <2>1. f \in [S -> T]
    BY <1>2
  <2>2. ASSUME NEW x \in S, NEW y \in S, f[x] = f[y] PROVE x = y
    BY <2>2, RanksDiffer
  <2> HIDE DEF f, T
  <2> QED
    BY <2>1, <2>2 DEF Injection, IsInjective
<1>4. IsFiniteSet(T) /\ Cardinality(T) = n
  <2> HIDE DEF n
  <2>1. /\ IsFiniteSet(0 .. n - 1)
        /\ Cardinality(0 .. n - 1) = IF 0 > n - 1 THEN 0 ELSE n - 1 - 0 + 1
    BY <1>1, FS_Interval
  <2> QED
    BY <1>1, <2>1
<1>5. f \in Surjection(S, T)
  <2> HIDE DEF f, T
  <2> QED
    BY <1>3, <1>4, FS_Injection
<1>6. \E x \in S : f[x] = k
  <2>1. k \in T
    BY <1>1
  <2> HIDE DEF f, T
  <2> QED
    BY <1>5, <2>1 DEF Surjection
<1> QED
  BY <1>6

(* New rows go to free places, each to the one of its rank: to different   *)
(* ones, and all find one.                                                 *)
LEMMA PlacesByRank ==
  ASSUME NEW N, IsFiniteSet(N), NEW P, Strict(P, N),
         NEW F, IsFiniteSet(F), NEW R, Strict(R, F), Cardinality(N) <= Cardinality(F)
  PROVE  \E f : /\ Renames(f, N, F)
                /\ \A d \in N, i \in F :
                     RankIn(P, N, d) = RankIn(R, F, i) <=> f[d] = i
<1>1. Cardinality(N) \in Nat /\ Cardinality(F) \in Nat
  BY FS_CardinalityType
<1> DEFINE f == [d \in N |-> CHOOSE i \in F : RankIn(R, F, i) = RankIn(P, N, d)]
<1>2. ASSUME NEW d \in N
      PROVE  f[d] \in F /\ RankIn(R, F, f[d]) = RankIn(P, N, d)
  <2>1. RankIn(P, N, d) \in Nat /\ RankIn(P, N, d) < Cardinality(F)
    BY <1>1, RankBelow
  <2>2. \E i \in F : RankIn(R, F, i) = RankIn(P, N, d)
    BY <2>1, RanksReached
  <2> QED
    BY <2>2
<1>3. f \in [N -> F]
  BY <1>2
<1> HIDE DEF f
<1>4. ASSUME NEW x \in N, NEW y \in N, f[x] = f[y] PROVE x = y
  <2>1. RankIn(P, N, x) = RankIn(P, N, y)
    BY <1>2, <1>4
  <2> QED
    BY <2>1, RanksDiffer
<1>5. ASSUME NEW d \in N, NEW i \in F
      PROVE  RankIn(P, N, d) = RankIn(R, F, i) <=> f[d] = i
  <2>1. f[d] \in F /\ RankIn(R, F, f[d]) = RankIn(P, N, d)
    BY <1>2
  <2> QED
    BY <2>1, RanksDiffer
<1> QED
  BY <1>3, <1>4, <1>5 DEF Renames
LEMMA IntsStrict ==
  ASSUME NEW F, F \subseteq Int
  PROVE  Strict({p \in F \X F : p[1] < p[2]}, F)
<1> DEFINE R == {p \in F \X F : p[1] < p[2]}
<1>1. \A x, y \in F : <<x, y>> \in R <=> x < y
  OBVIOUS
<1>2. \A x \in F : x \in Int
  OBVIOUS
<1> HIDE DEF R
<1>3. \A x, y \in F : x # y => <<x, y>> \in R \/ <<y, x>> \in R
  BY <1>1, <1>2
<1>4. \A x, y, z \in F : <<x, y>> \in R /\ <<y, z>> \in R => <<x, z>> \in R
  BY <1>1, <1>2
<1>5. \A x \in F : <<x, x>> \notin R
  BY <1>1, <1>2
<1> QED
  BY <1>3, <1>4, <1>5 DEF Strict, Linear, R

-------------------------------------------------------------------------------
Lefts == [Cells -> Int \cup {None}]
Entries == [cell : Cells, deducted : Int, created : BOOLEAN]
Drafts == [left : Lefts, missing : Int, ledger : Seq(Entries)]
Given == [order : Orders, factory : Factories, day : Calendar, qty : Nat \ {0}]

(* What a run may read.                                                    *)
RowsFit(rows) ==
  /\ DOMAIN rows \subseteq Orders
  /\ \A o \in DOMAIN rows : rows[o].qty \in Int /\ rows[o].due \in Int
KeptFits(in) ==
  \A o \in DOMAIN in.rows :
    IsFiniteSet(in.kept[o]) /\ \A w \in in.kept[o] : w.qty \in Int
InputFits(in) ==
  /\ RowsFit(in.rows) /\ KeptFits(in)
  /\ in.left \in Lefts /\ in.room \in [Factories -> Int]
  /\ in.start \in Int /\ in.end \in Int \cup {None}

LEMMA CellsFinite ==
  /\ IsFiniteSet(Calendar) /\ Calendar \subseteq Int
  /\ IsFiniteSet(Factories) /\ Factories \subseteq Int
  /\ \A D \in SUBSET Calendar : IsFiniteSet(D) /\ IsFiniteSet(Factories \X D)
<1>1. IsFiniteSet(Calendar) /\ Calendar \subseteq Int
  BY StrategyAssumption, FS_Interval DEF Calendar
<1>2. IsFiniteSet(Factories) /\ Factories \subseteq Int
  BY StrategyAssumption
<1>3. \A D \in SUBSET Calendar : IsFiniteSet(D)
  BY <1>1, FS_Subset
<1>4. \A D \in SUBSET Calendar : IsFiniteSet(Factories \X D)
  BY <1>2, <1>3, FS_Product
<1> QED
  BY <1>1, <1>2, <1>3, <1>4

-------------------------------------------------------------------------------
(* Amounts are sums.                                                       *)
Qty(W) == [w \in W |-> w.qty]
Sized(W) == IsFiniteSet(W) /\ \A w \in W : w.qty \in Int

LEMMA AmountIsSum ==
  ASSUME NEW W
  PROVE  Amount(W) = SumOf(Qty(W), W)
<1> DEFINE q == Qty(W)
           A(g) == g = [s \in SUBSET W |->
                          IF s = {} THEN 0
                          ELSE q[CHOOSE x \in s : TRUE]
                               + g[s \ {CHOOSE x \in s : TRUE}]]
           B(g) == g = [s \in SUBSET W |->
                          IF s = {} THEN 0
                          ELSE (CHOOSE x \in s : TRUE).qty
                               + g[s \ {CHOOSE x \in s : TRUE}]]
<1>1. ASSUME NEW g PROVE A(g) <=> B(g)
  <2>1. ASSUME NEW s \in SUBSET W, s # {}
        PROVE  q[CHOOSE x \in s : TRUE] = (CHOOSE x \in s : TRUE).qty
    <3>1. (CHOOSE x \in s : TRUE) \in W
      BY <2>1
    <3> QED
      BY <3>1 DEF Qty
  <2> HIDE DEF q
  <2> QED
    BY <2>1
<1>2. Amount(W) = (CHOOSE g : B(g))[W]
  BY DEF Amount, MapThenSumSet, MapThenFoldSet
<1>3. SumOf(q, W) = (CHOOSE g : A(g))[W]
  BY DEF SumOf, MapThenSumSet, MapThenFoldSet
<1> HIDE DEF A, B
<1>4. (CHOOSE g : A(g)) = (CHOOSE g : B(g))
  BY <1>1
<1> QED
  BY <1>2, <1>3, <1>4 DEF q

LEMMA SizedPart ==
  ASSUME NEW W, Sized(W), NEW T \in SUBSET W
  PROVE  Sized(T) /\ Amount(T) = SumOf(Qty(W), T)
<1>1. Sized(T)
  BY FS_Subset DEF Sized
<1>2. Amount(T) = SumOf(Qty(T), T)
  BY <1>1, AmountIsSum
<1>3. \A x \in T : Qty(T)[x] \in Int /\ Qty(W)[x] = Qty(T)[x]
  BY <1>1 DEF Qty, Sized
<1>4. SumOf(Qty(T), T) = SumOf(Qty(W), T)
  BY <1>1, <1>3, SumSame DEF Sized
<1> QED
  BY <1>1, <1>2, <1>4

LEMMA AmountNone == Amount({}) = 0
<1>1. Sized({})
  BY FS_EmptySet DEF Sized
<1> QED
  BY <1>1, AmountIsSum, SumNone

LEMMA AmountInt ==
  ASSUME NEW W, Sized(W)
  PROVE  Amount(W) \in Int
<1>1. \A x \in W : Qty(W)[x] \in Int
  BY DEF Qty, Sized
<1> QED
  BY <1>1, AmountIsSum, SumInt DEF Sized

LEMMA AmountMore ==
  ASSUME NEW W, Sized(W), NEW w, w \notin W, w.qty \in Int
  PROVE  Sized(W \cup {w}) /\ Amount(W \cup {w}) = Amount(W) + w.qty
<1> DEFINE V == W \cup {w}
<1>1. Sized(V)
  BY FS_AddElement DEF Sized
<1>2. W \in SUBSET V /\ V \in SUBSET V
  OBVIOUS
<1>3. Amount(W) = SumOf(Qty(V), W) /\ Amount(V) = SumOf(Qty(V), V)
  <2> HIDE DEF V
  <2>1. \A T \in SUBSET V : Amount(T) = SumOf(Qty(V), T)
    BY ONLY <1>1, SizedPart
  <2> QED
    BY ONLY <1>2, <2>1
<1>4. Qty(V)[w] = w.qty /\ \A x \in W : Qty(V)[x] \in Int
  BY DEF Qty, Sized
<1>5. SumOf(Qty(V), V) = Qty(V)[w] + SumOf(Qty(V), W)
  <2> HIDE DEF Qty
  <2> QED
    BY <1>4, SumMore DEF Sized
<1>6. Amount(W) \in Int
  BY AmountInt
<1> QED
  BY <1>1, <1>3, <1>4, <1>5, <1>6

LEMMA AmountUnion ==
  ASSUME NEW W, Sized(W), NEW V, Sized(V), W \cap V = {}
  PROVE  Sized(W \cup V) /\ Amount(W \cup V) = Amount(W) + Amount(V)
<1> DEFINE U == W \cup V
<1>1. Sized(U)
  BY FS_Union DEF Sized
<1>2. W \in SUBSET U /\ V \in SUBSET U /\ U \in SUBSET U
  OBVIOUS
<1>3. /\ Amount(W) = SumOf(Qty(U), W) /\ Amount(V) = SumOf(Qty(U), V)
      /\ Amount(U) = SumOf(Qty(U), U)
  <2> HIDE DEF U
  <2> QED
    BY <1>1, <1>2, SizedPart
<1>4. \A x \in W \cup V : Qty(U)[x] \in Int
  BY DEF Qty, Sized
<1>5. SumOf(Qty(U), W \cup V) = SumOf(Qty(U), W) + SumOf(Qty(U), V)
  <2> HIDE DEF U
  <2> QED
    BY <1>4, SumUnion DEF Sized
<1> QED
  BY <1>1, <1>3, <1>5

LEMMA AmountOne ==
  ASSUME NEW w, w.qty \in Int
  PROVE  Sized({w}) /\ Amount({w}) = w.qty
<1>1. Sized({}) /\ w \notin {} /\ {} \cup {w} = {w}
  BY FS_EmptySet DEF Sized
<1>2. Sized({} \cup {w}) /\ Amount({} \cup {w}) = Amount({}) + w.qty
  BY <1>1, AmountMore
<1> QED
  BY <1>1, <1>2, AmountNone

(* Amounts of work that is there are natural, and more work is more.       *)
LEMMA AmountPart ==
  ASSUME NEW W, IsFiniteSet(W), \A w \in W : w.qty \in Nat, NEW T \in SUBSET W
  PROVE  /\ Amount(T) \in Nat /\ Amount(W) \in Nat /\ Amount(T) <= Amount(W)
         /\ \A w \in T : w.qty <= Amount(T)
<1>1. Sized(W) /\ Sized(T) /\ IsFiniteSet(T)
  BY FS_Subset DEF Sized
<1>2. \A x \in W : Qty(W)[x] \in Nat
  BY DEF Qty
<1>3. Amount(T) = SumOf(Qty(W), T) /\ Amount(W) = SumOf(Qty(W), W)
  BY <1>1, SizedPart, AmountIsSum
<1>4. SumOf(Qty(W), T) \in Nat /\ SumOf(Qty(W), T) <= SumOf(Qty(W), W)
  BY <1>2, SumAtLeast
<1>5. SumOf(Qty(W), W) \in Nat
  BY <1>2, SumNat
<1>6. \A w \in T : Qty(W)[w] <= SumOf(Qty(W), T)
  BY <1>1, <1>2, SumMember
<1>7. \A w \in T : Qty(W)[w] = w.qty
  BY DEF Qty
<1> QED
  BY <1>3, <1>4, <1>5, <1>6, <1>7
-------------------------------------------------------------------------------
(* The rollback undoes the ledger from its end, so that the last entry is  *)
(* undone first.                                                           *)
Undone(e, left) ==
  [left EXCEPT ![e.cell] = IF e.created \/ @ = None THEN None
                           ELSE @ + e.deducted]
Rolled(l, L) ==
  FoldRight(LAMBDA e, left :
              [left EXCEPT ![e.cell] = IF e.created \/ @ = None THEN None
                                       ELSE @ + e.deducted], l, L)
Undoes(l, S) == [p \in S \X Lefts |-> Undone(l[p[1]], p[2])]
Mins(S) == [T \in SUBSET S |-> Min(T)]

LEMMA UndoneTyped ==
  ASSUME NEW e \in Entries, NEW L \in Lefts
  PROVE  Undone(e, L) \in Lefts
<1>1. e.cell \in Cells /\ e.deducted \in Int
  BY DEF Entries
<1>2. L[e.cell] \in Int \cup {None}
  BY <1>1 DEF Lefts
<1>3. (IF e.created \/ L[e.cell] = None THEN None ELSE L[e.cell] + e.deducted)
        \in Int \cup {None}
  BY <1>1, <1>2
<1> QED
  BY <1>1, <1>3 DEF Undone, Lefts

LEMMA UndoesStep ==
  ASSUME NEW S, NEW l, \A i \in S : l[i] \in Entries,
         NEW x \in S, NEW a \in Lefts
  PROVE  Undoes(l, S)[<<x, a>>] = Undone(l[x], a)
         /\ Undoes(l, S)[<<x, a>>] \in Lefts
<1>1. Undoes(l, S)[<<x, a>>] = Undone(l[x], a)
  BY DEF Undoes
<1> QED
  BY <1>1, UndoneTyped

LEMMA MinsChosen ==
  ASSUME NEW S, IsFiniteSet(S), S \subseteq Int
  PROVE  \A T \in SUBSET S : T # {} => Mins(S)[T] = Min(T) /\ Min(T) \in T
                                     /\ \A y \in T : Min(T) <= y
<1> TAKE T \in SUBSET S
<1>1. IsFiniteSet(T) /\ T \subseteq Int
  BY FS_Subset
<1> QED
  BY <1>1, MinChosen DEF Mins

LEMMA RollFold ==
  ASSUME NEW l \in Seq(Entries), NEW L \in Lefts
  PROVE  \E f : /\ Follows(f, DOMAIN l, Mins(DOMAIN l), L, Undoes(l, DOMAIN l), Lefts)
                /\ Rolled(l, L) = f[DOMAIN l]
<1> DEFINE S == DOMAIN l
           c == Mins(S)
           step == Undoes(l, S)
           Iter(g) == g = [s \in SUBSET S |->
                             IF s = {} THEN L
                             ELSE LET x == Min(s) IN
                               [g[s \ {x}] EXCEPT ![l[x].cell] =
                                  IF l[x].created \/ @ = None THEN None
                                  ELSE @ + l[x].deducted]]
<1>0. IsFiniteSet(S) /\ S \subseteq Int /\ \A i \in S : l[i] \in Entries
  <2>1. S = 1 .. Len(l) /\ Len(l) \in Nat
    OBVIOUS
  <2> QED
    BY <2>1, FS_Interval
<1>1. \A T \in SUBSET S : T # {} => c[T] \in T /\ c[T] = Min(T)
  BY <1>0, MinsChosen
<1>2. \A x \in S, a \in Lefts : /\ step[<<x, a>>] = Undone(l[x], a)
                                /\ step[<<x, a>>] \in Lefts
  <2> HIDE DEF S
  <2> QED
    BY <1>0, UndoesStep
<1>3. PICK g : Folds(g, S, c, L, step, Lefts)
  <2> HIDE DEF S, c, step
  <2> QED
    BY <1>0, <1>1, <1>2, FoldExists
<1>4. Iter(g)
  <2>1. ASSUME NEW s \in SUBSET S, s # {}
        PROVE  g[s] = Undone(l[Min(s)], g[s \ {Min(s)}])
    <3>1. c[s] = Min(s) /\ Min(s) \in S
      BY <1>1, <2>1
    <3>2. g[s \ {Min(s)}] \in Lefts
      BY <1>3 DEF Folds
    <3>3. g[s] = step[<<Min(s), g[s \ {Min(s)}]>>]
      BY <1>3, <2>1, <3>1 DEF Folds
    <3> QED
      BY <1>2, <3>1, <3>2, <3>3
  <2>2. g[{}] = L
    BY <1>3 DEF Folds
  <2>3. g = [s \in SUBSET S |-> g[s]]
    BY <1>3 DEF Folds
  <2>4. \A s \in SUBSET S :
          g[s] = IF s = {} THEN L ELSE Undone(l[Min(s)], g[s \ {Min(s)}])
    BY <2>1, <2>2
  <2>5. g = [s \in SUBSET S |->
               IF s = {} THEN L ELSE Undone(l[Min(s)], g[s \ {Min(s)}])]
    BY ONLY <2>3, <2>4
  <2> QED
    BY <2>5 DEF Undone
<1> DEFINE f == CHOOSE h : Iter(h)
<1>5. Iter(f)
  BY <1>4
<1>6. Rolled(l, L) = f[S]
  BY DEF Rolled, FoldRight, MapThenFoldSet
<1>7. Follows(f, S, c, L, step, Lefts)
  <2> HIDE DEF f
  <2>1. f[{}] = L
    BY <1>5
  <2>2. ASSUME NEW T \in SUBSET S, T # {}, f[T \ {c[T]}] \in Lefts
        PROVE  f[T] = step[<<c[T], f[T \ {c[T]}]>>]
    <3>1. c[T] = Min(T) /\ Min(T) \in S
      BY <1>1, <2>2
    <3>2. f[T] = Undone(l[Min(T)], f[T \ {Min(T)}])
      BY <1>5, <2>2 DEF Undone
    <3>3. step[<<Min(T), f[T \ {Min(T)}]>>] = Undone(l[Min(T)], f[T \ {Min(T)}])
      BY <1>2, <2>2, <3>1
    <3> QED
      BY <3>1, <3>2, <3>3
  <2> QED
    BY <2>1, <2>2 DEF Follows
<1> QED
  BY <1>6, <1>7

LEMMA RolledNothing ==
  ASSUME NEW L \in Lefts
  PROVE  Rolled(<<>>, L) = L
<1>1. <<>> \in Seq(Entries) /\ DOMAIN <<>> = {}
  OBVIOUS
<1>2. PICK f : Follows(f, {}, Mins({}), L, Undoes(<<>>, {}), Lefts)
               /\ Rolled(<<>>, L) = f[{}]
  BY <1>1, RollFold
<1> QED
  BY <1>2 DEF Follows

LEMMA RolledAppend ==
  ASSUME NEW l \in Seq(Entries), NEW e \in Entries, NEW L \in Lefts
  PROVE  Rolled(Append(l, e), L) = Rolled(l, Undone(e, L))
<1> DEFINE n == Len(l)
           m == Append(l, e)
           S == DOMAIN l
           U == DOMAIN m
           M == Undone(e, L)
<1>0. /\ n \in Nat /\ S = 1 .. n /\ U = 1 .. n + 1 /\ U = S \cup {n + 1}
      /\ n + 1 \notin S /\ IsFiniteSet(S) /\ IsFiniteSet(U)
      /\ S \subseteq Int /\ U \subseteq Int
      /\ m \in Seq(Entries) /\ m[n + 1] = e /\ \A i \in S : m[i] = l[i]
      /\ \A i \in U : m[i] \in Entries
  <2>1. n \in Nat /\ S = 1 .. n /\ U = 1 .. n + 1
    OBVIOUS
  <2>2. IsFiniteSet(1 .. n) /\ IsFiniteSet(1 .. n + 1)
    BY <2>1, FS_Interval
  <2>3. m \in Seq(Entries) /\ m[n + 1] = e /\ \A i \in S : m[i] = l[i]
    OBVIOUS
  <2>4. \A i \in U : m[i] \in Entries
    OBVIOUS
  <2> QED
    BY <2>1, <2>2, <2>3, <2>4
<1>1. M \in Lefts
  BY UndoneTyped
<1>2. PICK f : Follows(f, U, Mins(U), L, Undoes(m, U), Lefts)
               /\ Rolled(m, L) = f[U]
  <2> HIDE DEF m
  <2> QED
    BY <1>0, RollFold
<1>3. PICK g : Follows(g, S, Mins(S), M, Undoes(l, S), Lefts)
               /\ Rolled(l, M) = g[S]
  <2> HIDE DEF M
  <2> QED
    BY <1>1, RollFold
<1>4. \A T \in SUBSET U : T # {} => Mins(U)[T] = Min(T) /\ Min(T) \in T
                                     /\ \A y \in T : Min(T) <= y
  <2> HIDE DEF U
  <2> QED
    BY <1>0, MinsChosen
<1>5. \A T \in SUBSET S : T # {} => Mins(S)[T] = Min(T) /\ Min(T) \in T
                                     /\ \A y \in T : Min(T) <= y
  <2> HIDE DEF S
  <2> QED
    BY <1>0, MinsChosen
<1>6. \A x \in U, a \in Lefts : Undoes(m, U)[<<x, a>>] = Undone(m[x], a)
  <2> HIDE DEF n, m, S, U, M
  <2>2. \A i \in U : m[i] \in Entries
    BY ONLY <1>0
  <2>3. ASSUME NEW x \in U, NEW a \in Lefts
        PROVE  Undoes(m, U)[<<x, a>>] = Undone(m[x], a)
    BY ONLY <2>2, <2>3, UndoesStep
  <2> QED
    BY <2>3
<1>7. \A x \in S, a \in Lefts : /\ Undoes(l, S)[<<x, a>>] = Undone(l[x], a)
                                /\ Undoes(l, S)[<<x, a>>] \in Lefts
  <2>1. \A i \in S : l[i] \in Entries
    OBVIOUS
  <2> HIDE DEF S
  <2> QED
    BY <2>1, UndoesStep
<1> DEFINE h == [T \in SUBSET S |-> f[T \cup {n + 1}]]
<1> HIDE DEF n, m, S, U, M
<1>8. h[{}] = M
  <2>1. {n + 1} \in SUBSET U /\ {n + 1} # {} /\ {} \cup {n + 1} = {n + 1}
    BY <1>0
  <2>2. Mins(U)[{n + 1}] = n + 1 /\ {n + 1} \ {n + 1} = {}
    BY <1>4, <2>1
  <2>3. f[{}] = L
    BY <1>2 DEF Follows
  <2>4. f[{n + 1}] = Undoes(m, U)[<<n + 1, L>>]
    BY <1>2, <2>1, <2>2, <2>3 DEF Follows
  <2>5. f[{n + 1}] = Undone(e, L)
    BY <1>0, <1>6, <2>4
  <2>6. {} \in SUBSET S
    OBVIOUS
  <2> QED
    BY <2>1, <2>5, <2>6 DEF M
<1>9. Follows(h, S, Mins(S), M, Undoes(l, S), Lefts)
  <2>1. ASSUME NEW T \in SUBSET S, T # {}, h[T \ {Mins(S)[T]}] \in Lefts
        PROVE  h[T] = Undoes(l, S)[<<Mins(S)[T], h[T \ {Mins(S)[T]}]>>]
    <3> DEFINE x == Min(T)
               V == T \cup {n + 1}
    <3>1. Mins(S)[T] = x /\ x \in T /\ x \in S
      BY <1>5, <2>1
    <3>2. V \in SUBSET U /\ V # {}
      BY <1>0, <2>1
    <3>3. Mins(U)[V] = x
      <4>1. Mins(U)[V] = Min(V) /\ Min(V) \in V /\ \A y \in V : Min(V) <= y
        <5> HIDE DEF V
        <5> QED
          BY <1>4, <3>2
      <4>2. x \in V /\ x <= n /\ \A y \in T : x <= y
        <5>1. \A y \in T : x <= y
          BY <1>5, <2>1
        <5>2. x \in 1 .. n
          BY ONLY <1>0, <3>1
        <5> QED
          BY <3>1, <5>1, <5>2
      <4>3. Min(V) # n + 1
        <5>1. Min(V) <= x
          BY <4>1, <4>2
        <5>2. n \in Int /\ x \in Int
          BY <1>0, <3>1
        <5> QED
          BY ONLY <4>2, <5>1, <5>2
      <4>4. Min(V) \in T /\ Min(V) <= x /\ x <= Min(V)
        BY <4>1, <4>2, <4>3
      <4>5. Min(V) \in Int /\ x \in Int
        BY <1>0, <3>1, <4>4
      <4> QED
        BY <4>1, <4>4, <4>5
    <3>4. V \ {x} = (T \ {x}) \cup {n + 1} /\ T \ {x} \in SUBSET S
      BY <1>0, <3>1
    <3>5. h[T \ {x}] = f[V \ {x}] /\ h[T] = f[V] /\ f[V \ {x}] \in Lefts
      BY <2>1, <3>1, <3>4
    <3>6. f[V] = Undoes(m, U)[<<x, f[V \ {x}]>>]
      <4> HIDE DEF V, x
      <4> QED
        BY <1>2, <3>2, <3>3, <3>5 DEF Follows
    <3>7. Undoes(m, U)[<<x, f[V \ {x}]>>] = Undone(l[x], f[V \ {x}])
      BY <1>0, <1>6, <3>1, <3>5
    <3>8. Undoes(l, S)[<<x, f[V \ {x}]>>] = Undone(l[x], f[V \ {x}])
      BY <1>7, <3>1, <3>5
    <3> QED
      BY <3>1, <3>5, <3>6, <3>7, <3>8
  <2> QED
    BY <1>8, <2>1 DEF Follows
<1>10. Picks(Mins(S), S) /\ Closed(Undoes(l, S), S, Lefts)
  BY <1>5, <1>7 DEF Picks, Closed
<1>11. h[S] = g[S]
  <2> HIDE DEF h
  <2> QED
    BY ONLY <1>0, <1>1, <1>3, <1>9, <1>10, FollowersAgree
<1>12. h[S] = f[U]
  BY <1>0
<1> QED
  BY <1>2, <1>3, <1>11, <1>12 DEF m, M, S, U
-------------------------------------------------------------------------------
(* The books of a draft, at an order o that missed m when the cells stood  *)
(* at L: the ledger leads back to L; the work placed is what is not        *)
(* missing any more, a piece on a cell at most; and each cell has what it  *)
(* had, less what was placed on it.                                        *)
Piece(o, e) == [order |-> o, factory |-> e.cell[1], day |-> e.cell[2],
                qty |-> e.deducted]
Placed(d, o) ==
  {[order |-> o, factory |-> e.cell[1], day |-> e.cell[2], qty |-> e.deducted] :
     e \in {x \in ToSet(d.ledger) : ~x.created}}
On(W, c) == {w \in W : <<w.factory, w.day>> = c}
Stands(in, L, W, left, c) ==
  IF left[c] = None THEN L[c] = None /\ On(W, c) = {}
  ELSE /\ left[c] = Free(in, L, c) - Amount(On(W, c))
       /\ On(W, c) # {} => left[c] >= 0
Pile(W) == W \subseteq Given /\ IsFiniteSet(W)
Spread(W) ==
  /\ W \subseteq Given /\ IsFiniteSet(W)
  /\ \A v, w \in W : <<v.factory, v.day>> = <<w.factory, w.day>> => v = w
Books(in, L, m, o, d) ==
  /\ d \in Drafts /\ Rolled(d.ledger, d.left) = L
  /\ Spread(Placed(d, o)) /\ Amount(Placed(d, o)) = m - d.missing
  /\ \A c \in Cells : Stands(in, L, Placed(d, o), d.left, c)

LEMMA ToSetAppend ==
  ASSUME NEW l \in Seq(Entries), NEW e \in Entries
  PROVE  /\ ToSet(Append(l, e)) = ToSet(l) \cup {e}
         /\ Append(l, e) \in Seq(Entries)
<1> DEFINE m == Append(l, e)
           n == Len(l)
<1>1. /\ n \in Nat /\ DOMAIN l = 1 .. n /\ DOMAIN m = 1 .. n + 1
      /\ \A i \in 1 .. n : m[i] = l[i]
      /\ m[n + 1] = e /\ m \in Seq(Entries)
  OBVIOUS
<1>2. ToSet(m) = {m[i] : i \in 1 .. n + 1} /\ ToSet(l) = {l[i] : i \in 1 .. n}
  BY <1>1 DEF ToSet
<1> HIDE DEF m, n
<1>3. 1 .. n + 1 = (1 .. n) \cup {n + 1}
  BY <1>1
<1>4. {m[i] : i \in 1 .. n + 1} = {l[i] : i \in 1 .. n} \cup {e}
  BY ONLY <1>1, <1>3
<1> QED
  BY <1>1, <1>2, <1>4 DEF m

LEMMA EntriesTyped ==
  ASSUME NEW l \in Seq(Entries)
  PROVE  ToSet(l) \subseteq Entries
  BY DEF ToSet

LEMMA FreeInt ==
  ASSUME NEW in, in.room \in [Factories -> Int], NEW L \in Lefts, NEW c \in Cells
  PROVE  Free(in, L, c) \in Int
  BY DEF Free, Lefts, Cells

LEMMA PileOn ==
  ASSUME NEW W, Pile(W), NEW c
  PROVE  /\ On(W, c) \subseteq W /\ IsFiniteSet(On(W, c)) /\ Sized(On(W, c))
         /\ Amount(On(W, c)) \in Nat
         /\ Amount(On(W, c)) = 0 <=> On(W, c) = {}
<1>1. On(W, c) \subseteq W /\ IsFiniteSet(On(W, c))
  BY FS_Subset DEF On, Pile
<1>2. \A w \in On(W, c) : w.qty \in Nat /\ w.qty > 0
  BY <1>1 DEF Pile, Given
<1>3. Sized(On(W, c))
  BY <1>1, <1>2 DEF Sized
<1>4. /\ Amount(On(W, c)) \in Nat
      /\ \A w \in On(W, c) : w.qty <= Amount(On(W, c))
  BY <1>1, <1>2, AmountPart
<1>5. CASE On(W, c) = {}
  BY <1>1, <1>3, <1>4, <1>5, AmountNone
<1>6. CASE On(W, c) # {}
  <2>1. PICK w \in On(W, c) : TRUE
    BY <1>6
  <2>2. Amount(On(W, c)) # 0
    BY <1>2, <1>4, <2>1
  <2> QED
    BY <1>1, <1>3, <1>4, <1>6, <2>2
<1> QED
  BY <1>5, <1>6

LEMMA OnSized ==
  ASSUME NEW W, Spread(W), NEW c
  PROVE  /\ On(W, c) \subseteq W /\ IsFiniteSet(On(W, c)) /\ Sized(On(W, c))
         /\ Amount(On(W, c)) \in Nat
         /\ Amount(On(W, c)) = 0 <=> On(W, c) = {}
<1>1. Pile(W)
  BY DEF Spread, Pile
<1> QED
  BY <1>1, PileOn

(* A row that is created has the room the cell had without one.            *)
LEMMA BooksCreated ==
  ASSUME NEW in, in.room \in [Factories -> Int], NEW L \in Lefts, NEW m \in Int,
         NEW o \in Orders, NEW c \in Cells, NEW d, Books(in, L, m, o, d)
  PROVE  LET e == Created(in, d, c) IN
         /\ Books(in, L, m, o, e)
         /\ Placed(e, o) = Placed(d, o) /\ e.missing = d.missing
         /\ e.left[c] = Free(in, d.left, c) /\ e.left[c] \in Int
         /\ \A b \in Cells \ {c} : e.left[b] = d.left[b]
<1> DEFINE e == Created(in, d, c)
<1>0. d \in Drafts /\ d.left \in Lefts /\ d.left[c] \in Int \cup {None}
      /\ in.room[c[1]] \in Int
  BY DEF Books, Drafts, Lefts, Cells
<1>1. CASE d.left[c] # None
  <2>1. e = d
    BY <1>1 DEF Created
  <2>2. d.left[c] = Free(in, d.left, c) /\ d.left[c] \in Int
    BY <1>0, <1>1 DEF Free
  <2> QED
    BY <2>1, <2>2
<1>2. CASE d.left[c] = None
  <2> DEFINE x == [cell |-> c, deducted |-> 0, created |-> TRUE]
  <2>1. e = [left |-> [d.left EXCEPT ![c] = in.room[c[1]]],
             missing |-> d.missing, ledger |-> Append(d.ledger, x)]
    BY <1>0, <1>2 DEF Created, Drafts
  <2>2. x \in Entries /\ d.ledger \in Seq(Entries) /\ d.missing \in Int
    BY <1>0 DEF Entries, Drafts
  <2>3. /\ e.left \in Lefts /\ e.left[c] = in.room[c[1]]
        /\ \A b \in Cells \ {c} : e.left[b] = d.left[b]
    BY <1>0, <2>1 DEF Lefts
  <2>4. e.ledger = Append(d.ledger, x) /\ e.missing = d.missing
    BY <2>1
  <2>5. ToSet(e.ledger) = ToSet(d.ledger) \cup {x} /\ e.ledger \in Seq(Entries)
    <3> HIDE DEF e, x
    <3> QED
      BY <2>2, <2>4, ToSetAppend
  <2>6. Placed(e, o) = Placed(d, o)
    <3>1. x.created
      OBVIOUS
    <3> HIDE DEF e, x
    <3> QED
      BY <2>5, <3>1 DEF Placed
  <2>7. e \in Drafts
    <3>1. e = [left |-> e.left, missing |-> e.missing, ledger |-> e.ledger]
      BY <2>1
    <3> HIDE DEF e
    <3> QED
      BY <2>2, <2>3, <2>4, <2>5, <3>1 DEF Drafts
  <2>8. Undone(x, e.left) = d.left
    <3>1. Undone(x, e.left) = [e.left EXCEPT ![c] = None]
      BY DEF Undone
    <3>2. [e.left EXCEPT ![c] = None] = d.left
      <4> HIDE DEF e
      <4> QED
        BY <1>0, <1>2, <2>3 DEF Lefts
    <3> QED
      BY <3>1, <3>2
  <2>9. Rolled(e.ledger, e.left) = L
    <3>1. Rolled(Append(d.ledger, x), e.left) = Rolled(d.ledger, Undone(x, e.left))
      <4> HIDE DEF e, x
      <4> QED
        BY <2>2, <2>3, RolledAppend
    <3> HIDE DEF e, x
    <3> QED
      BY <2>4, <2>8, <3>1 DEF Books
  <2>10. ASSUME NEW b \in Cells
         PROVE  Stands(in, L, Placed(e, o), e.left, b)
    <3>1. Stands(in, L, Placed(d, o), d.left, b)
      BY DEF Books
    <3>2. CASE b # c
      <4> HIDE DEF e
      <4> QED
        BY <2>3, <2>6, <3>1, <3>2 DEF Stands
    <3>3. CASE b = c
      <4>1. L[c] = None /\ On(Placed(d, o), c) = {}
        BY <1>2, <3>1, <3>3 DEF Stands
      <4>2. e.left[c] = Free(in, L, c) /\ e.left[c] # None
        <5> HIDE DEF e
        <5> QED
          BY <1>0, <2>3, <4>1, StrategyAssumption DEF Free
      <4>3. Amount(On(Placed(d, o), c)) = 0
        BY <4>1, AmountNone
      <4>4. Free(in, L, c) \in Int
        BY FreeInt
      <4> HIDE DEF e
      <4> QED
        BY <2>6, <3>3, <4>1, <4>2, <4>3, <4>4 DEF Stands
    <3> QED
      BY <3>2, <3>3
  <2>11. e.left[c] = Free(in, d.left, c) /\ e.left[c] \in Int
    <3> HIDE DEF e
    <3> QED
      BY <1>0, <1>2, <2>3 DEF Free
  <2> HIDE DEF e
  <2>12. Books(in, L, m, o, e)
    BY <2>4, <2>6, <2>7, <2>9, <2>10 DEF Books
  <2> QED
    BY <2>3, <2>4, <2>6, <2>11, <2>12 DEF e
<1> QED
  BY <1>1, <1>2
(* What is deducted from a cell for the first time is a piece placed there.*)
LEMMA BooksDeduct ==
  ASSUME NEW in, in.room \in [Factories -> Int], NEW L \in Lefts, NEW m \in Int,
         NEW o \in Orders, NEW c \in Cells, NEW d, Books(in, L, m, o, d),
         d.left[c] \in Int, On(Placed(d, o), c) = {},
         NEW n \in Nat \ {0}, n <= d.left[c]
  PROVE  LET e == Deduct(d, c, n) IN
         /\ Books(in, L, m, o, e)
         /\ e.missing = d.missing - n
         /\ e.left[c] = d.left[c] - n
         /\ \A b \in Cells \ {c} :
              e.left[b] = d.left[b] /\ On(Placed(e, o), b) = On(Placed(d, o), b)
<1> DEFINE e == Deduct(d, c, n)
           x == [cell |-> c, deducted |-> n, created |-> FALSE]
           w == [order |-> o, factory |-> c[1], day |-> c[2], qty |-> n]
           W == Placed(d, o)
           V == Placed(e, o)
<1>0. d \in Drafts /\ d.left \in Lefts /\ d.missing \in Int
      /\ d.ledger \in Seq(Entries) /\ n \in Int
  BY DEF Books, Drafts
<1>1. e = [left |-> [d.left EXCEPT ![c] = @ - n], missing |-> d.missing - n,
           ledger |-> Append(d.ledger, x)]
  BY DEF Deduct
<1>2. x \in Entries /\ ~x.created /\ x.cell = c /\ x.deducted = n
  BY <1>0 DEF Entries
<1>3. /\ e.left \in Lefts /\ e.left[c] = d.left[c] - n
      /\ \A b \in Cells \ {c} : e.left[b] = d.left[b]
  BY <1>0, <1>1 DEF Lefts
<1>4. e.ledger = Append(d.ledger, x) /\ e.missing = d.missing - n
  BY <1>1
<1>5. ToSet(e.ledger) = ToSet(d.ledger) \cup {x} /\ e.ledger \in Seq(Entries)
  <2> HIDE DEF e, x
  <2> QED
    BY <1>0, <1>2, <1>4, ToSetAppend
<1>6. e \in Drafts
  <2>1. e = [left |-> e.left, missing |-> e.missing, ledger |-> e.ledger]
    BY <1>1
  <2>2. e.missing \in Int
    BY <1>0, <1>4
  <2> HIDE DEF e
  <2> QED
    BY <1>3, <1>5, <2>1, <2>2 DEF Drafts
<1>7. V = W \cup {w}
  <2> HIDE DEF e, x
  <2> QED
    BY <1>2, <1>5 DEF Placed
<1>8. /\ c = <<c[1], c[2]>> /\ c[1] \in Factories /\ c[2] \in Calendar
      /\ w \in Given /\ <<w.factory, w.day>> = c /\ w.qty = n
  BY DEF Cells, Given
<1>9. Undone(x, e.left) = d.left
  <2>1. Undone(x, e.left) = [e.left EXCEPT ![c] = e.left[c] + n]
    <3>1. e.left[c] # None
      BY <1>0, <1>3, StrategyAssumption
    <3> HIDE DEF e
    <3> QED
      BY <1>2, <3>1 DEF Undone
  <2>2. e.left[c] + n = d.left[c]
    BY <1>0, <1>3
  <2>3. [e.left EXCEPT ![c] = d.left[c]] = d.left
    <3> HIDE DEF e
    <3> QED
      BY <1>0, <1>3 DEF Lefts
  <2> QED
    BY <2>1, <2>2, <2>3
<1>10. Rolled(e.ledger, e.left) = L
  <2>1. Rolled(Append(d.ledger, x), e.left) = Rolled(d.ledger, Undone(x, e.left))
    <3> HIDE DEF e, x
    <3> QED
      BY <1>0, <1>2, <1>3, RolledAppend
  <2> HIDE DEF e, x
  <2> QED
    BY <1>4, <1>9, <2>1 DEF Books
<1>11. Spread(W) /\ Amount(W) = m - d.missing
  BY DEF Books
<1> HIDE DEF e, x, w, V, W
<1>12. \A v \in W : <<v.factory, v.day>> # c
  BY DEF On, W
<1>13. w \notin W
  BY <1>8, <1>12
<1>14. Spread(V)
  <2>1. IsFiniteSet(V)
    BY <1>7, <1>11, FS_AddElement DEF Spread
  <2>2. V \subseteq Given
    BY <1>7, <1>8, <1>11 DEF Spread
  <2>3. \A u, v \in V : <<u.factory, u.day>> = <<v.factory, v.day>> => u = v
    BY <1>7, <1>8, <1>11, <1>12 DEF Spread
  <2> QED
    BY <2>1, <2>2, <2>3 DEF Spread
<1>15. Amount(V) = m - e.missing
  <2>1. Sized(W) /\ w.qty \in Int
    BY <1>0, <1>8, <1>11 DEF Sized, Spread, Given
  <2>2. Amount(W \cup {w}) = Amount(W) + w.qty
    BY <1>13, <2>1, AmountMore
  <2> QED
    BY <1>0, <1>4, <1>7, <1>8, <1>11, <2>2
<1>16. /\ On(V, c) = {w}
       /\ \A b \in Cells \ {c} : On(V, b) = On(W, b)
  BY <1>7, <1>8, <1>12 DEF On
<1>17. Amount({w}) = n
  BY <1>0, <1>8, AmountOne
<1>18. ASSUME NEW b \in Cells
       PROVE  Stands(in, L, V, e.left, b)
  <2>1. Stands(in, L, W, d.left, b)
    BY DEF Books, W
  <2>2. CASE b # c
    BY <1>3, <1>16, <2>1, <2>2 DEF Stands
  <2>3. CASE b = c
    <3>1. d.left[c] # None /\ On(W, c) = {}
      BY StrategyAssumption DEF W
    <3>2. d.left[c] = Free(in, L, c) - Amount(On(W, c))
      BY <2>1, <2>3, <3>1 DEF Stands
    <3>3. Free(in, L, c) \in Int /\ Amount(On(W, c)) = 0
      BY <3>1, FreeInt, AmountNone
    <3>4. e.left[c] = Free(in, L, c) - n /\ e.left[c] >= 0 /\ e.left[c] \in Int
      BY <1>0, <1>3, <3>2, <3>3
    <3> QED
      BY <1>16, <1>17, <2>3, <3>4, StrategyAssumption DEF Stands
  <2> QED
    BY <2>2, <2>3
<1>19. Books(in, L, m, o, e)
  BY <1>6, <1>10, <1>14, <1>15, <1>18 DEF Books, V
<1> QED
  BY <1>3, <1>4, <1>16, <1>19 DEF e, V, W
-------------------------------------------------------------------------------
(* A draft is in order when its books are and what is missing is no less   *)
(* than nothing.  On a day every factory is opened, ...                    *)
RoomFits(in) == in.room \in [Factories -> Int]
Firsts(S) == [T \in SUBSET S |-> CHOOSE x \in T : TRUE]
Opens(in, day) ==
  [p \in Factories \X Drafts |-> Created(in, p[2], <<p[1], day>>)]
InOrder(in, L, m, o, d) == Books(in, L, m, o, d) /\ d.missing >= 0

LEMMA CreatedTyped ==
  ASSUME NEW in, RoomFits(in), NEW d \in Drafts, NEW c \in Cells
  PROVE  Created(in, d, c) \in Drafts
<1>0. d.left \in Lefts /\ d.missing \in Int /\ d.ledger \in Seq(Entries)
      /\ in.room[c[1]] \in Int
  BY DEF Drafts, RoomFits, Cells
<1>1. CASE d.left[c] # None
  BY <1>1 DEF Created
<1>2. CASE d.left[c] = None
  <2> DEFINE x == [cell |-> c, deducted |-> 0, created |-> TRUE]
             left == [d.left EXCEPT ![c] = in.room[c[1]]]
  <2>1. Created(in, d, c) =
          [left |-> left, missing |-> d.missing, ledger |-> Append(d.ledger, x)]
    BY <1>2 DEF Created, Drafts
  <2>2. x \in Entries
    BY DEF Entries
  <2>3. left \in Lefts
    BY <1>0 DEF Lefts
  <2>4. Append(d.ledger, x) \in Seq(Entries)
    <3> HIDE DEF x
    <3> QED
      BY <1>0, <2>2
  <2> HIDE DEF x, left
  <2> QED
    BY <1>0, <2>1, <2>3, <2>4 DEF Drafts
<1> QED
  BY <1>1, <1>2

LEMMA OpensStep ==
  ASSUME NEW in, RoomFits(in), NEW day \in Calendar, NEW f \in Factories,
         NEW d \in Drafts
  PROVE  Opens(in, day)[<<f, d>>] = Created(in, d, <<f, day>>)
         /\ Opens(in, day)[<<f, d>>] \in Drafts
<1>1. Opens(in, day)[<<f, d>>] = Created(in, d, <<f, day>>)
  BY DEF Opens
<1>2. <<f, day>> \in Cells
  BY DEF Cells
<1> QED
  BY <1>1, <1>2, CreatedTyped

LEMMA OpenFold ==
  ASSUME NEW in, RoomFits(in), NEW day \in Calendar, NEW d \in Drafts
  PROVE  \E f : /\ Follows(f, Factories, Firsts(Factories), d, Opens(in, day), Drafts)
                /\ OpenDay(in, d, day) = f[Factories]
<1> DEFINE S == Factories
           c == Firsts(S)
           step == Opens(in, day)
           Iter(g) == g = [s \in SUBSET S |->
                             IF s = {} THEN d
                             ELSE Created(in, g[s \ {CHOOSE x \in s : TRUE}],
                                          <<CHOOSE x \in s : TRUE, day>>)]
<1>0. IsFiniteSet(S)
  BY CellsFinite
<1>1. \A T \in SUBSET S : T # {} => c[T] \in T /\ c[T] = CHOOSE x \in T : TRUE
  BY DEF Firsts
<1>2. \A x \in S, a \in Drafts :
        /\ step[<<x, a>>] = Created(in, a, <<x, day>>)
        /\ step[<<x, a>>] \in Drafts
  BY OpensStep
<1>3. PICK g : Folds(g, S, c, d, step, Drafts)
  <2> HIDE DEF S, c, step
  <2> QED
    BY <1>0, <1>1, <1>2, FoldExists
<1>4. Iter(g)
  <2>1. ASSUME NEW s \in SUBSET S, s # {}
        PROVE  g[s] = Created(in, g[s \ {CHOOSE x \in s : TRUE}],
                              <<CHOOSE x \in s : TRUE, day>>)
    <3>1. PICK y : y = CHOOSE x \in s : TRUE
      OBVIOUS
    <3>2. c[s] = y /\ y \in S
      BY <1>1, <2>1, <3>1
    <3>3. g[s \ {y}] \in Drafts
      BY <1>3 DEF Folds
    <3>4. g[s] = step[<<y, g[s \ {y}]>>]
      BY <1>3, <2>1, <3>2 DEF Folds
    <3>5. g[s] = Created(in, g[s \ {y}], <<y, day>>)
      BY <1>2, <3>2, <3>3, <3>4
    <3> QED
      BY ONLY <3>1, <3>5
  <2>2. g[{}] = d
    BY <1>3 DEF Folds
  <2>3. g = [s \in SUBSET S |-> g[s]]
    BY <1>3 DEF Folds
  <2>4. \A s \in SUBSET S :
          g[s] = IF s = {} THEN d
                 ELSE Created(in, g[s \ {CHOOSE x \in s : TRUE}],
                              <<CHOOSE x \in s : TRUE, day>>)
    BY <2>1, <2>2
  <2> QED
    BY ONLY <2>3, <2>4
<1> DEFINE f == CHOOSE h : Iter(h)
<1>5. Iter(f)
  BY <1>4
<1>6. OpenDay(in, d, day) = f[S]
  BY DEF OpenDay, FoldSet, MapThenFoldSet
<1>7. Follows(f, S, c, d, step, Drafts)
  <2> HIDE DEF f
  <2>1. f[{}] = d
    BY <1>5
  <2>2. ASSUME NEW T \in SUBSET S, T # {}, f[T \ {c[T]}] \in Drafts
        PROVE  f[T] = step[<<c[T], f[T \ {c[T]}]>>]
    <3>1. PICK y : y = CHOOSE x \in T : TRUE
      OBVIOUS
    <3>2. c[T] = y /\ y \in S
      BY <1>1, <2>2, <3>1
    <3>3. f[T] = Created(in, f[T \ {y}], <<y, day>>)
      BY <1>5, <2>2, <3>1
    <3> QED
      BY <1>2, <2>2, <3>2, <3>3
  <2> QED
    BY <2>1, <2>2 DEF Follows
<1> QED
  BY <1>6, <1>7
(* ... and no more changes than that rows are there which were missing.    *)
OnDay(F, day) == {<<f, day>> : f \in F}
Opened(in, day, d, F, e) ==
  /\ e.missing = d.missing
  /\ \A f \in F : e.left[<<f, day>>] = Free(in, d.left, <<f, day>>)
  /\ \A c \in Cells \ OnDay(F, day) : e.left[c] = d.left[c]
  /\ \A L \in Lefts, m \in Int, o \in Orders :
       Books(in, L, m, o, d) =>
         Books(in, L, m, o, e) /\ Placed(e, o) = Placed(d, o)

LEMMA OpenedStep ==
  ASSUME NEW in, RoomFits(in), NEW day \in Calendar, NEW d \in Drafts,
         NEW F \in SUBSET Factories, NEW x \in F, NEW a \in Drafts,
         Opened(in, day, d, F \ {x}, a)
  PROVE  Opened(in, day, d, F, Created(in, a, <<x, day>>))
<1> DEFINE c == <<x, day>>
           e == Created(in, a, c)
<1>1. c \in Cells /\ x \in Factories
  BY DEF Cells
<1>2. /\ e.missing = a.missing /\ e.left[c] = Free(in, a.left, c)
      /\ \A b \in Cells \ {c} : e.left[b] = a.left[b]
  BY <1>1 DEF Created, Free, Drafts, Lefts
<1>3. a.left[c] = d.left[c]
  BY <1>1 DEF Opened, OnDay
<1>4. e.left[c] = Free(in, d.left, c)
  BY <1>2, <1>3 DEF Free
<1>5. \A f \in F : e.left[<<f, day>>] = Free(in, d.left, <<f, day>>)
  <2> SUFFICES ASSUME NEW f \in F
               PROVE  e.left[<<f, day>>] = Free(in, d.left, <<f, day>>)
    OBVIOUS
  <2>1. CASE f = x
    BY <1>4, <2>1
  <2>2. CASE f # x
    <3>1. <<f, day>> \in Cells \ {c}
      BY <2>2 DEF Cells
    <3>2. a.left[<<f, day>>] = Free(in, d.left, <<f, day>>)
      BY <2>2 DEF Opened
    <3> HIDE DEF e, c
    <3> QED
      BY <1>2, <3>1, <3>2
  <2> QED
    BY <2>1, <2>2
<1>6. \A b \in Cells \ OnDay(F, day) : e.left[b] = d.left[b]
  <2> SUFFICES ASSUME NEW b \in Cells \ OnDay(F, day)
               PROVE  e.left[b] = d.left[b]
    OBVIOUS
  <2>1. b \in Cells \ OnDay(F \ {x}, day) /\ b # c
    BY DEF OnDay
  <2>2. a.left[b] = d.left[b]
    BY <2>1 DEF Opened
  <2> HIDE DEF e, c
  <2> QED
    BY <1>2, <2>1, <2>2
<1>7. ASSUME NEW L \in Lefts, NEW m \in Int, NEW o \in Orders,
             Books(in, L, m, o, d)
      PROVE  Books(in, L, m, o, e) /\ Placed(e, o) = Placed(d, o)
  <2>1. Books(in, L, m, o, a) /\ Placed(a, o) = Placed(d, o)
    BY <1>7 DEF Opened
  <2>2. Books(in, L, m, o, e) /\ Placed(e, o) = Placed(a, o)
    <3> HIDE DEF c
    <3> QED
      BY <1>1, <2>1, BooksCreated DEF RoomFits
  <2> QED
    BY <2>1, <2>2
<1>8. a.missing = d.missing
  BY DEF Opened
<1> HIDE DEF e, c
<1> QED
  BY <1>2, <1>5, <1>6, <1>7, <1>8 DEF Opened, e, c

LEMMA OpenKeeps ==
  ASSUME NEW in, RoomFits(in), NEW day \in Calendar, NEW d \in Drafts
  PROVE  /\ OpenDay(in, d, day) \in Drafts
         /\ Opened(in, day, d, Factories, OpenDay(in, d, day))
<1> DEFINE c == Firsts(Factories)
           step == Opens(in, day)
           I == {p \in (SUBSET Factories) \X Drafts : Opened(in, day, d, p[1], p[2])}
<1>1. PICK f : /\ Follows(f, Factories, c, d, step, Drafts)
               /\ OpenDay(in, d, day) = f[Factories]
  BY OpenFold
<1>2. \A T \in SUBSET Factories : T # {} => c[T] \in T
  BY DEF Firsts
<1>3. \A x \in Factories, a \in Drafts : step[<<x, a>>] \in Drafts
  BY OpensStep
<1>4. <<{}, d>> \in I
  BY DEF Opened, OnDay
<1>5. ASSUME NEW T \in SUBSET Factories, NEW a \in Drafts, T # {},
             <<T \ {c[T]}, a>> \in I
      PROVE  <<T, step[<<c[T], a>>]>> \in I
  <2>1. PICK x \in T : x = c[T]
    BY <1>2, <1>5
  <2>2. Opened(in, day, d, T \ {x}, a)
    BY <1>5, <2>1
  <2>3. step[<<x, a>>] = Created(in, a, <<x, day>>) /\ step[<<x, a>>] \in Drafts
    BY OpensStep
  <2>4. Opened(in, day, d, T, step[<<x, a>>])
    BY <2>2, <2>3, OpenedStep
  <2> HIDE DEF c, step
  <2> QED
    BY <2>1, <2>3, <2>4
<1>6. /\ Picks(c, Factories) /\ Closed(step, Factories, Drafts)
      /\ Steady(I, Factories, c, step, Drafts)
  <2> HIDE DEF c, step, I
  <2> QED
    BY <1>2, <1>3, <1>5 DEF Picks, Closed, Steady
<1>7. f[Factories] \in Drafts /\ <<Factories, f[Factories]>> \in I
  <2> HIDE DEF c, step, I
  <2> QED
    BY ONLY <1>1, <1>4, <1>6, CellsFinite, FoldInvariant, d \in Drafts
<1> QED
  BY <1>1, <1>7
-------------------------------------------------------------------------------
(* The factories of a day that is open are filled, the emptiest first.     *)
OpenOn(day) == {d \in Drafts : \A f \in Factories : d.left[<<f, day>>] \in Int}
RoomOn(d, day) == [f \in Factories |-> d.left[<<f, day>>]]
Emptier(room, f, g) == room[f] > room[g] \/ (room[f] = room[g] /\ f < g)
Fullest(room) ==
  [F \in SUBSET Factories |->
     CHOOSE f \in F : \A g \in F \ {f} : Emptier(room, g, f)]
Fills(room, day) ==
  [p \in Factories \X OpenOn(day) |-> Fill(p[2], <<p[1], day>>, room[p[1]])]

LEMMA FullestLast ==
  ASSUME NEW room \in [Factories -> Int], NEW F \in SUBSET Factories, F # {}
  PROVE  /\ Fullest(room)[F] \in F
         /\ Fullest(room)[F]
              = CHOOSE f \in F : \A g \in F \ {f} : Emptier(room, g, f)
<1> DEFINE R == {p \in Factories \X Factories : Emptier(room, p[1], p[2])}
<1>1. Linear(R, Factories)
  <2>1. \A f \in Factories : f \in Int /\ room[f] \in Int
    BY CellsFinite
  <2>2. \A f, g \in Factories : <<f, g>> \in R <=> Emptier(room, f, g)
    OBVIOUS
  <2> HIDE DEF R
  <2>3. \A f, g \in Factories : f # g => Emptier(room, f, g) \/ Emptier(room, g, f)
    BY <2>1 DEF Emptier
  <2>4. \A f, g, h \in Factories :
          Emptier(room, f, g) /\ Emptier(room, g, h) => Emptier(room, f, h)
    BY <2>1 DEF Emptier
  <2> QED
    BY <2>2, <2>3, <2>4 DEF Linear
<1>2. \E f : IsLast(f, F, R)
  <2> HIDE DEF R
  <2> QED
    BY <1>1, CellsFinite, LastExists
<1>3. PICK f \in F : \A g \in F \ {f} : Emptier(room, g, f)
  BY <1>2 DEF IsLast
<1> QED
  BY <1>3 DEF Fullest

LEMMA FillTyped ==
  ASSUME NEW day \in Calendar, NEW f \in Factories, NEW d \in OpenOn(day),
         NEW n \in Int
  PROVE  Fill(d, <<f, day>>, n) \in OpenOn(day)
<1> DEFINE c == <<f, day>>
           k == Smaller(d.missing, n)
           x == [cell |-> c, deducted |-> k, created |-> FALSE]
           left == [d.left EXCEPT ![c] = @ - k]
<1>0. c \in Cells /\ d \in Drafts /\ \A g \in Factories : d.left[<<g, day>>] \in Int
  BY DEF OpenOn, Cells
<1>1. CASE d.missing <= 0 \/ n <= 0
  BY <1>1 DEF Fill
<1>2. CASE ~(d.missing <= 0 \/ n <= 0)
  <2>1. d.left \in Lefts /\ d.missing \in Int /\ d.ledger \in Seq(Entries)
    BY <1>0 DEF Drafts
  <2>2. k \in Int
    BY <2>1 DEF Smaller
  <2>3. x \in Entries
    BY <1>0, <2>2 DEF Entries
  <2>4. d.left[c] - k \in Int
    BY <1>0, <2>2
  <2> HIDE DEF k, c
  <2>5. left \in Lefts /\ left[c] = d.left[c] - k
        /\ \A b \in Cells \ {c} : left[b] = d.left[b]
    BY <1>0, <2>1, <2>4 DEF Lefts
  <2>6. Fill(d, c, n) = [left |-> left, missing |-> d.missing - k,
                         ledger |-> Append(d.ledger, x)]
    BY <1>2 DEF Fill, Deduct, k
  <2> HIDE DEF x, left
  <2>7. Fill(d, c, n) \in Drafts
    <3>1. Append(d.ledger, x) \in Seq(Entries)
      BY <2>1, <2>3
    <3>2. d.missing - k \in Int
      BY <2>1, <2>2
    <3> QED
      BY <2>5, <2>6, <3>1, <3>2 DEF Drafts
  <2>8. \A g \in Factories : left[<<g, day>>] \in Int
    <3> TAKE g \in Factories
    <3>1. CASE <<g, day>> = c
      BY <2>4, <2>5, <3>1
    <3>2. CASE <<g, day>> # c
      BY <1>0, <2>5, <3>2 DEF Cells
    <3> QED
      BY <3>1, <3>2
  <2>9. Fill(d, c, n).left = left
    BY <2>6
  <2>10. Fill(d, c, n) \in OpenOn(day)
    BY ONLY <2>7, <2>8, <2>9 DEF OpenOn
  <2> QED
    BY <2>10 DEF c
<1> QED
  BY <1>1, <1>2

LEMMA FillsStep ==
  ASSUME NEW room \in [Factories -> Int], NEW day \in Calendar,
         NEW f \in Factories, NEW d \in OpenOn(day)
  PROVE  /\ Fills(room, day)[<<f, d>>] = Fill(d, <<f, day>>, room[f])
         /\ Fills(room, day)[<<f, d>>] \in OpenOn(day)
<1>1. Fills(room, day)[<<f, d>>] = Fill(d, <<f, day>>, room[f])
  BY DEF Fills
<1>2. room[f] \in Int
  OBVIOUS
<1> QED
  BY <1>1, <1>2, FillTyped

LEMMA DayFold ==
  ASSUME NEW in, RoomFits(in), NEW day \in Calendar, NEW a \in Drafts,
         a.missing > 0, NEW d, d = OpenDay(in, a, day), d \in OpenOn(day),
         NEW room, room = RoomOn(d, day)
  PROVE  \E f : /\ Follows(f, Factories, Fullest(room), d, Fills(room, day),
                           OpenOn(day))
                /\ TakeDay(in, a, day) = f[Factories]
<1> DEFINE S == Factories
           c == Fullest(room)
           step == Fills(room, day)
           A == OpenOn(day)
           last(s) == CHOOSE f \in s : \A g \in s \ {f} :
                        \/ d.left[<<g, day>>] > d.left[<<f, day>>]
                        \/ d.left[<<g, day>>] = d.left[<<f, day>>] /\ g < f
           Iter(g) == g = [s \in SUBSET S |->
                             IF s = {} THEN d
                             ELSE Fill(g[s \ {last(s)}], <<last(s), day>>,
                                       d.left[<<last(s), day>>])]
<1>0. IsFiniteSet(S) /\ room \in [Factories -> Int]
      /\ \A f \in S : room[f] = d.left[<<f, day>>]
  BY CellsFinite DEF OpenOn, RoomOn
<1>1. \A T \in SUBSET S : T # {} => c[T] \in T /\ c[T] = last(T)
  <2> TAKE T \in SUBSET S
  <2> HAVE T # {}
  <2>1. c[T] \in T /\ c[T] = CHOOSE f \in T : \A g \in T \ {f} : Emptier(room, g, f)
    BY <1>0, FullestLast
  <2>2. \A f, g \in T : Emptier(room, g, f)
           <=> \/ d.left[<<g, day>>] > d.left[<<f, day>>]
               \/ d.left[<<g, day>>] = d.left[<<f, day>>] /\ g < f
    BY <1>0 DEF Emptier
  <2>3. (CHOOSE f \in T : \A g \in T \ {f} : Emptier(room, g, f)) = last(T)
    BY <1>0 DEF Emptier, RoomOn
  <2> QED
    BY <2>1, <2>3
<1>2. \A x \in S, b \in A : /\ step[<<x, b>>] = Fill(b, <<x, day>>, d.left[<<x, day>>])
                            /\ step[<<x, b>>] \in A
  <2> SUFFICES ASSUME NEW x \in S, NEW b \in A
               PROVE  /\ step[<<x, b>>] = Fill(b, <<x, day>>, d.left[<<x, day>>])
                      /\ step[<<x, b>>] \in A
    OBVIOUS
  <2>1. step[<<x, b>>] = Fill(b, <<x, day>>, room[x]) /\ step[<<x, b>>] \in A
    <3> HIDE DEF step
    <3> QED
      BY <1>0, FillsStep DEF step
  <2> QED
    BY <1>0, <2>1
<1> HIDE DEF last
<1>3. PICK g : Folds(g, S, c, d, step, A)
  <2> HIDE DEF S, c, step, A
  <2> QED
    BY <1>0, <1>1, <1>2, FoldExists DEF A
<1>4. Iter(g)
  <2>1. ASSUME NEW s \in SUBSET S, s # {}
        PROVE  g[s] = Fill(g[s \ {last(s)}], <<last(s), day>>,
                           d.left[<<last(s), day>>])
    <3>1. PICK y : y = last(s)
      OBVIOUS
    <3>2. c[s] = y /\ y \in S
      BY <1>1, <2>1, <3>1
    <3>3. g[s \ {y}] \in A
      BY <1>3 DEF Folds
    <3>4. g[s] = step[<<y, g[s \ {y}]>>]
      BY <1>3, <2>1, <3>2 DEF Folds
    <3>5. g[s] = Fill(g[s \ {y}], <<y, day>>, d.left[<<y, day>>])
      BY <1>2, <3>2, <3>3, <3>4
    <3> QED
      BY ONLY <3>1, <3>5
  <2>2. g[{}] = d
    BY <1>3 DEF Folds
  <2>3. g = [s \in SUBSET S |-> g[s]]
    BY <1>3 DEF Folds
  <2>4. \A s \in SUBSET S :
          g[s] = IF s = {} THEN d
                 ELSE Fill(g[s \ {last(s)}], <<last(s), day>>,
                           d.left[<<last(s), day>>])
    BY <2>1, <2>2
  <2> QED
    BY ONLY <2>3, <2>4
<1> DEFINE f == CHOOSE h : Iter(h)
<1>5. Iter(f)
  BY <1>4
<1>6. TakeDay(in, a, day) = f[S]
  <2>1. ~(a.missing <= 0)
    BY DEF Drafts
  <2> QED
    BY <2>1 DEF TakeDay, MapThenFoldSet, last
<1>7. Follows(f, S, c, d, step, A)
  <2> HIDE DEF f
  <2>1. f[{}] = d
    BY <1>5
  <2>2. ASSUME NEW T \in SUBSET S, T # {}, f[T \ {c[T]}] \in A
        PROVE  f[T] = step[<<c[T], f[T \ {c[T]}]>>]
    <3>1. PICK y : y = last(T)
      OBVIOUS
    <3>2. c[T] = y /\ y \in S
      BY <1>1, <2>2, <3>1
    <3>3. f[T] = Fill(f[T \ {y}], <<y, day>>, d.left[<<y, day>>])
      BY <1>5, <2>2, <3>1
    <3> QED
      BY <1>2, <2>2, <3>2, <3>3
  <2> QED
    BY <2>1, <2>2 DEF Follows
<1> QED
  BY <1>6, <1>7
(* What has been filled on a day leaves nothing there, or nothing missing. *)
Clear(d, o, day) == \A f \in Factories : On(Placed(d, o), <<f, day>>) = {}
Same(o, C, d, e) ==
  \A c \in Cells \ C : e.left[c] = d.left[c]
                       /\ On(Placed(e, o), c) = On(Placed(d, o), c)
Used(C, e) == e.missing > 0 => \A c \in C : e.left[c] \in Int /\ e.left[c] <= 0
Filled(in, day, d, F, e) ==
  \A L \in Lefts, m \in Int, o \in Orders :
    InOrder(in, L, m, o, d) /\ Clear(d, o, day) =>
      /\ InOrder(in, L, m, o, e)
      /\ Same(o, OnDay(F, day), d, e) /\ Used(OnDay(F, day), e)

LEMMA FilledStep ==
  ASSUME NEW in, RoomFits(in), NEW day \in Calendar, NEW d \in OpenOn(day),
         NEW F \in SUBSET Factories, NEW x \in F, NEW a \in OpenOn(day),
         Filled(in, day, d, F \ {x}, a)
  PROVE  Filled(in, day, d, F, Fill(a, <<x, day>>, d.left[<<x, day>>]))
<1> DEFINE c == <<x, day>>
           r == d.left[c]
           e == Fill(a, c, r)
<1> SUFFICES ASSUME NEW L \in Lefts, NEW m \in Int, NEW o \in Orders,
                    InOrder(in, L, m, o, d), Clear(d, o, day)
             PROVE  /\ InOrder(in, L, m, o, e)
                    /\ Same(o, OnDay(F, day), d, e) /\ Used(OnDay(F, day), e)
  BY DEF Filled
<1>1. /\ InOrder(in, L, m, o, a)
      /\ Same(o, OnDay(F \ {x}, day), d, a) /\ Used(OnDay(F \ {x}, day), a)
  BY DEF Filled
<1>2. c \in Cells /\ c \notin OnDay(F \ {x}, day)
      /\ OnDay(F, day) = OnDay(F \ {x}, day) \cup {c}
  BY DEF Cells, OnDay
<1>3. r \in Int /\ a.left[c] = r /\ On(Placed(a, o), c) = {} /\ a.missing \in Int
  BY <1>1, <1>2 DEF Same, Clear, OpenOn, Drafts
<1> HIDE DEF c, r, e
<1>4. CASE a.missing <= 0 \/ r <= 0
  <2>1. e = a
    BY <1>4 DEF Fill, e
  <2>2. Same(o, OnDay(F, day), d, a)
    BY <1>1, <1>2 DEF Same
  <2>3. Used(OnDay(F, day), a)
    BY <1>1, <1>2, <1>3, <1>4 DEF Used
  <2> QED
    BY <1>1, <2>1, <2>2, <2>3
<1>5. CASE ~(a.missing <= 0 \/ r <= 0)
  <2> DEFINE n == Smaller(a.missing, r)
  <2>1. /\ n \in Nat \ {0} /\ n <= r /\ n <= a.missing
        /\ (n = r \/ n = a.missing)
    BY <1>3, <1>5 DEF Smaller
  <2>2. e = Deduct(a, c, n)
    BY <1>5 DEF Fill, e
  <2> HIDE DEF n
  <2>3. Books(in, L, m, o, a)
    BY <1>1 DEF InOrder
  <2>4. /\ Books(in, L, m, o, e)
        /\ e.missing = a.missing - n
        /\ e.left[c] = a.left[c] - n
        /\ \A b \in Cells \ {c} :
             e.left[b] = a.left[b] /\ On(Placed(e, o), b) = On(Placed(a, o), b)
    <3>1. a.left[c] \in Int /\ n <= a.left[c]
      BY <1>3, <2>1
    <3> QED
      BY ONLY RoomFits(in), L \in Lefts, m \in Int, o \in Orders, <1>2, <1>3, <2>1,
              <2>2, <2>3, <3>1, BooksDeduct DEF RoomFits
  <2>5. InOrder(in, L, m, o, e)
    BY <1>3, <2>1, <2>4 DEF InOrder
  <2>6. Same(o, OnDay(F, day), d, e)
    BY <1>1, <1>2, <2>4 DEF Same
  <2>7. Used(OnDay(F, day), e)
    <3> SUFFICES ASSUME e.missing > 0, NEW b \in OnDay(F, day)
                 PROVE  e.left[b] \in Int /\ e.left[b] <= 0
      BY DEF Used
    <3>1. n = r /\ a.missing > 0
      BY <1>3, <2>1, <2>4
    <3>2. CASE b = c
      BY <1>3, <2>4, <3>1, <3>2
    <3>3. CASE b # c
      <4>1. b \in OnDay(F \ {x}, day) /\ b \in Cells
        BY <1>2, <3>3 DEF OnDay, Cells
      <4>2. a.left[b] \in Int /\ a.left[b] <= 0
        BY <1>1, <3>1, <4>1 DEF Used
      <4> QED
        BY <2>4, <3>3, <4>1, <4>2
    <3> QED
      BY <3>2, <3>3
  <2> QED
    BY <2>5, <2>6, <2>7
<1> QED
  BY <1>4, <1>5 DEF c, r, e

(* The whole day.                                                          *)
LEMMA TakeDayKeeps ==
  ASSUME NEW in, RoomFits(in), NEW day \in Calendar, NEW a \in Drafts
  PROVE  /\ TakeDay(in, a, day) \in Drafts
         /\ Filled(in, day, a, Factories, TakeDay(in, a, day))
<1>0. a.missing \in Int
  BY DEF Drafts
<1>1. CASE a.missing <= 0
  <2>1. TakeDay(in, a, day) = a
    BY <1>1 DEF TakeDay
  <2>2. Filled(in, day, a, Factories, a)
    BY <1>0, <1>1 DEF Filled, Same, Used
  <2> QED
    BY <2>1, <2>2
<1>2. CASE ~(a.missing <= 0)
  <2>1. PICK d : d = OpenDay(in, a, day)
    OBVIOUS
  <2>2. d \in Drafts /\ Opened(in, day, a, Factories, d)
    BY <2>1, OpenKeeps
  <2>3. d \in OpenOn(day)
    <3>1. \A f \in Factories : <<f, day>> \in Cells
      BY DEF Cells
    <3>2. a.left \in Lefts
      BY DEF Drafts
    <3>3. \A f \in Factories : d.left[<<f, day>>] \in Int
      BY <2>2, <3>1, <3>2, FreeInt DEF Opened, RoomFits
    <3> QED
      BY <2>2, <3>3 DEF OpenOn
  <2> DEFINE room == RoomOn(d, day)
             c == Fullest(room)
             step == Fills(room, day)
             A == OpenOn(day)
             I == {p \in (SUBSET Factories) \X A : Filled(in, day, d, p[1], p[2])}
  <2>4. room \in [Factories -> Int] /\ \A f \in Factories : room[f] = d.left[<<f, day>>]
    BY <2>3 DEF RoomOn, OpenOn
  <2>5. PICK f : /\ Follows(f, Factories, c, d, step, A)
                 /\ TakeDay(in, a, day) = f[Factories]
    <3>1. a.missing > 0
      BY <1>0, <1>2
    <3> HIDE DEF room
    <3>2. \E f : /\ Follows(f, Factories, Fullest(room), d, Fills(room, day),
                            OpenOn(day))
                 /\ TakeDay(in, a, day) = f[Factories]
      BY <2>1, <2>3, <3>1, DayFold DEF room
    <3> QED
      BY <3>2
  <2>6. \A T \in SUBSET Factories : T # {} => c[T] \in T
    <3> HIDE DEF room
    <3> QED
      BY <2>4, FullestLast
  <2>7. \A x \in Factories, b \in A :
          /\ step[<<x, b>>] = Fill(b, <<x, day>>, d.left[<<x, day>>])
          /\ step[<<x, b>>] \in A
    <3> SUFFICES ASSUME NEW x \in Factories, NEW b \in A
                 PROVE  /\ step[<<x, b>>] = Fill(b, <<x, day>>, d.left[<<x, day>>])
                        /\ step[<<x, b>>] \in A
      OBVIOUS
    <3>1. step[<<x, b>>] = Fill(b, <<x, day>>, room[x]) /\ step[<<x, b>>] \in A
      <4> HIDE DEF room
      <4> QED
        BY <2>4, FillsStep
    <3>2. room[x] = d.left[<<x, day>>]
      BY <2>4
    <3> HIDE DEF step, room
    <3> QED
      BY <3>1, <3>2
  <2>8. <<{}, d>> \in I
    <3>1. Filled(in, day, d, {}, d)
      BY DEF Filled, Same, Used, OnDay
    <3> QED
      BY <2>3, <3>1
  <2>9. Steady(I, Factories, c, step, A)
    <3> SUFFICES ASSUME NEW T \in SUBSET Factories, NEW b \in A, T # {},
                        <<T \ {c[T]}, b>> \in I
                 PROVE  <<T, step[<<c[T], b>>]>> \in I
      BY DEF Steady
    <3>1. PICK x \in T : x = c[T]
      BY <2>6
    <3>2. Filled(in, day, d, T \ {x}, b)
      BY <3>1
    <3>3. step[<<x, b>>] = Fill(b, <<x, day>>, d.left[<<x, day>>])
          /\ step[<<x, b>>] \in A
      BY <2>7
    <3>4. Filled(in, day, d, T, step[<<x, b>>])
      BY <2>3, <3>2, <3>3, FilledStep
    <3> HIDE DEF c, step
    <3> QED
      BY <3>1, <3>3, <3>4
  <2>10. f[Factories] \in A /\ <<Factories, f[Factories]>> \in I
    <3> HIDE DEF c, step, I, A
    <3>1. Picks(c, Factories) /\ Closed(step, Factories, A) /\ d \in A
      BY <2>3, <2>6, <2>7 DEF Picks, Closed, A
    <3> QED
      BY ONLY <2>5, <2>8, <2>9, <3>1, CellsFinite, FoldInvariant
  <2>11. PICK e : e = f[Factories] /\ e \in Drafts
                  /\ Filled(in, day, d, Factories, e)
    BY <2>10 DEF OpenOn
  <2>12. Filled(in, day, a, Factories, e)
    <3> SUFFICES ASSUME NEW L \in Lefts, NEW m \in Int, NEW o \in Orders,
                        InOrder(in, L, m, o, a), Clear(a, o, day)
                 PROVE  /\ InOrder(in, L, m, o, e)
                        /\ Same(o, OnDay(Factories, day), a, e)
                        /\ Used(OnDay(Factories, day), e)
      BY DEF Filled
    <3>1. Books(in, L, m, o, d) /\ Placed(d, o) = Placed(a, o)
          /\ d.missing = a.missing
      BY <2>2 DEF Opened, InOrder
    <3>2. InOrder(in, L, m, o, d) /\ Clear(d, o, day)
      BY <3>1 DEF InOrder, Clear
    <3>3. /\ InOrder(in, L, m, o, e)
          /\ Same(o, OnDay(Factories, day), d, e)
          /\ Used(OnDay(Factories, day), e)
      BY <2>11, <3>2 DEF Filled
    <3>4. Same(o, OnDay(Factories, day), a, e)
      BY <2>2, <3>1, <3>3 DEF Same, Opened
    <3> QED
      BY <3>3, <3>4
  <2> QED
    BY <2>5, <2>11, <2>12
<1> QED
  BY <1>1, <1>2
-------------------------------------------------------------------------------
(* The days of the window are taken in their order.                        *)
Lasts(D) == [T \in SUBSET D |-> CHOOSE day \in T : \A e \in T : e <= day]
Days(in, D) == [p \in D \X Drafts |-> TakeDay(in, p[2], p[1])]

LEMMA LastDayChosen ==
  ASSUME NEW D \in SUBSET Calendar, NEW T \in SUBSET D, T # {}
  PROVE  /\ Lasts(D)[T] \in T
         /\ Lasts(D)[T] = CHOOSE day \in T : \A e \in T : e <= day
<1> DEFINE R == {p \in D \X D : p[1] < p[2]}
<1>1. D \subseteq Int /\ IsFiniteSet(D)
  BY CellsFinite
<1>2. Linear(R, D)
  BY <1>1 DEF Linear
<1>3. \E x : IsLast(x, T, R)
  <2> HIDE DEF R
  <2> QED
    BY <1>1, <1>2, LastExists
<1>4. PICK x \in T : \A y \in T \ {x} : <<y, x>> \in R
  BY <1>3 DEF IsLast
<1>5. \A y \in T \ {x} : y < x
  BY <1>4
<1>6. \A y \in T : y \in Int
  BY <1>1
<1>7. \A y \in T : y <= x
  BY <1>5, <1>6
<1> QED
  BY <1>7 DEF Lasts

LEMMA DaysStep ==
  ASSUME NEW in, RoomFits(in), NEW D \in SUBSET Calendar, NEW day \in D,
         NEW d \in Drafts
  PROVE  /\ Days(in, D)[<<day, d>>] = TakeDay(in, d, day)
         /\ Days(in, D)[<<day, d>>] \in Drafts
<1>1. Days(in, D)[<<day, d>>] = TakeDay(in, d, day)
  BY DEF Days
<1>2. TakeDay(in, d, day) \in Drafts
  BY TakeDayKeeps
<1> QED
  BY <1>1, <1>2

LEMMA SplitFold ==
  ASSUME NEW in, RoomFits(in), NEW d \in Drafts, NEW D \in SUBSET Calendar
  PROVE  \E f : /\ Follows(f, D, Lasts(D), d, Days(in, D), Drafts)
                /\ TakeSplit(in, d, D) = f[D]
<1> DEFINE S == D
           c == Lasts(D)
           step == Days(in, D)
           last(s) == CHOOSE day \in s : \A e \in s : e <= day
           Iter(g) == g = [s \in SUBSET S |->
                             IF s = {} THEN d
                             ELSE TakeDay(in, g[s \ {last(s)}], last(s))]
<1>0. IsFiniteSet(S)
  BY CellsFinite
<1>1. \A T \in SUBSET S : T # {} => c[T] \in T /\ c[T] = last(T)
  BY LastDayChosen
<1>2. \A x \in S, a \in Drafts :
        /\ step[<<x, a>>] = TakeDay(in, a, x) /\ step[<<x, a>>] \in Drafts
  BY DaysStep
<1> HIDE DEF last
<1>3. PICK g : Folds(g, S, c, d, step, Drafts)
  <2> HIDE DEF S, c, step
  <2> QED
    BY <1>0, <1>1, <1>2, FoldExists
<1>4. Iter(g)
  <2>1. ASSUME NEW s \in SUBSET S, s # {}
        PROVE  g[s] = TakeDay(in, g[s \ {last(s)}], last(s))
    <3>1. PICK y : y = last(s)
      OBVIOUS
    <3>2. c[s] = y /\ y \in S
      BY <1>1, <2>1, <3>1
    <3>3. g[s \ {y}] \in Drafts
      BY <1>3 DEF Folds
    <3>4. g[s] = step[<<y, g[s \ {y}]>>]
      BY <1>3, <2>1, <3>2 DEF Folds
    <3>5. g[s] = TakeDay(in, g[s \ {y}], y)
      BY <1>2, <3>2, <3>3, <3>4
    <3> QED
      BY ONLY <3>1, <3>5
  <2>2. g[{}] = d
    BY <1>3 DEF Folds
  <2>3. g = [s \in SUBSET S |-> g[s]]
    BY <1>3 DEF Folds
  <2>4. \A s \in SUBSET S :
          g[s] = IF s = {} THEN d ELSE TakeDay(in, g[s \ {last(s)}], last(s))
    BY <2>1, <2>2
  <2> QED
    BY ONLY <2>3, <2>4
<1> DEFINE f == CHOOSE h : Iter(h)
<1>5. Iter(f)
  BY <1>4
<1>6. TakeSplit(in, d, D) = f[S]
  BY DEF TakeSplit, MapThenFoldSet, last
<1>7. Follows(f, S, c, d, step, Drafts)
  <2> HIDE DEF f
  <2>1. f[{}] = d
    BY <1>5
  <2>2. ASSUME NEW T \in SUBSET S, T # {}, f[T \ {c[T]}] \in Drafts
        PROVE  f[T] = step[<<c[T], f[T \ {c[T]}]>>]
    <3>1. PICK y : y = last(T)
      OBVIOUS
    <3>2. c[T] = y /\ y \in S
      BY <1>1, <2>2, <3>1
    <3>3. f[T] = TakeDay(in, f[T \ {y}], y)
      BY <1>5, <2>2, <3>1
    <3> QED
      BY <1>2, <2>2, <3>2, <3>3
  <2> QED
    BY <2>1, <2>2 DEF Follows
<1> QED
  BY <1>6, <1>7

(* What has been taken of some days leaves nothing there, or nothing       *)
(* missing.                                                                *)
Taken(in, d, D, e) ==
  \A L \in Lefts, m \in Int, o \in Orders :
    InOrder(in, L, m, o, d) /\ Placed(d, o) = {} =>
      /\ InOrder(in, L, m, o, e)
      /\ Same(o, Factories \X D, d, e) /\ Used(Factories \X D, e)

LEMMA TakenStep ==
  ASSUME NEW in, RoomFits(in), NEW d \in Drafts, NEW D \in SUBSET Calendar,
         NEW x \in D, NEW a \in Drafts, Taken(in, d, D \ {x}, a)
  PROVE  Taken(in, d, D, TakeDay(in, a, x))
<1> DEFINE e == TakeDay(in, a, x)
           R == Factories \X (D \ {x})
<1>1. e \in Drafts /\ Filled(in, x, a, Factories, e)
  BY TakeDayKeeps
<1>2. a.missing <= 0 => e = a
  BY DEF TakeDay
<1> HIDE DEF e
<1> SUFFICES ASSUME NEW L \in Lefts, NEW m \in Int, NEW o \in Orders,
                    InOrder(in, L, m, o, d), Placed(d, o) = {}
             PROVE  /\ InOrder(in, L, m, o, e)
                    /\ Same(o, Factories \X D, d, e) /\ Used(Factories \X D, e)
  BY DEF Taken, e
<1>3. InOrder(in, L, m, o, a) /\ Same(o, R, d, a) /\ Used(R, a)
  BY DEF Taken
<1>4. /\ Factories \X D = R \cup OnDay(Factories, x)
      /\ \A f \in Factories : <<f, x>> \in Cells /\ <<f, x>> \notin R
      /\ R \subseteq Cells /\ \A c \in R : c \notin OnDay(Factories, x)
  BY DEF OnDay, Cells
<1>5. \A f \in Factories : On(Placed(d, o), <<f, x>>) = {}
  BY DEF On
<1> HIDE DEF R
<1>6. Clear(a, o, x)
  BY <1>3, <1>4, <1>5 DEF Clear, Same
<1>7. /\ InOrder(in, L, m, o, e) /\ Same(o, OnDay(Factories, x), a, e)
      /\ Used(OnDay(Factories, x), e)
  BY <1>1, <1>3, <1>6 DEF Filled
<1>8. Same(o, Factories \X D, d, e)
  BY <1>3, <1>4, <1>7 DEF Same
<1>9. Used(Factories \X D, e)
  <2> SUFFICES ASSUME e.missing > 0, NEW c \in R
               PROVE  e.left[c] \in Int /\ e.left[c] <= 0
    BY <1>4, <1>7 DEF Used
  <2>1. a.missing > 0
    BY <1>1, <1>2 DEF Drafts
  <2>2. e.left[c] = a.left[c]
    BY <1>4, <1>7 DEF Same
  <2> QED
    BY <1>3, <2>1, <2>2 DEF Used
<1> QED
  BY <1>7, <1>8, <1>9

LEMMA TakeSplitKeeps ==
  ASSUME NEW in, RoomFits(in), NEW d \in Drafts, NEW D \in SUBSET Calendar
  PROVE  /\ TakeSplit(in, d, D) \in Drafts
         /\ Taken(in, d, D, TakeSplit(in, d, D))
<1> DEFINE c == Lasts(D)
           step == Days(in, D)
           I == {p \in (SUBSET D) \X Drafts : Taken(in, d, p[1], p[2])}
<1>1. PICK f : /\ Follows(f, D, c, d, step, Drafts)
               /\ TakeSplit(in, d, D) = f[D]
  BY SplitFold
<1>2. \A T \in SUBSET D : T # {} => c[T] \in T
  BY LastDayChosen
<1>3. \A x \in D, a \in Drafts :
        /\ step[<<x, a>>] = TakeDay(in, a, x) /\ step[<<x, a>>] \in Drafts
  BY DaysStep
<1>4. <<{}, d>> \in I
  BY DEF Taken, Same, Used
<1>5. Steady(I, D, c, step, Drafts)
  <2> SUFFICES ASSUME NEW T \in SUBSET D, NEW a \in Drafts, T # {},
                      <<T \ {c[T]}, a>> \in I
               PROVE  <<T, step[<<c[T], a>>]>> \in I
    BY DEF Steady
  <2>1. PICK x \in T : x = c[T]
    BY <1>2
  <2>2. Taken(in, d, T \ {x}, a)
    BY <2>1
  <2>3. step[<<x, a>>] = TakeDay(in, a, x) /\ step[<<x, a>>] \in Drafts
    BY <1>3
  <2>4. Taken(in, d, T, step[<<x, a>>])
    <3>1. T \in SUBSET Calendar
      OBVIOUS
    <3> HIDE DEF step
    <3> QED
      BY <2>2, <2>3, <3>1, TakenStep
  <2> HIDE DEF c, step
  <2> QED
    BY <2>1, <2>3, <2>4
<1>6. f[D] \in Drafts /\ <<D, f[D]>> \in I
  <2>1. Picks(c, D) /\ Closed(step, D, Drafts)
    BY <1>2, <1>3 DEF Picks, Closed
  <2> HIDE DEF c, step, I
  <2>2. IsFiniteSet(D)
    BY CellsFinite
  <2> QED
    BY ONLY <1>1, <1>4, <1>5, <2>1, <2>2, FoldInvariant, d \in Drafts
<1> QED
  BY <1>1, <1>6

(* An order that is not split goes to the first cell that has room for all *)
(* of it.                                                                  *)
LEMMA FirstCell ==
  ASSUME NEW T \in SUBSET Cells, T # {}
  PROVE  \E c \in T : \A d \in T :
           c[2] < d[2] \/ (c[2] = d[2] /\ c[1] <= d[1])
<1> DEFINE R == {p \in Cells \X Cells :
                   \/ p[2][2] < p[1][2]
                   \/ p[2][2] = p[1][2] /\ p[2][1] < p[1][1]}
<1>1. \A c \in Cells : c[1] \in Int /\ c[2] \in Int /\ c = <<c[1], c[2]>>
  <2> TAKE c \in Cells
  <2>1. c[1] \in Factories /\ c[2] \in Calendar /\ c = <<c[1], c[2]>>
    BY DEF Cells
  <2> QED
    BY <2>1, CellsFinite
<1>2. \A c, d \in Cells :
        <<c, d>> \in R <=> d[2] < c[2] \/ (d[2] = c[2] /\ d[1] < c[1])
  OBVIOUS
<1> HIDE DEF R
<1>3. Linear(R, Cells)
  <2>1. ASSUME NEW c \in Cells, NEW d \in Cells, c # d
        PROVE  <<c, d>> \in R \/ <<d, c>> \in R
    <3>1. c[1] # d[1] \/ c[2] # d[2]
      BY <1>1, <2>1
    <3> QED
      BY <1>1, <1>2, <3>1
  <2>2. ASSUME NEW b \in Cells, NEW c \in Cells, NEW d \in Cells,
               <<b, c>> \in R, <<c, d>> \in R
        PROVE  <<b, d>> \in R
    BY <1>1, <1>2, <2>2
  <2> QED
    BY <2>1, <2>2 DEF Linear
<1>4. IsFiniteSet(Cells)
  BY CellsFinite DEF Cells
<1>5. PICK c : IsLast(c, T, R)
  BY <1>3, <1>4, LastExists
<1>6. c \in T /\ \A d \in T \ {c} : <<d, c>> \in R
  BY <1>5 DEF IsLast
<1>7. ASSUME NEW d \in T
      PROVE  c[2] < d[2] \/ (c[2] = d[2] /\ c[1] <= d[1])
  <2>1. CASE d = c
    BY <1>1, <1>6, <2>1
  <2>2. CASE d # c
    <3>1. c[2] < d[2] \/ (c[2] = d[2] /\ c[1] < d[1])
      BY <1>2, <1>6, <2>2
    <3> QED
      BY <1>1, <1>6, <3>1
  <2> QED
    BY <2>1, <2>2
<1> QED
  BY <1>6, <1>7

LEMMA TakeWholeKeeps ==
  ASSUME NEW in, RoomFits(in), NEW d \in Drafts, NEW D \in SUBSET Calendar,
         NEW L \in Lefts, NEW m \in Int, NEW o \in Orders,
         InOrder(in, L, m, o, d), Placed(d, o) = {}, d.left = L, d.missing > 0
  PROVE  LET e == TakeWhole(in, d, D) IN
         /\ InOrder(in, L, m, o, e) /\ Same(o, Factories \X D, d, e)
         /\ e.missing > 0 <=>
              \A c \in Factories \X D : Free(in, L, c) < d.missing
<1> DEFINE fits == {c \in Factories \X D : Free(in, d.left, c) >= d.missing}
           first == CHOOSE c \in fits : \A b \in fits :
                      c[2] < b[2] \/ (c[2] = b[2] /\ c[1] <= b[1])
           a == Created(in, d, first)
           e == Deduct(a, first, d.missing)
<1>0. d.missing \in Int
  BY DEF Drafts
<1>1. CASE fits = {}
  <2>1. TakeWhole(in, d, D) = d
    BY <1>1 DEF TakeWhole
  <2>2. ASSUME NEW c \in Factories \X D
        PROVE  Free(in, L, c) < d.missing
    <3>1. c \in Cells
      BY DEF Cells
    <3>2. Free(in, L, c) \in Int
      BY <3>1, FreeInt DEF RoomFits
    <3> QED
      BY <1>0, <1>1, <3>2
  <2> QED
    BY <2>1, <2>2 DEF Same
<1>2. CASE fits # {}
  <2>1. TakeWhole(in, d, D) = e
    BY <1>2 DEF TakeWhole
  <2>2. fits \in SUBSET Cells
    BY DEF Cells
  <2>3. first \in fits
    <3> HIDE DEF fits
    <3> QED
      BY <1>2, <2>2, FirstCell
  <2>4. first \in Cells /\ first \in Factories \X D
        /\ Free(in, d.left, first) >= d.missing
    <3> HIDE DEF first
    <3> QED
      BY <2>2, <2>3
  <2> HIDE DEF first, fits
  <2>5. Books(in, L, m, o, d)
    BY DEF InOrder
  <2>6. /\ Books(in, L, m, o, a)
        /\ Placed(a, o) = Placed(d, o) /\ a.missing = d.missing
        /\ a.left[first] = Free(in, d.left, first) /\ a.left[first] \in Int
        /\ \A b \in Cells \ {first} : a.left[b] = d.left[b]
    BY <2>4, <2>5, BooksCreated DEF RoomFits
  <2>7. On(Placed(a, o), first) = {}
    BY <2>6 DEF On
  <2>8. d.missing \in Nat \ {0} /\ d.missing <= a.left[first]
    BY <1>0, <2>4, <2>6
  <2> HIDE DEF a
  <2>9. /\ Books(in, L, m, o, e)
        /\ e.missing = a.missing - d.missing
        /\ \A b \in Cells \ {first} :
             e.left[b] = a.left[b] /\ On(Placed(e, o), b) = On(Placed(a, o), b)
    BY ONLY RoomFits(in), L \in Lefts, m \in Int, o \in Orders, <2>4, <2>6, <2>7,
            <2>8, BooksDeduct DEF RoomFits
  <2> HIDE DEF e
  <2>10. InOrder(in, L, m, o, e) /\ ~(e.missing > 0)
    BY <1>0, <2>6, <2>9 DEF InOrder
  <2>11. Same(o, Factories \X D, d, e)
    BY <2>4, <2>6, <2>9 DEF Same
  <2>12. ~(Free(in, L, first) < d.missing)
    <3>1. Free(in, L, first) \in Int
      BY <2>4, FreeInt DEF RoomFits
    <3> QED
      BY <1>0, <2>4, <3>1
  <2> QED
    BY <2>1, <2>4, <2>10, <2>11, <2>12
<1> QED
  BY <1>1, <1>2
-------------------------------------------------------------------------------
(* What a draft gives is what its window could spare: the sum over the     *)
(* cells of what is placed on each is all that is placed.                  *)
Spare(in, L, C) == [c \in C |-> Larger(0, Free(in, L, c))]
Shares(W, C) == [c \in C |-> Amount(On(W, c))]
Within(W, C) == \A w \in W : <<w.factory, w.day>> \in C

LEMMA SharesSum ==
  ASSUME NEW W, Spread(W), NEW C \in SUBSET Cells, Within(W, C)
  PROVE  /\ SumOf(Shares(W, C), C) = Amount(W)
         /\ IsFiniteSet(C) /\ \A c \in C : Shares(W, C)[c] \in Nat
<1> DEFINE at == [w \in W |-> <<w.factory, w.day>>]
           r == Shares(W, C)
           B == {at[w] : w \in W}
<1>0. IsFiniteSet(C) /\ IsFiniteSet(W)
  BY CellsFinite, FS_Subset DEF Cells, Spread
<1>1. \A c \in C : r[c] \in Nat
  BY OnSized DEF Shares
<1>2. at \in [W -> C] /\ \A v, w \in W : at[v] = at[w] => v = w
  BY DEF Within, Spread
<1>3. \A w \in W : On(W, at[w]) = {w} /\ w.qty \in Int
  BY <1>2 DEF On, Spread, Given
<1>4. \A w \in W : Qty(W)[w] \in Int /\ r[at[w]] = Qty(W)[w]
  <2> TAKE w \in W
  <2>1. Amount({w}) = w.qty /\ w.qty \in Int
    BY <1>3, AmountOne
  <2>2. r[at[w]] = Amount(On(W, at[w]))
    BY <1>2 DEF Shares
  <2>3. On(W, at[w]) = {w}
    BY <1>3
  <2>4. Qty(W)[w] = w.qty
    BY DEF Qty
  <2> HIDE DEF at, r
  <2> QED
    BY <2>1, <2>2, <2>3, <2>4
<1>5. SumOf(r, B) = SumOf(Qty(W), W)
  <2>1. \A x, y \in W : at[x] = at[y] => x = y
    BY <1>2
  <2>2. \A x \in W : Qty(W)[x] \in Int /\ r[at[x]] = Qty(W)[x]
    BY <1>4
  <2>4. at \in [W -> C] /\ IsFiniteSet(W)
    BY <1>0, <1>2
  <2> HIDE DEF at, r
  <2>5. Renames(at, W, C)
    BY <2>1, <2>4 DEF Renames
  <2>3. SumOf(r, {at[x] : x \in W}) = SumOf(Qty(W), W)
    BY ONLY <2>2, <2>4, <2>5, SumRenamed
  <2> QED
    BY <2>3
<1>6. Amount(W) = SumOf(Qty(W), W)
  <2>1. Sized(W)
    BY <1>0, <1>3 DEF Sized
  <2> QED
    BY <2>1, AmountIsSum
<1>7. B \subseteq C /\ IsFiniteSet(B) /\ IsFiniteSet(C \ B)
      /\ C = B \cup (C \ B) /\ B \cap (C \ B) = {}
  <2>1. B \subseteq C
    BY <1>2
  <2> HIDE DEF B
  <2> QED
    BY <1>0, <2>1, FS_Subset
<1>8. \A c \in C \ B : r[c] = 0
  <2> TAKE c \in C \ B
  <2>1. On(W, c) = {}
    BY DEF On
  <2> QED
    BY <2>1, AmountNone DEF Shares
<1> HIDE DEF B, r
<1>9. SumOf(r, C \ B) = 0
  BY <1>7, <1>8, SumNothing
<1>10. SumOf(r, B \cup (C \ B)) = SumOf(r, B) + SumOf(r, C \ B)
  <2>1. \A c \in B \cup (C \ B) : r[c] \in Int
    BY <1>1, <1>7
  <2> QED
    BY <1>7, <2>1, SumUnion
<1>11. SumOf(r, B) \in Int
  <2>1. \A c \in B : r[c] \in Int
    BY <1>1, <1>7
  <2> QED
    BY <1>7, <2>1, SumInt
<1>12. SumOf(r, C) = Amount(W)
  BY <1>5, <1>6, <1>7, <1>9, <1>10, <1>11
<1> QED
  BY <1>0, <1>1, <1>12 DEF r

LEMMA SpareNat ==
  ASSUME NEW in, RoomFits(in), NEW L \in Lefts, NEW C \in SUBSET Cells
  PROVE  /\ IsFiniteSet(C) /\ \A c \in C : Spare(in, L, C)[c] \in Nat
         /\ \A c \in C : Spare(in, L, C)[c] = Larger(0, Free(in, L, c))
                         /\ Free(in, L, c) \in Int
<1>1. \A c \in C : Free(in, L, c) \in Int
  BY FreeInt DEF RoomFits
<1>2. IsFiniteSet(C)
  BY CellsFinite, FS_Subset DEF Cells
<1> QED
  BY <1>1, <1>2 DEF Spare, Larger

(* A draft that is split leaves something missing just when its window has *)
(* less to spare than was missing.                                         *)
LEMMA SplitFits ==
  ASSUME NEW in, RoomFits(in), NEW L \in Lefts, NEW m \in Int, NEW o \in Orders,
         NEW C \in SUBSET Cells, NEW e, InOrder(in, L, m, o, e),
         Within(Placed(e, o), C), Used(C, e)
  PROVE  e.missing > 0 <=> SumOf(Spare(in, L, C), C) < m
<1> DEFINE W == Placed(e, o)
           q == Spare(in, L, C)
           r == Shares(W, C)
<1>1. /\ Spread(W) /\ Amount(W) = m - e.missing /\ e.missing \in Int
      /\ e.missing >= 0 /\ \A c \in C : Stands(in, L, W, e.left, c)
  BY DEF InOrder, Books, Drafts
<1>2. /\ SumOf(r, C) = Amount(W) /\ IsFiniteSet(C) /\ \A c \in C : r[c] \in Nat
  BY <1>1, SharesSum
<1>3. \A c \in C : q[c] \in Nat /\ q[c] = Larger(0, Free(in, L, c))
                   /\ Free(in, L, c) \in Int
  BY SpareNat
<1>4. \A c \in C : r[c] = Amount(On(W, c)) /\ (r[c] = 0 <=> On(W, c) = {})
  BY <1>1, OnSized DEF Shares
<1> HIDE DEF q, r, W
<1>5. \A c \in C : r[c] <= q[c]
  <2> TAKE c \in C
  <2>1. CASE On(W, c) = {}
    BY <1>3, <1>4, <2>1
  <2>2. CASE On(W, c) # {}
    <3>1. e.left[c] = Free(in, L, c) - Amount(On(W, c)) /\ e.left[c] >= 0
      BY <1>1, <2>2 DEF Stands
    <3> QED
      BY <1>2, <1>3, <1>4, <3>1 DEF Larger
  <2> QED
    BY <2>1, <2>2
<1>6. SumOf(r, C) <= SumOf(q, C) /\ SumOf(q, C) \in Int
  <2>1. \A c \in C : r[c] \in Int /\ q[c] \in Int /\ r[c] <= q[c]
    BY <1>2, <1>3, <1>5
  <2> QED
    BY <1>2, <2>1, SumMonotone, SumInt
<1>7. CASE e.missing > 0
  <2>1. ASSUME NEW c \in C
        PROVE  q[c] \in Int /\ r[c] = q[c]
    <3>1. e.left[c] \in Int /\ e.left[c] <= 0 /\ e.left[c] # None
      BY <1>7, StrategyAssumption DEF Used
    <3>2. /\ e.left[c] = Free(in, L, c) - Amount(On(W, c))
          /\ On(W, c) # {} => e.left[c] >= 0
      BY <1>1, <3>1 DEF Stands
    <3>3. CASE On(W, c) = {}
      BY <1>3, <1>4, <3>1, <3>2, <3>3 DEF Larger
    <3>4. CASE On(W, c) # {}
      BY <1>2, <1>3, <1>4, <3>1, <3>2, <3>4 DEF Larger
    <3> QED
      BY <1>3, <3>3, <3>4
  <2>2. SumOf(q, C) = SumOf(r, C)
    BY <1>2, <2>1, SumSame
  <2> QED
    BY <1>1, <1>2, <1>6, <1>7, <2>2 DEF q
<1>8. CASE ~(e.missing > 0)
  BY <1>1, <1>2, <1>6, <1>8 DEF q
<1> QED
  BY <1>7, <1>8

-------------------------------------------------------------------------------
(* The order of the orders.                                                *)
Before(in, a, b) ==
  LET r == in.rows[a]
      s == in.rows[b]
      retained(x) == in.policy = "PRIORITY_RETAIN" /\ x.status = "SCHEDULED"
  IN \/ r.prio /\ ~s.prio
     \/ /\ r.prio <=> s.prio
        /\ \/ retained(r) /\ ~retained(s)
           \/ /\ retained(r) <=> retained(s)
              /\ \/ r.due < s.due
                 \/ /\ r.due = s.due
                    /\ \/ r.qty > s.qty
                       \/ r.qty = s.qty /\ a < b

LEMMA RowInt ==
  ASSUME NEW in, RowsFit(in.rows), NEW a \in DOMAIN in.rows
  PROVE  in.rows[a].qty \in Int /\ in.rows[a].due \in Int /\ a \in Int
<1>1. a \in Orders /\ Orders \subseteq Nat
  BY StrategyAssumption DEF RowsFit
<1> QED
  BY <1>1 DEF RowsFit

LEMMA RanksBefore ==
  ASSUME NEW in, RowsFit(in.rows), NEW a \in DOMAIN in.rows,
         NEW b \in DOMAIN in.rows
  PROVE  Ranks(in, a, b) <=> Before(in, a, b)
<1> DEFINE key(o) == LET r == in.rows[o] IN
        << IF r.prio THEN 0 ELSE 1,
           IF in.policy = "PRIORITY_RETAIN" /\ r.status = "SCHEDULED"
           THEN 0 ELSE 1,
           r.due, -r.qty, o >>
<1>1. /\ in.rows[a].qty \in Int /\ in.rows[a].due \in Int /\ a \in Int
      /\ in.rows[b].qty \in Int /\ in.rows[b].due \in Int /\ b \in Int
  BY RowInt
<1>2. Ranks(in, a, b) <=>
        \/ key(a)[1] < key(b)[1]
        \/ key(a)[1] = key(b)[1] /\ key(a)[2] < key(b)[2]
        \/ /\ key(a)[1] = key(b)[1] /\ key(a)[2] = key(b)[2]
           /\ key(a)[3] < key(b)[3]
        \/ /\ key(a)[1] = key(b)[1] /\ key(a)[2] = key(b)[2]
           /\ key(a)[3] = key(b)[3] /\ key(a)[4] < key(b)[4]
        \/ /\ key(a)[1] = key(b)[1] /\ key(a)[2] = key(b)[2]
           /\ key(a)[3] = key(b)[3] /\ key(a)[4] = key(b)[4]
           /\ key(a)[5] < key(b)[5]
  <2> DEFINE x(j) == key(a)[j]
             y(j) == key(b)[j]
  <2>1. Ranks(in, a, b) <=>
          \E i \in 1 .. 5 : (\A j \in 1 .. i - 1 : x(j) = y(j)) /\ x(i) < y(i)
    BY DEF Ranks
  <2> HIDE DEF x, y, key
  <2>2. /\ 1 .. 5 = {1, 2, 3, 4, 5} /\ 1 .. 1 - 1 = {} /\ 1 .. 2 - 1 = {1}
        /\ 1 .. 3 - 1 = {1, 2} /\ 1 .. 4 - 1 = {1, 2, 3}
        /\ 1 .. 5 - 1 = {1, 2, 3, 4}
    OBVIOUS
  <2>3. (\E i \in 1 .. 5 : (\A j \in 1 .. i - 1 : x(j) = y(j)) /\ x(i) < y(i))
        <=> \/ x(1) < y(1)
            \/ x(1) = y(1) /\ x(2) < y(2)
            \/ x(1) = y(1) /\ x(2) = y(2) /\ x(3) < y(3)
            \/ x(1) = y(1) /\ x(2) = y(2) /\ x(3) = y(3) /\ x(4) < y(4)
            \/ x(1) = y(1) /\ x(2) = y(2) /\ x(3) = y(3) /\ x(4) = y(4)
               /\ x(5) < y(5)
    BY ONLY <2>2
  <2> QED
    BY <2>1, <2>3 DEF x, y
<1> QED
  BY <1>1, <1>2 DEF Before

LEMMA RanksLinear ==
  ASSUME NEW in, RowsFit(in.rows)
  PROVE  /\ \A a, b \in DOMAIN in.rows :
              a # b => Ranks(in, a, b) \/ Ranks(in, b, a)
         /\ \A a, b \in DOMAIN in.rows : Ranks(in, a, b) => ~Ranks(in, b, a)
         /\ \A a, b, c \in DOMAIN in.rows :
              Ranks(in, a, b) /\ Ranks(in, b, c) => Ranks(in, a, c)
<1> DEFINE D == DOMAIN in.rows
<1>0. \A a \in D : /\ in.rows[a].qty \in Int /\ in.rows[a].due \in Int
                   /\ a \in Int
  BY RowInt
<1>1. \A a, b \in D : Ranks(in, a, b) <=> Before(in, a, b)
  BY RanksBefore
<1>2. \A a, b \in D : a # b => Before(in, a, b) \/ Before(in, b, a)
  BY <1>0 DEF Before
<1>3. \A a, b \in D : Before(in, a, b) => ~Before(in, b, a)
  BY <1>0 DEF Before
<1>4. \A a, b, c \in D : Before(in, a, b) /\ Before(in, b, c) => Before(in, a, c)
  BY <1>0 DEF Before
<1> HIDE DEF D
<1> QED
  BY <1>1, <1>2, <1>3, <1>4 DEF D
-------------------------------------------------------------------------------
(* One order: what its window cannot hold it does not get, and otherwise   *)
(* all that it misses.                                                     *)
Crowded(in, L, C, m) ==
  IF in.splittable THEN SumOf(Spare(in, L, C), C) < m
  ELSE \A c \in C : Free(in, L, c) < m
Begun(L, m) == [left |-> L, missing |-> m, ledger |-> <<>>]
Draft(in, L, m, D) ==
  IF in.splittable THEN TakeSplit(in, Begun(L, m), D)
  ELSE TakeWhole(in, Begun(L, m), D)

LEMMA BegunInOrder ==
  ASSUME NEW in, NEW L \in Lefts, NEW m \in Int, m >= 0, NEW o \in Orders,
         RoomFits(in)
  PROVE  /\ Begun(L, m) \in Drafts /\ Placed(Begun(L, m), o) = {}
         /\ InOrder(in, L, m, o, Begun(L, m))
<1> DEFINE d == Begun(L, m)
<1>1. d.left = L /\ d.missing = m /\ d.ledger = <<>>
  BY DEF Begun
<1>2. d \in Drafts
  <2>1. <<>> \in Seq(Entries)
    OBVIOUS
  <2> QED
    BY <2>1 DEF Begun, Drafts
<1>3. Placed(d, o) = {}
  <2>1. ToSet(<<>>) = {}
    BY DEF ToSet
  <2> QED
    BY <1>1, <2>1 DEF Placed
<1>4. Rolled(<<>>, L) = L
  BY RolledNothing
<1>5. Spread({}) /\ Amount({}) = 0
  BY FS_EmptySet, AmountNone DEF Spread
<1>6. ASSUME NEW c \in Cells
      PROVE  Stands(in, L, {}, L, c)
  <2>1. On({}, c) = {}
    BY DEF On
  <2>2. Free(in, L, c) \in Int
    BY FreeInt DEF RoomFits
  <2>3. L[c] # None => L[c] = Free(in, L, c) - 0
    <3>1. L[c] # None => L[c] = Free(in, L, c)
      BY DEF Free
    <3> QED
      BY <2>2, <3>1
  <2> QED
    BY <1>5, <2>1, <2>3 DEF Stands
<1> HIDE DEF d
<1>7. Amount(Placed(d, o)) = m - d.missing
  BY <1>1, <1>3, <1>5
<1>8. Books(in, L, m, o, d)
  BY <1>1, <1>2, <1>3, <1>4, <1>5, <1>6, <1>7 DEF Books
<1> QED
  BY <1>1, <1>2, <1>3, <1>8 DEF InOrder, d

LEMMA OnWithin ==
  ASSUME NEW W, W \subseteq Given, NEW C, 
         \A c \in Cells \ C : On(W, c) = {}
  PROVE  Within(W, C)
<1> SUFFICES ASSUME NEW w \in W
             PROVE  <<w.factory, w.day>> \in C
  BY DEF Within
<1>1. <<w.factory, w.day>> \in Cells
  BY DEF Given, Cells
<1>2. w \in On(W, <<w.factory, w.day>>)
  BY DEF On
<1> QED
  BY <1>1, <1>2

LEMMA DraftKeeps ==
  ASSUME NEW in, RoomFits(in), NEW L \in Lefts, NEW m \in Int, m > 0,
         NEW o \in Orders, NEW D \in SUBSET Calendar
  PROVE  /\ InOrder(in, L, m, o, Draft(in, L, m, D))
         /\ Within(Placed(Draft(in, L, m, D), o), Factories \X D)
         /\ Draft(in, L, m, D).missing > 0 <=> Crowded(in, L, Factories \X D, m)
<1> DEFINE d == Begun(L, m)
           e == Draft(in, L, m, D)
           C == Factories \X D
<1>0. /\ d \in Drafts /\ Placed(d, o) = {} /\ InOrder(in, L, m, o, d)
      /\ d.left = L /\ d.missing = m
  BY BegunInOrder DEF Begun
<1>1. C \in SUBSET Cells
  BY DEF Cells
<1>2. /\ InOrder(in, L, m, o, e) /\ Same(o, C, d, e)
      /\ in.splittable => Used(C, e)
      /\ ~in.splittable => (e.missing > 0 <=> \A c \in C : Free(in, L, c) < m)
  <2>1. CASE in.splittable
    <3>1. e = TakeSplit(in, d, D)
      BY <2>1 DEF Draft
    <3>2. Taken(in, d, D, e)
      BY <1>0, <3>1, TakeSplitKeeps
    <3> HIDE DEF d, e
    <3> QED
      BY <1>0, <2>1, <3>2 DEF Taken
  <2>2. CASE ~in.splittable
    <3>1. e = TakeWhole(in, d, D)
      BY <2>2 DEF Draft
    <3> HIDE DEF d, e
    <3>2. /\ InOrder(in, L, m, o, e) /\ Same(o, C, d, e)
          /\ e.missing > 0 <=> \A c \in C : Free(in, L, c) < d.missing
      BY <1>0, <3>1, TakeWholeKeeps
    <3> QED
      BY <1>0, <2>2, <3>2
  <2> QED
    BY <2>1, <2>2
<1> HIDE DEF e, d, C
<1>3. Placed(e, o) \subseteq Given /\ e \in Drafts
  BY <1>2 DEF InOrder, Books, Spread
<1>4. Within(Placed(e, o), C)
  <2>1. \A c \in Cells \ C : On(Placed(e, o), c) = {}
    BY <1>0, <1>2 DEF Same, On
  <2> QED
    BY <1>3, <2>1, OnWithin
<1>5. e.missing > 0 <=> Crowded(in, L, C, m)
  <2>1. CASE in.splittable
    <3>1. e.missing > 0 <=> SumOf(Spare(in, L, C), C) < m
      BY <1>1, <1>2, <1>4, <2>1, SplitFits
    <3> QED
      BY <2>1, <3>1 DEF Crowded
  <2>2. CASE ~in.splittable
    BY <1>2, <2>2 DEF Crowded
  <2> QED
    BY <2>1, <2>2
<1> QED
  BY <1>2, <1>4, <1>5 DEF e, C
-------------------------------------------------------------------------------
(* What placing an order o makes of a plan p: nothing, where it misses     *)
(* nothing; a plan q with pieces of work for all of it, in its window; or  *)
(* the plan as it was, with o failed, as its window cannot hold it.        *)
Mutable(in) == {o \in DOMAIN in.rows : ~Immutable(in.rows[o])}
Statuses(in) == {in.rows[o].status : o \in DOMAIN in.rows}
                \cup {"SCHEDULED", "FAILED"}
PlansFor(in) == [left : Lefts, new : SUBSET Given,
                 status : [DOMAIN in.rows -> Statuses(in)]]
Places(in, o, p, W, q) ==
  /\ Spread(W) /\ Within(W, Factories \X Window(in, o))
  /\ \A w \in W : w.order = o
  /\ Amount(W) = Missing(in, o)
  /\ \A c \in Cells : Stands(in, p.left, W, q.left, c)
  /\ q.new = p.new \cup W /\ q.status = [p.status EXCEPT ![o] = "SCHEDULED"]
GivesUp(in, o, p, q) ==
  /\ Crowded(in, p.left, Factories \X Window(in, o), Missing(in, o))
  /\ q.left = p.left /\ q.new = p.new
  /\ q.status = [p.status EXCEPT ![o] = "FAILED"]

LEMMA MissingInt ==
  ASSUME NEW in, InputFits(in), NEW o \in DOMAIN in.rows
  PROVE  Missing(in, o) \in Int
<1>1. Sized(in.kept[o]) /\ in.rows[o].qty \in Int
  BY DEF InputFits, RowsFit, KeptFits, Sized
<1> QED
  BY <1>1, AmountInt DEF Missing

LEMMA PlacedFor ==
  ASSUME NEW d, NEW o
  PROVE  \A w \in Placed(d, o) : w.order = o
  BY DEF Placed

LEMMA PlaceOrderKeeps ==
  ASSUME NEW in, InputFits(in), NEW o \in Mutable(in), NEW p \in PlansFor(in)
  PROVE  LET q == PlaceOrder(in, p, o) IN
         /\ q \in PlansFor(in)
         /\ \/ Missing(in, o) <= 0 /\ q = p
            \/ Missing(in, o) > 0 /\ \E W : Places(in, o, p, W, q)
            \/ Missing(in, o) > 0 /\ GivesUp(in, o, p, q)
<1> DEFINE m == Missing(in, o)
           D == Window(in, o)
           e == Draft(in, p.left, m, D)
           q == PlaceOrder(in, p, o)
           S == [DOMAIN in.rows -> Statuses(in)]
<1>0. /\ o \in DOMAIN in.rows /\ o \in Orders /\ m \in Int
      /\ D \in SUBSET Calendar /\ RoomFits(in)
      /\ p.left \in Lefts /\ p.new \in SUBSET Given /\ p.status \in S
  <2>1. o \in DOMAIN in.rows /\ o \in Orders
    BY DEF Mutable, InputFits, RowsFit
  <2>2. D \in SUBSET Calendar
    BY DEF Window
  <2> QED
    BY <2>1, <2>2, MissingInt DEF InputFits, RoomFits, PlansFor
<1>1. CASE m <= 0
  BY <1>1 DEF PlaceOrder
<1>2. CASE m > 0
  <2>1. /\ InOrder(in, p.left, m, o, e) /\ Within(Placed(e, o), Factories \X D)
        /\ e.missing > 0 <=> Crowded(in, p.left, Factories \X D, m)
    <3> HIDE DEF m, D
    <3> QED
      BY <1>0, <1>2, DraftKeeps
  <2>2. q = IF e.missing <= 0
            THEN [p EXCEPT !.left = e.left, !.new = @ \cup Placed(e, o),
                           !.status[o] = "SCHEDULED"]
            ELSE [p EXCEPT !.left = Rolled(e.ledger, e.left),
                           !.status[o] = "FAILED"]
    BY <1>0, <1>2 DEF PlaceOrder, Draft, Begun, Placed, RolledBack, Rolled
  <2> HIDE DEF e, q
  <2>3. /\ e \in Drafts /\ Rolled(e.ledger, e.left) = p.left
        /\ Spread(Placed(e, o)) /\ Amount(Placed(e, o)) = m - e.missing
        /\ \A c \in Cells : Stands(in, p.left, Placed(e, o), e.left, c)
        /\ e.missing >= 0 /\ e.missing \in Int /\ e.left \in Lefts
    BY <2>1 DEF InOrder, Books, Drafts
  <2>4. p = [left |-> p.left, new |-> p.new, status |-> p.status]
    BY DEF PlansFor
  <2>5. \A s \in {"SCHEDULED", "FAILED"} : [p.status EXCEPT ![o] = s] \in S
    BY <1>0 DEF Statuses
  <2> HIDE DEF m, D, S
  <2>6. CASE e.missing <= 0
    <3> DEFINE W == Placed(e, o)
    <3>1. /\ q = [left |-> e.left, new |-> p.new \cup W,
                  status |-> [p.status EXCEPT ![o] = "SCHEDULED"]]
      <4> HIDE DEF W
      <4> QED
        BY <2>2, <2>4, <2>6 DEF W
    <3>2. q \in PlansFor(in)
      <4>1. W \subseteq Given
        BY <2>3 DEF Spread
      <4> HIDE DEF W
      <4> QED
        BY <1>0, <2>3, <2>5, <3>1, <4>1 DEF PlansFor, S
    <3>3. Amount(W) = m
      BY <1>0, <2>3, <2>6
    <3>4. \A w \in W : w.order = o
      BY PlacedFor
    <3>5. /\ q.left = e.left /\ q.new = p.new \cup W
          /\ q.status = [p.status EXCEPT ![o] = "SCHEDULED"]
      BY <3>1
    <3> HIDE DEF W
    <3>6. Places(in, o, p, W, q)
      BY <2>1, <2>3, <3>3, <3>4, <3>5 DEF Places, W, m, D
    <3> QED
      BY <1>2, <3>2, <3>6 DEF q, m
  <2>7. CASE ~(e.missing <= 0)
    <3>1. q = [left |-> p.left, new |-> p.new,
               status |-> [p.status EXCEPT ![o] = "FAILED"]]
      BY <2>2, <2>3, <2>4, <2>7
    <3>2. q \in PlansFor(in)
      BY <1>0, <2>5, <3>1 DEF PlansFor, S
    <3>3. Crowded(in, p.left, Factories \X D, m)
      BY <2>1, <2>3, <2>7
    <3>4. GivesUp(in, o, p, q)
      BY <3>1, <3>3 DEF GivesUp, m, D
    <3> QED
      BY <1>2, <3>2, <3>4 DEF q, m
  <2> QED
    BY <2>6, <2>7
<1> QED
  BY <1>0, <1>1, <1>2
-------------------------------------------------------------------------------
(* A run places the mutable orders in their order.                         *)
Lowest(in) ==
  [T \in SUBSET Mutable(in) |-> CHOOSE o \in T : \A a \in T \ {o} : Ranks(in, a, o)]
PlacesAll(in) ==
  [p \in Mutable(in) \X PlansFor(in) |-> PlaceOrder(in, p[2], p[1])]
Blank(in) == [left |-> Prepared(in), new |-> {},
              status |-> [o \in DOMAIN in.rows |-> in.rows[o].status]]

LEMMA MutableFinite ==
  ASSUME NEW in, InputFits(in)
  PROVE  /\ IsFiniteSet(Mutable(in)) /\ Mutable(in) \subseteq DOMAIN in.rows
         /\ IsFiniteSet(DOMAIN in.rows)
<1>1. IsFiniteSet(DOMAIN in.rows)
  BY StrategyAssumption, FS_Subset DEF InputFits, RowsFit
<1>2. Mutable(in) \subseteq DOMAIN in.rows
  BY DEF Mutable
<1> QED
  BY <1>1, <1>2, FS_Subset

LEMMA LowestChosen ==
  ASSUME NEW in, InputFits(in), NEW T \in SUBSET Mutable(in), T # {}
  PROVE  /\ Lowest(in)[T] \in T
         /\ Lowest(in)[T] = CHOOSE o \in T : \A a \in T \ {o} : Ranks(in, a, o)
         /\ \A a \in T \ {Lowest(in)[T]} : Ranks(in, a, Lowest(in)[T])
<1> DEFINE D == DOMAIN in.rows
           R == {p \in D \X D : Ranks(in, p[1], p[2])}
<1>1. IsFiniteSet(Mutable(in)) /\ Mutable(in) \subseteq D /\ RowsFit(in.rows)
  BY MutableFinite DEF InputFits
<1>2. \A a, b \in D : <<a, b>> \in R <=> Ranks(in, a, b)
  OBVIOUS
<1>3. Linear(R, Mutable(in))
  <2>1. /\ \A a, b \in D : a # b => Ranks(in, a, b) \/ Ranks(in, b, a)
        /\ \A a, b, c \in D : Ranks(in, a, b) /\ Ranks(in, b, c) => Ranks(in, a, c)
    BY <1>1, RanksLinear
  <2> HIDE DEF R
  <2>2. \A x, y \in Mutable(in) : x # y => <<x, y>> \in R \/ <<y, x>> \in R
    BY <1>1, <1>2, <2>1
  <2>3. \A x, y, z \in Mutable(in) :
          <<x, y>> \in R /\ <<y, z>> \in R => <<x, z>> \in R
    BY <1>1, <1>2, <2>1
  <2> QED
    BY <2>2, <2>3 DEF Linear
<1> HIDE DEF R
<1>4. PICK o : IsLast(o, T, R)
  BY <1>1, <1>3, LastExists
<1>5. o \in T /\ \A a \in T \ {o} : Ranks(in, a, o)
  BY <1>1, <1>2, <1>4 DEF IsLast
<1>6. PICK l : l = CHOOSE x \in T : \A a \in T \ {x} : Ranks(in, a, x)
  OBVIOUS
<1>7. l \in T /\ \A a \in T \ {l} : Ranks(in, a, l)
  BY <1>5, <1>6
<1>8. Lowest(in)[T] = l
  BY <1>6 DEF Lowest
<1> QED
  BY <1>6, <1>7, <1>8

LEMMA PlacesStep ==
  ASSUME NEW in, InputFits(in), NEW o \in Mutable(in), NEW p \in PlansFor(in)
  PROVE  /\ PlacesAll(in)[<<o, p>>] = PlaceOrder(in, p, o)
         /\ PlacesAll(in)[<<o, p>>] \in PlansFor(in)
<1>1. PlacesAll(in)[<<o, p>>] = PlaceOrder(in, p, o)
  BY DEF PlacesAll
<1>2. PlaceOrder(in, p, o) \in PlansFor(in)
  BY PlaceOrderKeeps
<1> QED
  BY <1>1, <1>2

LEMMA PreparedTyped ==
  ASSUME NEW in, InputFits(in)
  PROVE  Prepared(in) \in Lefts
<1> DEFINE at(w) == <<w.factory, w.day>>
           K == {in.kept[o] : o \in {p \in DOMAIN in.rows : Immutable(in.rows[p])}}
           fixedWork == UNION {in.kept[o] :
                     o \in {p \in DOMAIN in.rows : Immutable(in.rows[p])}}
           on(c) == {w \in fixedWork : at(w) = c}
<1>1. IsFiniteSet(fixedWork)
  <2>1. \A W \in K : IsFiniteSet(W)
    BY DEF InputFits, KeptFits
  <2>2. IsFiniteSet(K)
    <3> DEFINE F == {p \in DOMAIN in.rows : Immutable(in.rows[p])}
    <3>1. IsFiniteSet(F)
      BY MutableFinite, FS_Subset
    <3> HIDE DEF F
    <3>2. IsFiniteSet({in.kept[o] : o \in F})
      <4> DEFINE G == {in.kept[o] : o \in F}
                 f == [o \in F |-> in.kept[o]]
      <4>1. f \in Surjection(F, G)
        BY DEF Surjection
      <4> HIDE DEF f, G
      <4>2. IsFiniteSet(G)
        BY <3>1, <4>1, FS_Surjection
      <4> QED
        BY <4>2 DEF G
    <3> QED
      BY <3>2 DEF F
  <2> QED
    BY <2>1, <2>2, FS_UNION
<1>2. \A w \in fixedWork : w.qty \in Int
  BY DEF InputFits, KeptFits
<1> HIDE DEF fixedWork
<1>3. \A c : Amount(on(c)) \in Int
  <2> TAKE c
  <2>1. IsFiniteSet(on(c))
    BY <1>1, FS_Subset
  <2>2. Sized(on(c))
    BY <1>2, <2>1 DEF Sized
  <2> QED
    BY <2>2, AmountInt
<1>4. \A c \in Cells : in.room[c[1]] \in Int /\ in.left[c] \in Int \cup {None}
  BY DEF Cells, InputFits, Lefts
<1>5. Prepared(in) = [c \in Cells |-> IF in.left[c] = None /\ on(c) # {}
                      THEN in.room[c[1]] - Amount(on(c))
                      ELSE in.left[c]]
  BY DEF Prepared, fixedWork
<1> HIDE DEF on
<1>6. \A c \in Cells : (IF in.left[c] = None /\ on(c) # {}
                        THEN in.room[c[1]] - Amount(on(c))
                        ELSE in.left[c]) \in Int \cup {None}
  BY <1>3, <1>4
<1> QED
  BY <1>5, <1>6 DEF Lefts

LEMMA BlankFits ==
  ASSUME NEW in, InputFits(in)
  PROVE  Blank(in) \in PlansFor(in)
  BY PreparedTyped DEF Blank, PlansFor, Statuses

LEMMA PlanFold ==
  ASSUME NEW in, InputFits(in)
  PROVE  \E f : /\ Follows(f, Mutable(in), Lowest(in), Blank(in), PlacesAll(in),
                           PlansFor(in))
                /\ PlanOf(in) = f[Mutable(in)]
<1> DEFINE S == Mutable(in)
           c == Lowest(in)
           step == PlacesAll(in)
           A == PlansFor(in)
           base == Blank(in)
           last(T) == CHOOSE o \in T : \A a \in T \ {o} : Ranks(in, a, o)
           Iter(g) == g = [s \in SUBSET S |->
                             IF s = {} THEN base
                             ELSE PlaceOrder(in, g[s \ {last(s)}], last(s))]
<1>0. IsFiniteSet(S) /\ base \in A
  BY MutableFinite, BlankFits
<1>1. \A T \in SUBSET S : T # {} => c[T] \in T /\ c[T] = last(T)
  BY LowestChosen
<1>2. \A x \in S, a \in A :
        /\ step[<<x, a>>] = PlaceOrder(in, a, x) /\ step[<<x, a>>] \in A
  BY PlacesStep
<1> HIDE DEF last
<1>3. PICK g : Folds(g, S, c, base, step, A)
  <2> HIDE DEF S, c, step, A, base
  <2> QED
    BY <1>0, <1>1, <1>2, FoldExists
<1>4. Iter(g)
  <2> HIDE DEF S, c, step, A, base
  <2>1. ASSUME NEW s \in SUBSET S, s # {}
        PROVE  g[s] = PlaceOrder(in, g[s \ {last(s)}], last(s))
    <3>1. PICK y : y = last(s)
      OBVIOUS
    <3>2. c[s] = y /\ y \in S
      BY <1>1, <2>1, <3>1
    <3>3. g[s \ {y}] \in A
      BY <1>3 DEF Folds
    <3>4. g[s] = step[<<y, g[s \ {y}]>>]
      BY <1>3, <2>1, <3>2 DEF Folds
    <3>5. g[s] = PlaceOrder(in, g[s \ {y}], y)
      BY <1>2, <3>2, <3>3, <3>4
    <3> QED
      BY ONLY <3>1, <3>5
  <2>2. g[{}] = base
    BY <1>3 DEF Folds
  <2>3. g = [s \in SUBSET S |-> g[s]]
    BY <1>3 DEF Folds
  <2>4. \A s \in SUBSET S :
          g[s] = IF s = {} THEN base
                 ELSE PlaceOrder(in, g[s \ {last(s)}], last(s))
    BY <2>1, <2>2
  <2> QED
    BY ONLY <2>3, <2>4
<1> DEFINE f == CHOOSE h : Iter(h)
<1>5. Iter(f)
  BY <1>4
<1>6. PlanOf(in) = f[S]
  BY DEF PlanOf, MapThenFoldSet, last, Mutable, Blank
<1>7. Follows(f, S, c, base, step, A)
  <2> HIDE DEF f, S, c, step, A, base
  <2>1. f[{}] = base
    BY <1>5
  <2>2. ASSUME NEW T \in SUBSET S, T # {}, f[T \ {c[T]}] \in A
        PROVE  f[T] = step[<<c[T], f[T \ {c[T]}]>>]
    <3>1. PICK y : y = last(T)
      OBVIOUS
    <3>2. c[T] = y /\ y \in S
      BY <1>1, <2>2, <3>1
    <3>3. f[T] = PlaceOrder(in, f[T \ {y}], y)
      BY <1>5, <2>2, <3>1
    <3> QED
      BY <1>2, <2>2, <3>2, <3>3
  <2> QED
    BY <2>1, <2>2 DEF Follows
<1> QED
  BY <1>6, <1>7
-------------------------------------------------------------------------------
(* What stands on a cell after one lot of work and then another stands     *)
(* after both.                                                             *)
LEMMA StandsFree ==
  ASSUME NEW in, RoomFits(in), NEW L \in Lefts, NEW left \in Lefts,
         NEW W, Pile(W), NEW c \in Cells, Stands(in, L, W, left, c)
  PROVE  /\ Free(in, left, c) = Free(in, L, c) - Amount(On(W, c))
         /\ Free(in, L, c) \in Int /\ Amount(On(W, c)) \in Nat
<1>1. /\ Free(in, L, c) \in Int /\ Amount(On(W, c)) \in Nat
      /\ Amount(On(W, c)) = 0 <=> On(W, c) = {}
  BY FreeInt, PileOn DEF RoomFits
<1>2. CASE left[c] = None
  <2>1. L[c] = None /\ On(W, c) = {}
    BY <1>2 DEF Stands
  <2>2. Free(in, left, c) = Free(in, L, c)
    BY <1>2, <2>1 DEF Free
  <2> QED
    BY <1>1, <2>1, <2>2
<1>3. CASE left[c] # None
  BY <1>1, <1>3 DEF Stands, Free
<1> QED
  BY <1>2, <1>3

LEMMA OnUnion ==
  ASSUME NEW V, Pile(V), NEW W, Pile(W), V \cap W = {}, NEW c
  PROVE  /\ Pile(V \cup W) /\ On(V \cup W, c) = On(V, c) \cup On(W, c)
         /\ Amount(On(V \cup W, c)) = Amount(On(V, c)) + Amount(On(W, c))
<1>1. Pile(V \cup W)
  BY FS_Union DEF Pile
<1>2. On(V \cup W, c) = On(V, c) \cup On(W, c) /\ On(V, c) \cap On(W, c) = {}
  BY DEF On
<1>3. Sized(On(V, c)) /\ Sized(On(W, c))
  BY PileOn
<1>4. Amount(On(V, c) \cup On(W, c)) = Amount(On(V, c)) + Amount(On(W, c))
  BY <1>2, <1>3, AmountUnion
<1> QED
  BY <1>1, <1>2, <1>4

LEMMA StandsBoth ==
  ASSUME NEW in, RoomFits(in), NEW L \in Lefts, NEW M \in Lefts, NEW N \in Lefts,
         NEW V, Pile(V), NEW W, Pile(W), V \cap W = {}, NEW c \in Cells,
         Stands(in, L, V, M, c), Stands(in, M, W, N, c)
  PROVE  Stands(in, L, V \cup W, N, c)
<1> DEFINE v == Amount(On(V, c))
           w == Amount(On(W, c))
           u == Amount(On(V \cup W, c))
<1>1. On(V \cup W, c) = On(V, c) \cup On(W, c) /\ u = v + w
  BY OnUnion
<1>2. v \in Nat /\ w \in Nat /\ (v = 0 <=> On(V, c) = {}) /\ (w = 0 <=> On(W, c) = {})
  BY PileOn
<1>3. Free(in, M, c) = Free(in, L, c) - v /\ Free(in, L, c) \in Int
  BY StandsFree
<1>4. CASE N[c] = None
  BY <1>1, <1>4 DEF Stands
<1>5. CASE N[c] # None
  <2>1. N[c] = Free(in, M, c) - w /\ (On(W, c) # {} => N[c] >= 0)
    BY <1>5 DEF Stands
  <2>2. N[c] = Free(in, L, c) - u
    BY <1>1, <1>2, <1>3, <2>1
  <2>3. ASSUME On(V \cup W, c) # {}
        PROVE  N[c] >= 0
    <3>1. CASE On(W, c) # {}
      BY <2>1, <3>1
    <3>2. CASE On(W, c) = {}
      <4>1. On(V, c) # {}
        BY <1>1, <2>3, <3>2
      <4>2. M[c] # None /\ M[c] >= 0
        BY <4>1 DEF Stands
      <4>3. N[c] = M[c]
        <5>1. Free(in, M, c) = M[c] /\ w = 0
          BY <1>2, <3>2, <4>2 DEF Free
        <5>2. M[c] \in Int
          BY <1>2, <1>3, <5>1
        <5> QED
          BY <2>1, <5>1, <5>2
      <4> QED
        BY <4>2, <4>3
    <3> QED
      BY <3>1, <3>2
  <2> HIDE DEF u
  <2> QED
    BY <1>5, <2>2, <2>3 DEF Stands, u
<1> QED
  BY <1>4, <1>5

-------------------------------------------------------------------------------
(* What holds of a plan when the orders of M have been placed: the books   *)
(* of all cells; an order has work for all that it misses or none; and one *)
(* that failed could not have been held by what was left by the orders     *)
(* before it.                                                              *)
For(W, o) == {w \in W : w.order = o}
Early(in, W, o) == {w \in W : Ranks(in, w.order, o)}
Leaves(in, W, c) == Free(in, Prepared(in), c) - Amount(On(W, c))
SpareAfter(in, W, C) == [c \in C |-> Larger(0, Leaves(in, W, c))]
Hopeless(in, W, o) ==
  LET C == Factories \X Window(in, o) IN
  IF in.splittable THEN SumOf(SpareAfter(in, W, C), C) < Missing(in, o)
  ELSE \A c \in C : Leaves(in, W, c) < Missing(in, o)
StatusFits(in) == \A o \in DOMAIN in.rows : in.rows[o].status # "FAILED"
Served(in, M, p, o) ==
  For(p.new, o) # {} =>
    o \in M /\ Amount(For(p.new, o)) = Missing(in, o) /\ p.status[o] = "SCHEDULED"
Refused(in, M, p, o) ==
  p.status[o] = "FAILED" =>
    /\ o \in M /\ For(p.new, o) = {} /\ Missing(in, o) > 0
    /\ Hopeless(in, Early(in, p.new, o), o)
PlanGood(in, M, p) ==
  /\ Pile(p.new)
  /\ \A w \in p.new : w.order \in M /\ w.day \in Window(in, w.order)
  /\ \A c \in Cells : Stands(in, Prepared(in), p.new, p.left, c)
  /\ \A o \in DOMAIN in.rows : Served(in, M, p, o) /\ Refused(in, M, p, o)

LEMMA CrowdedHopeless ==
  ASSUME NEW in, InputFits(in), NEW o \in Mutable(in), NEW p \in PlansFor(in),
         Pile(p.new),
         \A c \in Cells : Stands(in, Prepared(in), p.new, p.left, c),
         Crowded(in, p.left, Factories \X Window(in, o), Missing(in, o))
  PROVE  Hopeless(in, p.new, o)
<1> DEFINE C == Factories \X Window(in, o)
<1>1. C \in SUBSET Cells /\ p.left \in Lefts /\ RoomFits(in) /\ Prepared(in) \in Lefts
  BY PreparedTyped DEF Window, Cells, PlansFor, InputFits, RoomFits
<1>2. \A c \in C : Free(in, p.left, c) = Leaves(in, p.new, c)
  BY <1>1, StandsFree DEF Leaves
<1> HIDE DEF C
<1>3. Spare(in, p.left, C) = SpareAfter(in, p.new, C)
  BY <1>2 DEF Spare, SpareAfter
<1> QED
  BY <1>2, <1>3 DEF Crowded, Hopeless, C

(* The three cases of one more order.                                      *)
LEMMA GoodPlaced ==
  ASSUME NEW in, InputFits(in), NEW T \in SUBSET Mutable(in), NEW o \in T,
         \A a \in T \ {o} : Ranks(in, a, o),
         NEW p \in PlansFor(in), PlanGood(in, T \ {o}, p),
         NEW q \in PlansFor(in), Missing(in, o) > 0, NEW W, Places(in, o, p, W, q)
  PROVE  PlanGood(in, T, q)
<1> DEFINE V == p.new
           P == Prepared(in)
<1>0. /\ o \in DOMAIN in.rows /\ RowsFit(in.rows) /\ RoomFits(in)
      /\ Missing(in, o) \in Int /\ P \in Lefts /\ p.left \in Lefts
      /\ q.left \in Lefts /\ p.status \in [DOMAIN in.rows -> Statuses(in)]
  BY MissingInt, PreparedTyped DEF Mutable, InputFits, RoomFits, PlansFor
<1>1. Pile(V) /\ Pile(W) /\ (\A w \in V : w.order \in T \ {o})
      /\ (\A w \in W : w.order = o) /\ V \cap W = {} /\ q.new = V \cup W
  BY DEF PlanGood, Places, Spread, Pile
<1> HIDE DEF V, P
<1>2. Pile(q.new)
  <2>1. IsFiniteSet(V \cup W)
    BY <1>1, FS_Union DEF Pile
  <2> QED
    BY <1>1, <2>1 DEF Pile
<1>3. \A w \in q.new : w.order \in T /\ w.day \in Window(in, w.order)
  <2>1. \A w \in V : w.order \in T /\ w.day \in Window(in, w.order)
    BY DEF PlanGood, V
  <2>2. \A w \in W : w.order = o /\ w.day \in Window(in, o)
    BY <1>1 DEF Places, Within
  <2> QED
    BY <1>1, <2>1, <2>2
<1>4. ASSUME NEW c \in Cells
      PROVE  Stands(in, P, q.new, q.left, c)
  <2>1. Stands(in, P, V, p.left, c) /\ Stands(in, p.left, W, q.left, c)
    BY DEF PlanGood, Places, V, P
  <2> QED
    BY <1>0, <1>1, <2>1, StandsBoth
<1>5. q.status[o] = "SCHEDULED"
      /\ \A a \in DOMAIN in.rows \ {o} : q.status[a] = p.status[a]
  BY <1>0 DEF Places
<1>6. For(q.new, o) = W /\ \A a \in DOMAIN in.rows \ {o} : For(q.new, a) = For(V, a)
  BY <1>1 DEF For
<1>7. ASSUME NEW a \in DOMAIN in.rows
      PROVE  Served(in, T, q, a)
  <2>1. CASE a = o
    BY <1>5, <1>6, <2>1 DEF Served, Places
  <2>2. CASE a # o
    <3>1. Served(in, T \ {o}, p, a)
      BY DEF PlanGood
    <3> QED
      BY <1>5, <1>6, <2>2, <3>1 DEF Served, V
  <2> QED
    BY <2>1, <2>2
<1>8. ASSUME NEW a \in DOMAIN in.rows
      PROVE  Refused(in, T, q, a)
  <2>1. CASE a = o
    BY <1>5, <2>1 DEF Refused
  <2>2. CASE a # o
    <3>1. Refused(in, T \ {o}, p, a)
      BY DEF PlanGood
    <3> SUFFICES ASSUME q.status[a] = "FAILED"
                 PROVE  /\ a \in T /\ For(q.new, a) = {} /\ Missing(in, a) > 0
                        /\ Hopeless(in, Early(in, q.new, a), a)
      BY DEF Refused
    <3>2. /\ a \in T \ {o} /\ For(V, a) = {} /\ Missing(in, a) > 0
          /\ Hopeless(in, Early(in, V, a), a)
      BY <1>5, <2>2, <3>1 DEF Refused, V
    <3>3. Ranks(in, a, o)
      BY <3>2
    <3>4. ~Ranks(in, o, a)
      BY <1>0, <3>3, RanksLinear
    <3>5. Early(in, q.new, a) = Early(in, V, a)
      BY <1>1, <3>4 DEF Early
    <3> QED
      BY <1>6, <2>2, <3>2, <3>5
  <2> QED
    BY <2>1, <2>2
<1> QED
  BY <1>2, <1>3, <1>4, <1>7, <1>8 DEF PlanGood, P

LEMMA GoodGivenUp ==
  ASSUME NEW in, InputFits(in), NEW T \in SUBSET Mutable(in), NEW o \in T,
         \A a \in T \ {o} : Ranks(in, a, o),
         NEW p \in PlansFor(in), PlanGood(in, T \ {o}, p),
         NEW q \in PlansFor(in), Missing(in, o) > 0, GivesUp(in, o, p, q)
  PROVE  PlanGood(in, T, q)
<1>0. o \in DOMAIN in.rows /\ p.status \in [DOMAIN in.rows -> Statuses(in)]
  BY DEF Mutable, PlansFor
<1>1. q.left = p.left /\ q.new = p.new
  BY DEF GivesUp
<1>2. \A w \in p.new : w.order \in T \ {o} /\ w.day \in Window(in, w.order)
  BY DEF PlanGood
<1>3. q.status[o] = "FAILED"
      /\ \A a \in DOMAIN in.rows \ {o} : q.status[a] = p.status[a]
  BY <1>0 DEF GivesUp
<1>4. Hopeless(in, p.new, o)
  BY CrowdedHopeless DEF PlanGood, GivesUp
<1>5. Early(in, p.new, o) = p.new /\ For(p.new, o) = {}
  BY <1>2 DEF Early, For
<1>6. ASSUME NEW a \in DOMAIN in.rows
      PROVE  Served(in, T, q, a) /\ Refused(in, T, q, a)
  <2>1. CASE a = o
    BY <1>1, <1>4, <1>5, <2>1 DEF Served, Refused
  <2>2. CASE a # o
    <3>1. Served(in, T \ {o}, p, a) /\ Refused(in, T \ {o}, p, a)
      BY DEF PlanGood
    <3> QED
      BY <1>1, <1>3, <2>2, <3>1 DEF Served, Refused
  <2> QED
    BY <2>1, <2>2
<1> QED
  BY <1>1, <1>2, <1>6 DEF PlanGood

LEMMA GoodKept ==
  ASSUME NEW in, NEW T, NEW o \in T, NEW p, PlanGood(in, T \ {o}, p)
  PROVE  PlanGood(in, T, p)
  BY DEF PlanGood, Served, Refused

LEMMA GoodStep ==
  ASSUME NEW in, InputFits(in), NEW T \in SUBSET Mutable(in), NEW o \in T,
         \A a \in T \ {o} : Ranks(in, a, o),
         NEW p \in PlansFor(in), PlanGood(in, T \ {o}, p)
  PROVE  PlanGood(in, T, PlaceOrder(in, p, o))
<1> DEFINE q == PlaceOrder(in, p, o)
<1>1. /\ q \in PlansFor(in)
      /\ \/ Missing(in, o) <= 0 /\ q = p
         \/ Missing(in, o) > 0 /\ \E W : Places(in, o, p, W, q)
         \/ Missing(in, o) > 0 /\ GivesUp(in, o, p, q)
  BY PlaceOrderKeeps
<1> HIDE DEF q
<1>2. CASE q = p
  BY <1>2, GoodKept DEF q
<1>3. CASE Missing(in, o) > 0 /\ \E W : Places(in, o, p, W, q)
  <2>1. PICK W : Places(in, o, p, W, q)
    BY <1>3
  <2>2. PlanGood(in, T, q)
    BY <1>1, <1>3, <2>1, GoodPlaced
  <2> QED
    BY <2>2 DEF q
<1>4. CASE Missing(in, o) > 0 /\ GivesUp(in, o, p, q)
  <2>1. PlanGood(in, T, q)
    BY <1>1, <1>4, GoodGivenUp
  <2> QED
    BY <2>1 DEF q
<1> QED
  BY <1>1, <1>2, <1>3, <1>4

LEMMA BlankGood ==
  ASSUME NEW in, InputFits(in), StatusFits(in)
  PROVE  PlanGood(in, {}, Blank(in))
<1> DEFINE b == Blank(in)
           P == Prepared(in)
<1>1. b.new = {} /\ b.left = P /\ \A o \in DOMAIN in.rows : b.status[o] # "FAILED"
  BY DEF Blank, StatusFits
<1>2. P \in Lefts /\ RoomFits(in)
  BY PreparedTyped DEF InputFits, RoomFits
<1> HIDE DEF b, P
<1>3. Pile({}) /\ Amount({}) = 0
  BY FS_EmptySet, AmountNone DEF Pile
<1>4. ASSUME NEW c \in Cells
      PROVE  Stands(in, P, {}, P, c)
  <2>1. On({}, c) = {} /\ Free(in, P, c) \in Int
    BY <1>2, FreeInt DEF On, RoomFits
  <2>2. P[c] # None => P[c] = Free(in, P, c)
    BY DEF Free
  <2>3. Free(in, P, c) - 0 = Free(in, P, c)
    BY <2>1
  <2> QED
    BY <1>3, <2>1, <2>2, <2>3 DEF Stands
<1>5. \A o \in DOMAIN in.rows : Served(in, {}, b, o) /\ Refused(in, {}, b, o)
  BY <1>1 DEF Served, Refused, For
<1> QED
  BY <1>1, <1>3, <1>4, <1>5 DEF PlanGood, b, P

(* A plan is good when all mutable orders have been placed.                *)
LEMMA PlanOfGood ==
  ASSUME NEW in, InputFits(in), StatusFits(in)
  PROVE  PlanOf(in) \in PlansFor(in) /\ PlanGood(in, Mutable(in), PlanOf(in))
<1> DEFINE S == Mutable(in)
           c == Lowest(in)
           step == PlacesAll(in)
           A == PlansFor(in)
           base == Blank(in)
           I == {x \in (SUBSET S) \X A : PlanGood(in, x[1], x[2])}
<1>1. PICK f : Follows(f, S, c, base, step, A) /\ PlanOf(in) = f[S]
  BY PlanFold
<1>2. IsFiniteSet(S) /\ base \in A
  BY MutableFinite, BlankFits
<1>3. \A T \in SUBSET S : T # {} => c[T] \in T /\ \A a \in T \ {c[T]} : Ranks(in, a, c[T])
  BY LowestChosen
<1>4. \A x \in S, a \in A :
        step[<<x, a>>] = PlaceOrder(in, a, x) /\ step[<<x, a>>] \in A
  BY PlacesStep
<1>5. <<{}, base>> \in I
  <2>1. PlanGood(in, {}, base)
    BY BlankGood
  <2> HIDE DEF base, A, S
  <2> QED
    BY <1>2, <2>1
<1> HIDE DEF S, c, step, A, base
<1>6. Picks(c, S) /\ Closed(step, S, A)
  BY <1>3, <1>4 DEF Picks, Closed
<1>7. Steady(I, S, c, step, A)
  <2> SUFFICES ASSUME NEW T \in SUBSET S, NEW a \in A, T # {},
                      <<T \ {c[T]}, a>> \in I
               PROVE  <<T, step[<<c[T], a>>]>> \in I
    BY DEF Steady
  <2>1. PICK x \in T : x = c[T]
    BY <1>3
  <2>2. PlanGood(in, T \ {x}, a) /\ \A y \in T \ {x} : Ranks(in, y, x)
    BY <1>3, <2>1
  <2>3. step[<<x, a>>] = PlaceOrder(in, a, x) /\ step[<<x, a>>] \in A
    BY <1>4
  <2>4. PlanGood(in, T, step[<<x, a>>])
    BY <2>2, <2>3, GoodStep DEF S, A
  <2> QED
    BY <2>1, <2>3, <2>4
<1>8. f[S] \in A /\ <<S, f[S]>> \in I
  <2> HIDE DEF I
  <2> QED
    BY ONLY <1>1, <1>2, <1>5, <1>6, <1>7, FoldInvariant
<1> QED
  BY <1>1, <1>8 DEF S, A
-------------------------------------------------------------------------------
(* What a good plan says of a cell and of an order, in amounts.            *)
LEMMA GoodOnCell ==
  ASSUME NEW in, InputFits(in), NEW p \in PlansFor(in), NEW M, PlanGood(in, M, p),
         NEW c \in Cells
  PROVE  LET n == Amount(On(p.new, c)) IN
         /\ n \in Nat /\ Free(in, Prepared(in), c) \in Int
         /\ IF p.left[c] = None THEN Prepared(in)[c] = None /\ n = 0
            ELSE /\ p.left[c] = Free(in, Prepared(in), c) - n
                 /\ n > 0 => p.left[c] >= 0
         /\ Free(in, p.left, c) = Free(in, Prepared(in), c) - n
<1>1. RoomFits(in) /\ Prepared(in) \in Lefts /\ p.left \in Lefts /\ Pile(p.new)
      /\ Stands(in, Prepared(in), p.new, p.left, c)
  BY PreparedTyped DEF InputFits, RoomFits, PlansFor, PlanGood
<1>2. /\ Amount(On(p.new, c)) \in Nat
      /\ Amount(On(p.new, c)) = 0 <=> On(p.new, c) = {}
  BY <1>1, PileOn
<1>3. /\ Free(in, p.left, c) = Free(in, Prepared(in), c) - Amount(On(p.new, c))
      /\ Free(in, Prepared(in), c) \in Int
  BY <1>1, StandsFree
<1> QED
  BY <1>1, <1>2, <1>3 DEF Stands

LEMMA GoodForOrder ==
  ASSUME NEW in, InputFits(in), NEW p \in PlansFor(in), NEW M, PlanGood(in, M, p),
         NEW o \in DOMAIN in.rows
  PROVE  LET n == Amount(For(p.new, o)) IN
         /\ n \in {0, Missing(in, o)}
         /\ n > 0 => o \in M /\ p.status[o] = "SCHEDULED"
         /\ p.status[o] = "FAILED" => n = 0 /\ Missing(in, o) > 0
<1>1. Served(in, M, p, o) /\ Refused(in, M, p, o)
  BY DEF PlanGood
<1>2. CASE For(p.new, o) = {}
  BY <1>1, <1>2, AmountNone DEF Refused
<1>3. CASE For(p.new, o) # {}
  BY <1>1, <1>3 DEF Served, Refused
<1> QED
  BY <1>2, <1>3

LEMMA GoodInWindow ==
  ASSUME NEW in, InputFits(in), NEW p, NEW M, M \subseteq DOMAIN in.rows,
         PlanGood(in, M, p), NEW w \in p.new
  PROVE  /\ w.day + ProductionDays + BufferDays <= in.rows[w.order].due
         /\ w.day >= in.start /\ (in.end # None => w.day <= in.end)
<1>1. w.order \in DOMAIN in.rows /\ w.day \in Window(in, w.order)
  BY DEF PlanGood
<1>2. /\ in.rows[w.order].due \in Int /\ in.start \in Int
      /\ in.end \in Int \cup {None}
      /\ ProductionDays \in Int /\ BufferDays \in Int
  BY <1>1, StrategyAssumption DEF InputFits, RowsFit
<1>3. w.day \in Int /\ w.day >= in.start
  BY <1>1, <1>2 DEF Window, Smaller
<1> DEFINE deadline == in.rows[w.order].due - BufferDays - ProductionDays
<1>4. w.day <= deadline /\ (in.end # None => w.day <= in.end)
  <2>1. CASE in.end = None
    BY <1>1, <1>2, <2>1 DEF Window
  <2>2. CASE in.end # None
    BY <1>1, <1>2, <2>2 DEF Window, Smaller
  <2> QED
    BY <2>1, <2>2
<1> QED
  BY <1>2, <1>3, <1>4

-------------------------------------------------------------------------------
(* Work of orders that come after o, given back, leaves a cell no more     *)
(* than it had when o was placed.                                          *)
GivenTo(p, S, c) ==
  Amount({w \in p.new : w.order \in S /\ <<w.factory, w.day>> = c})

LEMMA GivenBack ==
  ASSUME NEW in, InputFits(in), NEW p \in PlansFor(in), NEW M,
         M \subseteq DOMAIN in.rows, PlanGood(in, M, p),
         NEW o \in DOMAIN in.rows, NEW S, \A a \in S : Ranks(in, o, a),
         S \subseteq DOMAIN in.rows, NEW c \in Cells
  PROVE  /\ GivenTo(p, S, c) + Free(in, p.left, c) \in Int
         /\ Leaves(in, Early(in, p.new, o), c) \in Int
         /\ GivenTo(p, S, c) + Free(in, p.left, c)
              <= Leaves(in, Early(in, p.new, o), c)
<1> DEFINE G == {w \in p.new : w.order \in S /\ <<w.factory, w.day>> = c}
           E == On(Early(in, p.new, o), c)
           T == On(p.new, c)
<1>1. /\ Amount(T) \in Nat /\ Free(in, Prepared(in), c) \in Int
      /\ Free(in, p.left, c) = Free(in, Prepared(in), c) - Amount(T)
  BY GoodOnCell
<1>2. G \subseteq T /\ E \subseteq T
  BY DEF On, Early
<1>3. G \cap E = {}
  <2> SUFFICES ASSUME NEW w \in G, w \in E PROVE FALSE
    OBVIOUS
  <2>1. Ranks(in, o, w.order) /\ Ranks(in, w.order, o) /\ w.order \in DOMAIN in.rows
    BY DEF On, Early
  <2> QED
    BY <2>1, RanksLinear DEF InputFits
<1>4. /\ IsFiniteSet(T) /\ \A w \in T : w.qty \in Nat
  BY PileOn DEF PlanGood, Pile, Given
<1> HIDE DEF G, E, T
<1>5. /\ IsFiniteSet(G \cup E) /\ G \cup E \subseteq T
      /\ Sized(G) /\ Sized(E) /\ Sized(T)
  BY <1>2, <1>4, FS_Subset DEF Sized
<1>6. Amount(G \cup E) = Amount(G) + Amount(E) /\ Amount(G) \in Int /\ Amount(E) \in Int
  BY <1>3, <1>5, AmountUnion, AmountInt
<1>7. Amount(G \cup E) <= Amount(T)
  BY <1>2, <1>4, <1>5, AmountPart
<1>8. Amount(G) + Free(in, p.left, c) <= Free(in, Prepared(in), c) - Amount(E)
  BY <1>1, <1>6, <1>7
<1>9. Leaves(in, Early(in, p.new, o), c) = Free(in, Prepared(in), c) - Amount(E)
  BY DEF Leaves, E
<1> QED
  BY <1>1, <1>6, <1>8, <1>9 DEF G, GivenTo

(* So an order that failed would not fit then either.                      *)
FreeWithout(in, p, S, C) ==
  [c \in C |-> Larger(0, GivenTo(p, S, c) + Free(in, p.left, c))]

LEMMA FailedAnyway ==
  ASSUME NEW in, InputFits(in), NEW p \in PlansFor(in), NEW M,
         M \subseteq DOMAIN in.rows, PlanGood(in, M, p),
         NEW o \in DOMAIN in.rows, p.status[o] = "FAILED",
         NEW S, S \subseteq DOMAIN in.rows, \A a \in S : Ranks(in, o, a)
  PROVE  LET C == Factories \X Window(in, o)
         IN  IF in.splittable THEN SumOf(FreeWithout(in, p, S, C), C) < Missing(in, o)
             ELSE \A c \in C : FreeWithout(in, p, S, C)[c] < Missing(in, o)
<1> DEFINE C == Factories \X Window(in, o)
           free == FreeWithout(in, p, S, C)
           then == SpareAfter(in, Early(in, p.new, o), C)
<1>1. Missing(in, o) > 0 /\ Hopeless(in, Early(in, p.new, o), o)
      /\ Missing(in, o) \in Int
  BY MissingInt DEF PlanGood, Refused
<1>2. C \subseteq Cells /\ IsFiniteSet(C)
  BY CellsFinite DEF Cells, Window
<1>3. \A c \in C : /\ GivenTo(p, S, c) + Free(in, p.left, c)
                        <= Leaves(in, Early(in, p.new, o), c)
                   /\ GivenTo(p, S, c) + Free(in, p.left, c) \in Int
                   /\ Leaves(in, Early(in, p.new, o), c) \in Int
  <2> HIDE DEF C
  <2> TAKE c \in C
  <2>1. c \in Cells
    BY <1>2
  <2> QED
    BY <2>1, GivenBack
<1>4. \A c \in C : free[c] = Larger(0, GivenTo(p, S, c) + Free(in, p.left, c))
  BY DEF FreeWithout
<1>5. \A c \in C : then[c] = Larger(0, Leaves(in, Early(in, p.new, o), c))
  BY DEF SpareAfter
<1>6. CASE in.splittable
  <2>1. SumOf(then, C) < Missing(in, o)
    BY <1>1, <1>6 DEF Hopeless
  <2> HIDE DEF C, free, then
  <2>2. \A c \in C : free[c] \in Int /\ then[c] \in Int /\ free[c] <= then[c]
    BY <1>3, <1>4, <1>5 DEF Larger
  <2>3. SumOf(free, C) <= SumOf(then, C)
        /\ SumOf(free, C) \in Int /\ SumOf(then, C) \in Int
    BY <1>2, <2>2, SumMonotone, SumInt
  <2>4. SumOf(free, C) < Missing(in, o)
    BY <1>1, <2>1, <2>3
  <2> QED
    BY <1>6, <2>4 DEF C, free
<1>7. CASE ~in.splittable
  <2>1. \A c \in C : Leaves(in, Early(in, p.new, o), c) < Missing(in, o)
    BY <1>1, <1>7 DEF Hopeless
  <2> HIDE DEF C, free
  <2>2. \A c \in C : free[c] < Missing(in, o)
    BY <1>1, <1>3, <1>4, <2>1 DEF Larger
  <2> QED
    BY <1>7, <2>2 DEF C, free
<1> QED
  BY <1>6, <1>7

-------------------------------------------------------------------------------
(* What a plan decides on each order: an order that is placed gets work,   *)
(* one that misses nothing or is not mutable keeps its status and gets     *)
(* none; and no two pieces of new work are for one order in one cell.      *)
Apart(W) ==
  \A v, w \in W : v.order = w.order /\ v.factory = w.factory /\ v.day = w.day
                    => v = w
Decided(in, M, p, o) ==
  IF o \in M /\ Missing(in, o) > 0
  THEN /\ p.status[o] \in {"SCHEDULED", "FAILED"}
       /\ p.status[o] = "SCHEDULED" => For(p.new, o) # {}
  ELSE p.status[o] = in.rows[o].status /\ For(p.new, o) = {}
PlanNeat(in, M, p) ==
  Apart(p.new) /\ \A o \in DOMAIN in.rows : Decided(in, M, p, o)

LEMMA NeatPlaced ==
  ASSUME NEW in, InputFits(in), NEW T \in SUBSET Mutable(in), NEW o \in T,
         NEW p \in PlansFor(in), PlanNeat(in, T \ {o}, p),
         \A w \in p.new : w.order \in T \ {o},
         NEW q, Missing(in, o) > 0, NEW W, Places(in, o, p, W, q)
  PROVE  PlanNeat(in, T, q)
<1> DEFINE V == p.new
<1>0. /\ o \in DOMAIN in.rows /\ p.status \in [DOMAIN in.rows -> Statuses(in)]
  BY DEF Mutable, PlansFor
<1>1. /\ (\A w \in V : w.order \in T \ {o}) /\ (\A w \in W : w.order = o)
      /\ q.new = V \cup W /\ Apart(V)
  BY DEF Places, PlanNeat
<1>2. W # {}
  <2>1. Amount(W) = Missing(in, o)
    BY DEF Places
  <2>2. ASSUME W = {} PROVE FALSE
    <3>1. Amount(W) = 0
      BY <2>2, AmountNone
    <3> QED
      BY <2>1, <3>1
  <2> QED
    BY <2>2
<1>3. Apart(W)
  <2>1. Spread(W)
    BY DEF Places
  <2> QED
    BY <2>1 DEF Spread, Apart
<1>4. q.status[o] = "SCHEDULED"
      /\ \A a \in DOMAIN in.rows \ {o} : q.status[a] = p.status[a]
  BY <1>0 DEF Places
<1>5. \A a \in DOMAIN in.rows : Decided(in, T \ {o}, p, a)
  BY DEF PlanNeat
<1> HIDE DEF V
<1>6. Apart(q.new)
  BY <1>1, <1>3 DEF Apart
<1>7. For(q.new, o) = W /\ \A a \in DOMAIN in.rows \ {o} : For(q.new, a) = For(V, a)
  BY <1>1 DEF For
<1>8. ASSUME NEW a \in DOMAIN in.rows
      PROVE  Decided(in, T, q, a)
  <2>1. CASE a = o
    BY <1>2, <1>4, <1>7, <2>1 DEF Decided
  <2>2. CASE a # o
    BY <1>4, <1>5, <1>7, <2>2 DEF Decided, V
  <2> QED
    BY <2>1, <2>2
<1> QED
  BY <1>6, <1>8 DEF PlanNeat

LEMMA NeatGivenUp ==
  ASSUME NEW in, InputFits(in), NEW T \in SUBSET Mutable(in), NEW o \in T,
         NEW p \in PlansFor(in), PlanNeat(in, T \ {o}, p),
         NEW q, Missing(in, o) > 0, GivesUp(in, o, p, q)
  PROVE  PlanNeat(in, T, q)
<1>0. /\ o \in DOMAIN in.rows /\ p.status \in [DOMAIN in.rows -> Statuses(in)]
  BY DEF Mutable, PlansFor
<1>1. q.new = p.new /\ q.status[o] = "FAILED"
      /\ \A a \in DOMAIN in.rows \ {o} : q.status[a] = p.status[a]
  BY <1>0 DEF GivesUp
<1>2. ASSUME NEW a \in DOMAIN in.rows
      PROVE  Decided(in, T, q, a)
  <2>1. Decided(in, T \ {o}, p, a)
    BY DEF PlanNeat
  <2>2. CASE a = o
    BY <1>1, <2>2 DEF Decided
  <2>3. CASE a # o
    BY <1>1, <2>1, <2>3 DEF Decided
  <2> QED
    BY <2>2, <2>3
<1> QED
  BY <1>1, <1>2 DEF PlanNeat

LEMMA NeatStep ==
  ASSUME NEW in, InputFits(in), NEW T \in SUBSET Mutable(in), NEW o \in T,
         NEW p \in PlansFor(in), PlanNeat(in, T \ {o}, p),
         \A w \in p.new : w.order \in T \ {o}
  PROVE  PlanNeat(in, T, PlaceOrder(in, p, o))
<1> DEFINE q == PlaceOrder(in, p, o)
<1>1. /\ q \in PlansFor(in)
      /\ \/ Missing(in, o) <= 0 /\ q = p
         \/ Missing(in, o) > 0 /\ \E W : Places(in, o, p, W, q)
         \/ Missing(in, o) > 0 /\ GivesUp(in, o, p, q)
  BY PlaceOrderKeeps
<1> HIDE DEF q
<1>2. CASE Missing(in, o) <= 0 /\ q = p
  <2>1. Missing(in, o) \in Int
    BY MissingInt DEF Mutable
  <2>2. ASSUME NEW a \in DOMAIN in.rows
        PROVE  Decided(in, T, p, a)
    <3>1. Decided(in, T \ {o}, p, a)
      BY DEF PlanNeat
    <3>2. CASE a = o
      <4>1. ~(Missing(in, a) > 0)
        BY <1>2, <2>1, <3>2
      <4> QED
        BY <3>1, <4>1 DEF Decided
    <3>3. CASE a # o
      BY <3>1, <3>3 DEF Decided
    <3> QED
      BY <3>2, <3>3
  <2> QED
    BY <1>2, <2>2 DEF PlanNeat, q
<1>3. CASE Missing(in, o) > 0 /\ \E W : Places(in, o, p, W, q)
  <2>1. PICK W : Places(in, o, p, W, q)
    BY <1>3
  <2>2. PlanNeat(in, T, q)
    BY <1>3, <2>1, NeatPlaced
  <2> QED
    BY <2>2 DEF q
<1>4. CASE Missing(in, o) > 0 /\ GivesUp(in, o, p, q)
  <2>1. PlanNeat(in, T, q)
    BY <1>4, NeatGivenUp
  <2> QED
    BY <2>1 DEF q
<1> QED
  BY <1>1, <1>2, <1>3, <1>4

LEMMA BlankNeat ==
  ASSUME NEW in
  PROVE  PlanNeat(in, {}, Blank(in))
  BY DEF PlanNeat, Apart, Decided, Blank, For

(* A plan has decided on all mutable orders.                               *)
LEMMA PlanOfNeat ==
  ASSUME NEW in, InputFits(in), StatusFits(in)
  PROVE  PlanNeat(in, Mutable(in), PlanOf(in))
<1> DEFINE S == Mutable(in)
           c == Lowest(in)
           step == PlacesAll(in)
           A == PlansFor(in)
           base == Blank(in)
           I == {x \in (SUBSET S) \X A :
                   PlanGood(in, x[1], x[2]) /\ PlanNeat(in, x[1], x[2])}
<1>1. PICK f : Follows(f, S, c, base, step, A) /\ PlanOf(in) = f[S]
  BY PlanFold
<1>2. IsFiniteSet(S) /\ base \in A
  BY MutableFinite, BlankFits
<1>3. \A T \in SUBSET S : T # {} => c[T] \in T /\ \A a \in T \ {c[T]} : Ranks(in, a, c[T])
  BY LowestChosen
<1>4. \A x \in S, a \in A :
        step[<<x, a>>] = PlaceOrder(in, a, x) /\ step[<<x, a>>] \in A
  BY PlacesStep
<1>5. <<{}, base>> \in I
  <2>1. PlanGood(in, {}, base) /\ PlanNeat(in, {}, base)
    BY BlankGood, BlankNeat
  <2> HIDE DEF base, A, S
  <2> QED
    BY <1>2, <2>1
<1> HIDE DEF S, c, step, A, base
<1>6. Picks(c, S) /\ Closed(step, S, A)
  BY <1>3, <1>4 DEF Picks, Closed
<1>7. Steady(I, S, c, step, A)
  <2> SUFFICES ASSUME NEW T \in SUBSET S, NEW a \in A, T # {},
                      <<T \ {c[T]}, a>> \in I
               PROVE  <<T, step[<<c[T], a>>]>> \in I
    BY DEF Steady
  <2>1. PICK x \in T : x = c[T]
    BY <1>3
  <2>2. /\ PlanGood(in, T \ {x}, a) /\ PlanNeat(in, T \ {x}, a)
        /\ \A y \in T \ {x} : Ranks(in, y, x)
    BY <1>3, <2>1
  <2>3. step[<<x, a>>] = PlaceOrder(in, a, x) /\ step[<<x, a>>] \in A
    BY <1>4
  <2>4. PlanGood(in, T, step[<<x, a>>])
    BY <2>2, <2>3, GoodStep DEF S, A
  <2>5. PlanNeat(in, T, step[<<x, a>>])
    <3>1. \A w \in a.new : w.order \in T \ {x}
      BY <2>2 DEF PlanGood
    <3> QED
      BY <2>2, <2>3, <3>1, NeatStep DEF S, A
  <2> QED
    BY <2>1, <2>3, <2>4, <2>5
<1>8. f[S] \in A /\ <<S, f[S]>> \in I
  <2> HIDE DEF I
  <2> QED
    BY ONLY <1>1, <1>2, <1>5, <1>6, <1>7, FoldInvariant
<1> QED
  BY <1>1, <1>8 DEF S, A
===============================================================================
