----------------------------- MODULE SumTheorems -----------------------------
(***************************************************************************)
(* Sums of a function's values over a finite set, as the models write them  *)
(* with the folds of the community modules: what a sum is made of, how it   *)
(* changes with one value or one element, and how two sums compare.         *)
(*                                                                          *)
(* An induction over data needs a theorem with an operator parameter, which *)
(* the provers cannot instantiate.  Instead, the subsets for which a claim  *)
(* fails are collected in a set; if there were one there would be a minimal *)
(* one, and removing one element of it gives a smaller one that fails.      *)
(***************************************************************************)
EXTENDS Functions, FiniteSetTheorems, TLAPS

(* What the models fold: the amounts f gives to the members of S.           *)
SumOver(f, S) == FoldFunctionOnSet(+, 0, f, S)

(* The element the fold takes first.                                        *)
OneOf(s) == CHOOSE x \in s : TRUE

(* g holds the sum of f over every subset of S, by the recursion of the     *)
(* fold.                                                                    *)
IsFold(g, f, S) ==
    g = [s \in SUBSET S |-> IF s = {} THEN 0 ELSE f[OneOf(s)] + g[s \ {OneOf(s)}]]

(* Among subsets of a finite set there is one that contains no other.       *)
LEMMA MinimalSubset ==
    ASSUME NEW S, IsFiniteSet(S), NEW Bad \in SUBSET (SUBSET S), Bad # {}
    PROVE  \E s \in Bad : \A u \in Bad : u \subseteq s => u = s
<1> DEFINE R == StrictSubsetOrdering(S)
<1>1. IsWellFoundedOn(R, SUBSET S)
  BY FS_StrictSubsetOrderingWellFounded, FS_FiniteSubsetsOfFinite
<1>2. PICK s \in Bad : \A u \in Bad : ~ (<<u, s>> \in R)
  <2> HIDE DEF R
  <2> QED
    BY <1>1, WFMin
<1>3. \A u \in Bad : u \subseteq s => u = s
  BY <1>2 DEF StrictSubsetOrdering
<1> QED
  BY <1>3

(* The element the fold takes first is one of them.                         *)
LEMMA SmallerBy ==
    ASSUME NEW s, s # {}
    PROVE  OneOf(s) \in s
BY DEF OneOf

(* Two functions that satisfy the recursion are equal.                      *)
LEMMA FoldUnique ==
    ASSUME NEW S, IsFiniteSet(S), NEW f, NEW g, NEW h, IsFold(g, f, S), IsFold(h, f, S)
    PROVE  g = h
<1> DEFINE Bad == {s \in SUBSET S : g[s] # h[s]}
<1>1. CASE Bad = {}
  BY <1>1 DEF IsFold
<1>2. ASSUME Bad # {} PROVE FALSE
  <2>1. PICK s \in Bad : \A u \in Bad : u \subseteq s => u = s
    <3>1. Bad \in SUBSET (SUBSET S)
      OBVIOUS
    <3> HIDE DEF Bad
    <3> QED
      BY <1>2, <3>1, MinimalSubset
  <2>2. s # {}
    BY <2>1 DEF IsFold
  <2>3. OneOf(s) \in s
    BY <2>2, SmallerBy
  <2>4. g[s \ {OneOf(s)}] = h[s \ {OneOf(s)}]
    BY <2>1, <2>3
  <2>5. g[s] = f[OneOf(s)] + g[s \ {OneOf(s)}] /\ h[s] = f[OneOf(s)] + h[s \ {OneOf(s)}]
    BY <2>2 DEF IsFold
  <2> QED
    BY <2>1, <2>4, <2>5
<1> QED
  BY <1>1, <1>2

(* The recursion over S is one over each subset of S.                       *)
LEMMA FoldRestricts ==
    ASSUME NEW S, NEW f, NEW g, IsFold(g, f, S), NEW u \in SUBSET S
    PROVE  IsFold([s \in SUBSET u |-> g[s]], f, u)
<1> DEFINE h == [s \in SUBSET u |-> g[s]]
<1>1. ASSUME NEW s \in SUBSET u
      PROVE  h[s] = IF s = {} THEN 0 ELSE f[OneOf(s)] + h[s \ {OneOf(s)}]
  BY DEF IsFold
<1> QED
  BY <1>1 DEF IsFold

(* The recursion has a solution, built one element at a time.               *)
LEMMA FoldExists ==
    ASSUME NEW S, IsFiniteSet(S), NEW f
    PROVE  \E g : IsFold(g, f, S)
<1> DEFINE Bad == {s \in SUBSET S : ~ \E g : IsFold(g, f, s)}
<1> SUFFICES ASSUME Bad # {} PROVE FALSE
  OBVIOUS
<1>1. PICK s \in Bad : \A u \in Bad : u \subseteq s => u = s
  <2>1. Bad \in SUBSET (SUBSET S)
    OBVIOUS
  <2> HIDE DEF Bad
  <2> QED
    BY <2>1, MinimalSubset
<1> DEFINE F(u) == CHOOSE g : IsFold(g, f, u)
           V(u) == F(u)[u]
           h == [u \in SUBSET s |->
                   IF u = {} THEN 0 ELSE f[OneOf(u)] + V(u \ {OneOf(u)})]
<1>2. ASSUME NEW u \in SUBSET s, u # s
      PROVE  IsFold(F(u), f, u)
  <2>1. \E g : IsFold(g, f, u)
    BY <1>1, <1>2
  <2> QED
    BY <2>1
<1>3. ASSUME NEW u \in SUBSET s, u # s, NEW w \in SUBSET u
      PROVE  F(u)[w] = V(w)
  <2>1. IsFold(F(u), f, u)
    BY <1>2, <1>3
  <2>2. IsFold([x \in SUBSET w |-> F(u)[x]], f, w)
    BY <2>1, FoldRestricts
  <2>3. IsFold(F(w), f, w)
    BY <1>2, <1>3
  <2>4. IsFiniteSet(w)
    BY FS_Subset
  <2> DEFINE k == [x \in SUBSET w |-> F(u)[x]]
  <2>5. k = F(w)
    <3> HIDE DEF F, k
    <3>1. IsFold(k, f, w)
      BY <2>2 DEF k
    <3> QED
      BY <2>3, <2>4, <3>1, FoldUnique
  <2>6. k[w] = F(u)[w]
    OBVIOUS
  <2> QED
    BY <2>5, <2>6
<1>4. ASSUME NEW u \in SUBSET s, u # s
      PROVE  h[u] = V(u)
  <2>1. F(u)[u] = IF u = {} THEN 0 ELSE f[OneOf(u)] + F(u)[u \ {OneOf(u)}]
    <3>1. IsFold(F(u), f, u)
      BY <1>2, <1>4
    <3> HIDE DEF F
    <3> QED
      BY <3>1 DEF IsFold
  <2>2. F(u)[u \ {OneOf(u)}] = V(u \ {OneOf(u)})
    BY <1>3, <1>4
  <2> HIDE DEF F
  <2> QED
    BY <2>1, <2>2
<1>5. ASSUME NEW u \in SUBSET s
      PROVE  h[u] = IF u = {} THEN 0 ELSE f[OneOf(u)] + h[u \ {OneOf(u)}]
  <2>1. CASE u = {}
    BY <2>1
  <2>2. CASE u # {}
    <3>1. u \ {OneOf(u)} \in SUBSET s /\ u \ {OneOf(u)} # s
      BY <2>2, SmallerBy
    <3>2. h[u \ {OneOf(u)}] = V(u \ {OneOf(u)})
      BY <1>4, <3>1
    <3> HIDE DEF V
    <3> QED
      BY <2>2, <3>2
  <2> QED
    BY <2>1, <2>2
<1>6. IsFold(h, f, s)
  <2>1. h = [u \in SUBSET s |-> h[u]]
    OBVIOUS
  <2> HIDE DEF h
  <2> QED
    BY <1>5, <2>1 DEF IsFold
<1> QED
  BY <1>1, <1>6

(* The sum is the value the recursion gives to the whole set.               *)
LEMMA SumIsFold ==
    ASSUME NEW f, NEW S
    PROVE  SumOver(f, S) = (CHOOSE g : IsFold(g, f, S))[S]
BY DEF SumOver, FoldFunctionOnSet, MapThenFoldSet, IsFold, OneOf

(* Folding a function is summing it over its domain.                        *)
LEMMA FunSum ==
    ASSUME NEW f
    PROVE  FoldFunction(+, 0, f) = SumOver(f, DOMAIN f)
BY DEF FoldFunction, SumOver

(* The recursion, for sums.                                                 *)
LEMMA SumStep ==
    ASSUME NEW S, IsFiniteSet(S), NEW f
    PROVE  SumOver(f, S) =
             IF S = {} THEN 0 ELSE f[OneOf(S)] + SumOver(f, S \ {OneOf(S)})
<1> DEFINE F(u) == CHOOSE g : IsFold(g, f, u)
           T == S \ {OneOf(S)}
<1>1. IsFold(F(S), f, S)
  BY FoldExists
<1>2. IsFold(F(T), f, T)
  <2>1. IsFiniteSet(T)
    BY FS_Subset
  <2> QED
    BY <2>1, FoldExists
<1>3. IsFold([x \in SUBSET T |-> F(S)[x]], f, T)
  BY <1>1, FoldRestricts
<1> DEFINE k == [x \in SUBSET T |-> F(S)[x]]
<1>4. k = F(T)
  <2>1. IsFiniteSet(T)
    BY FS_Subset
  <2>2. IsFold(k, f, T)
    BY <1>3
  <2> HIDE DEF F, k, T
  <2> QED
    BY <1>2, <2>1, <2>2, FoldUnique
<1>5. k[T] = F(S)[T]
  OBVIOUS
<1>6. F(S)[S] = IF S = {} THEN 0 ELSE f[OneOf(S)] + F(S)[T]
  <2> HIDE DEF F
  <2> QED
    BY <1>1 DEF IsFold
<1>7. SumOver(f, S) = F(S)[S] /\ SumOver(f, T) = F(T)[T]
  BY SumIsFold
<1> HIDE DEF F, k, T
<1>8. SumOver(f, S) = IF S = {} THEN 0 ELSE f[OneOf(S)] + SumOver(f, T)
  BY <1>4, <1>5, <1>6, <1>7
<1> QED
  BY <1>8 DEF T

(* The empty sum is zero.                                                   *)
LEMMA SumEmpty ==
    ASSUME NEW f
    PROVE  SumOver(f, {}) = 0
BY SumStep, FS_EmptySet

(* A sum looks at nothing but the values on its set.                        *)
LEMMA SumSame ==
    ASSUME NEW S, IsFiniteSet(S), NEW f, NEW g, \A x \in S : f[x] = g[x]
    PROVE  SumOver(f, S) = SumOver(g, S)
<1> DEFINE Bad == {s \in SUBSET S : SumOver(f, s) # SumOver(g, s)}
<1> SUFFICES ASSUME Bad # {} PROVE FALSE
  OBVIOUS
<1>1. PICK s \in Bad : \A u \in Bad : u \subseteq s => u = s
  <2>1. Bad \in SUBSET (SUBSET S)
    OBVIOUS
  <2> HIDE DEF Bad
  <2> QED
    BY <2>1, MinimalSubset
<1>2. s # {}
  BY <1>1, SumEmpty
<1>3. OneOf(s) \in s
  BY <1>2, SmallerBy
<1> DEFINE u == s \ {OneOf(s)}
<1>4. u \subseteq s /\ u # s /\ u \in SUBSET S
  BY <1>1, <1>3
<1>5. SumOver(f, u) = SumOver(g, u)
  BY <1>1, <1>4
<1>6. IsFiniteSet(s)
  BY <1>1, FS_Subset
<1>7. SumOver(f, s) = f[OneOf(s)] + SumOver(f, u) /\ SumOver(g, s) = g[OneOf(s)] + SumOver(g, u)
  BY <1>2, <1>6, SumStep
<1> HIDE DEF u
<1> QED
  BY <1>1, <1>3, <1>5, <1>7

(* A sum of integers is an integer.                                         *)
LEMMA SumType ==
    ASSUME NEW S, IsFiniteSet(S), NEW f, \A x \in S : f[x] \in Int
    PROVE  SumOver(f, S) \in Int
<1> DEFINE Bad == {s \in SUBSET S : SumOver(f, s) \notin Int}
<1> SUFFICES ASSUME Bad # {} PROVE FALSE
  OBVIOUS
<1>1. PICK s \in Bad : \A u \in Bad : u \subseteq s => u = s
  <2>1. Bad \in SUBSET (SUBSET S)
    OBVIOUS
  <2> HIDE DEF Bad
  <2> QED
    BY <2>1, MinimalSubset
<1>2. s # {}
  <2>1. SumOver(f, {}) \in Int
    BY SumEmpty
  <2> QED
    BY <1>1, <2>1
<1>3. OneOf(s) \in s
  BY <1>2, SmallerBy
<1> DEFINE u == s \ {OneOf(s)}
<1>4. u \subseteq s /\ u # s /\ u \in SUBSET S
  BY <1>1, <1>3
<1>5. SumOver(f, u) \in Int
  BY <1>1, <1>4
<1>6. IsFiniteSet(s)
  BY <1>1, FS_Subset
<1>7. SumOver(f, s) = f[OneOf(s)] + SumOver(f, u)
  BY <1>2, <1>6, SumStep
<1> HIDE DEF u
<1> QED
  BY <1>1, <1>3, <1>5, <1>7

(* Any element may be taken out first.                                      *)
LEMMA SumWithout ==
    ASSUME NEW S, IsFiniteSet(S), NEW f, \A x \in S : f[x] \in Int, NEW a \in S
    PROVE  SumOver(f, S) = f[a] + SumOver(f, S \ {a})
<1> DEFINE Bad == {s \in SUBSET S : \E x \in s : SumOver(f, s) # f[x] + SumOver(f, s \ {x})}
<1> SUFFICES ASSUME Bad # {} PROVE FALSE
  OBVIOUS
<1>1. PICK s \in Bad : \A u \in Bad : u \subseteq s => u = s
  <2>1. Bad \in SUBSET (SUBSET S)
    OBVIOUS
  <2> HIDE DEF Bad
  <2> QED
    BY <2>1, MinimalSubset
<1>2. PICK c \in s : SumOver(f, s) # f[c] + SumOver(f, s \ {c})
  BY <1>1
<1> DEFINE b == OneOf(s)
           t == s \ {b, c}
<1>3. b \in s /\ s \in SUBSET S
  BY <1>1, <1>2, SmallerBy
<1>4. IsFiniteSet(s) /\ IsFiniteSet(t)
  BY <1>1, FS_Subset
<1>5. SumOver(f, s) = f[b] + SumOver(f, s \ {b})
  BY <1>2, <1>4, SumStep
<1>6. b # c
  BY <1>2, <1>5
<1>7. \A u \in SUBSET S : \A x \in u :
         u \subseteq s /\ u # s => SumOver(f, u) = f[x] + SumOver(f, u \ {x})
  BY <1>1
<1>8. SumOver(f, s \ {b}) = f[c] + SumOver(f, t)
  <2>1. (s \ {b}) \ {c} = t
    OBVIOUS
  <2>2. s \ {b} \in SUBSET S /\ c \in s \ {b} /\ s \ {b} # s
    BY <1>2, <1>3, <1>6
  <2> HIDE DEF b, t
  <2> QED
    BY <1>7, <2>1, <2>2
<1>9. SumOver(f, s \ {c}) = f[b] + SumOver(f, t)
  <2>1. (s \ {c}) \ {b} = t
    OBVIOUS
  <2>2. s \ {c} \in SUBSET S /\ b \in s \ {c} /\ s \ {c} # s
    BY <1>2, <1>3, <1>6
  <2> HIDE DEF b, t
  <2> QED
    BY <1>7, <2>1, <2>2
<1>10. f[b] \in Int /\ f[c] \in Int /\ SumOver(f, t) \in Int
  <2>1. \A x \in t : f[x] \in Int
    BY <1>3
  <2> QED
    BY <1>2, <1>3, <1>4, <2>1, SumType
<1> HIDE DEF b, t
<1> QED
  BY <1>2, <1>5, <1>8, <1>9, <1>10

(* A new element adds its value.                                            *)
LEMMA SumWith ==
    ASSUME NEW S, IsFiniteSet(S), NEW a, a \notin S,
           NEW f, \A x \in S \cup {a} : f[x] \in Int
    PROVE  SumOver(f, S \cup {a}) = f[a] + SumOver(f, S)
<1> DEFINE T == S \cup {a}
<1>1. IsFiniteSet(T) /\ a \in T /\ T \ {a} = S
  BY FS_AddElement
<1>2. \A x \in T : f[x] \in Int
  OBVIOUS
<1> HIDE DEF T
<1>3. SumOver(f, T) = f[a] + SumOver(f, T \ {a})
  BY <1>1, <1>2, SumWithout
<1> QED
  BY <1>1, <1>3 DEF T

(* A set of sets that has the empty one and is closed under adding an       *)
(* element of S has S: induction over a finite set.                         *)
LEMMA FiniteInduction ==
    ASSUME NEW S, IsFiniteSet(S), NEW Good, {} \in Good,
           \A T \in SUBSET S : T \in Good => \A x \in S \ T : T \cup {x} \in Good
    PROVE  S \in Good
<1> DEFINE Bad == (SUBSET S) \ Good
<1> SUFFICES ASSUME S \notin Good PROVE FALSE
  OBVIOUS
<1>1. PICK s \in Bad : \A u \in Bad : u \subseteq s => u = s
  <2>1. Bad \in SUBSET (SUBSET S) /\ Bad # {}
    OBVIOUS
  <2> HIDE DEF Bad
  <2> QED
    BY <2>1, MinimalSubset
<1>2. PICK x \in s : TRUE
  BY <1>1
<1> DEFINE u == s \ {x}
<1>3. u \in SUBSET S /\ u \in Good /\ x \in S \ u /\ s = u \cup {x}
  BY <1>1, <1>2
<1> QED
  BY <1>1, <1>3

(* Sums of sums, term by term.                                              *)
LEMMA SumPlus ==
    ASSUME NEW S, IsFiniteSet(S), NEW f, NEW g, NEW h,
           \A x \in S : f[x] \in Int /\ g[x] \in Int /\ h[x] = f[x] + g[x]
    PROVE  SumOver(h, S) = SumOver(f, S) + SumOver(g, S)
<1> DEFINE Good == {T \in SUBSET S : SumOver(h, T) = SumOver(f, T) + SumOver(g, T)}
<1>1. {} \in Good
  <2>1. SumOver(f, {}) = 0 /\ SumOver(g, {}) = 0 /\ SumOver(h, {}) = 0
    BY SumEmpty
  <2> QED
    BY <2>1
<1>2. ASSUME NEW T \in SUBSET S, T \in Good, NEW a \in S \ T
      PROVE  T \cup {a} \in Good
  <2>1. IsFiniteSet(T)
    BY FS_Subset
  <2>2. /\ SumOver(f, T \cup {a}) = f[a] + SumOver(f, T)
        /\ SumOver(g, T \cup {a}) = g[a] + SumOver(g, T)
        /\ SumOver(h, T \cup {a}) = h[a] + SumOver(h, T)
    <3>1. \A x \in T \cup {a} : f[x] \in Int /\ g[x] \in Int /\ h[x] \in Int
      OBVIOUS
    <3> QED
      BY <2>1, <3>1, SumWith
  <2>3. SumOver(f, T) \in Int /\ SumOver(g, T) \in Int
    BY <2>1, SumType
  <2> QED
    BY <1>2, <2>2, <2>3
<1> HIDE DEF Good
<1>3. S \in Good
  BY <1>1, <1>2, FiniteInduction
<1> QED
  BY <1>3 DEF Good

(* Larger values have a larger sum.                                         *)
LEMMA SumMonotone ==
    ASSUME NEW S, IsFiniteSet(S), NEW f, NEW g,
           \A x \in S : f[x] \in Int /\ g[x] \in Int /\ f[x] <= g[x]
    PROVE  SumOver(f, S) <= SumOver(g, S)
<1> DEFINE Good == {T \in SUBSET S : SumOver(f, T) <= SumOver(g, T)}
<1>1. {} \in Good
  <2>1. SumOver(f, {}) = 0 /\ SumOver(g, {}) = 0
    BY SumEmpty
  <2> QED
    BY <2>1
<1>2. ASSUME NEW T \in SUBSET S, T \in Good, NEW a \in S \ T
      PROVE  T \cup {a} \in Good
  <2>1. IsFiniteSet(T)
    BY FS_Subset
  <2>2. /\ SumOver(f, T \cup {a}) = f[a] + SumOver(f, T)
        /\ SumOver(g, T \cup {a}) = g[a] + SumOver(g, T)
    BY <2>1, SumWith
  <2>3. SumOver(f, T) \in Int /\ SumOver(g, T) \in Int
    BY <2>1, SumType
  <2> QED
    BY <1>2, <2>2, <2>3
<1> HIDE DEF Good
<1>3. S \in Good
  BY <1>1, <1>2, FiniteInduction
<1> QED
  BY <1>3 DEF Good

(* A sum of zeros is zero.                                                  *)
LEMMA SumZero ==
    ASSUME NEW S, IsFiniteSet(S), NEW f, \A x \in S : f[x] = 0
    PROVE  SumOver(f, S) = 0
<1> DEFINE Good == {T \in SUBSET S : SumOver(f, T) = 0}
<1>1. {} \in Good
  BY SumEmpty
<1>2. ASSUME NEW T \in SUBSET S, T \in Good, NEW a \in S \ T
      PROVE  T \cup {a} \in Good
  <2>1. IsFiniteSet(T)
    BY FS_Subset
  <2>2. SumOver(f, T \cup {a}) = f[a] + SumOver(f, T)
    <3>1. \A x \in T \cup {a} : f[x] \in Int
      OBVIOUS
    <3> QED
      BY <2>1, <3>1, SumWith
  <2> QED
    BY <1>2, <2>2
<1> HIDE DEF Good
<1>3. S \in Good
  BY <1>1, <1>2, FiniteInduction
<1> QED
  BY <1>3 DEF Good

(* A sum of natural numbers is one.                                         *)
LEMMA SumNat ==
    ASSUME NEW S, IsFiniteSet(S), NEW f, \A x \in S : f[x] \in Nat
    PROVE  SumOver(f, S) \in Nat
<1> DEFINE zero == [x \in S |-> 0]
<1>1. SumOver(zero, S) = 0
  BY SumZero
<1>2. SumOver(zero, S) <= SumOver(f, S)
  <2>1. \A x \in S : zero[x] \in Int /\ f[x] \in Int /\ zero[x] <= f[x]
    OBVIOUS
  <2> HIDE DEF zero
  <2> QED
    BY <2>1, SumMonotone
<1>3. SumOver(f, S) \in Int
  BY SumType
<1> HIDE DEF zero
<1> QED
  BY <1>1, <1>2, <1>3

(* Disjoint sets are summed apart.                                          *)
LEMMA SumUnion ==
    ASSUME NEW S, IsFiniteSet(S), NEW R, IsFiniteSet(R), R \cap S = {},
           NEW f, \A x \in R \cup S : f[x] \in Int
    PROVE  SumOver(f, R \cup S) = SumOver(f, R) + SumOver(f, S)
<1> DEFINE Good == {T \in SUBSET S : SumOver(f, R \cup T) = SumOver(f, R) + SumOver(f, T)}
<1>0. SumOver(f, R) \in Int
  BY SumType
<1>1. {} \in Good
  <2>1. SumOver(f, {}) = 0 /\ R \cup {} = R
    BY SumEmpty
  <2> QED
    BY <1>0, <2>1
<1>2. ASSUME NEW T \in SUBSET S, T \in Good, NEW a \in S \ T
      PROVE  T \cup {a} \in Good
  <2>1. IsFiniteSet(T)
    BY FS_Subset
  <2>2. IsFiniteSet(R \cup T)
    BY <2>1, FS_Union
  <2>3. SumOver(f, T \cup {a}) = f[a] + SumOver(f, T)
    BY <2>1, SumWith
  <2> DEFINE V == R \cup T
  <2>4. V \cup {a} = R \cup (T \cup {a}) /\ a \notin V /\ \A x \in V \cup {a} : f[x] \in Int
    OBVIOUS
  <2>5. SumOver(f, V \cup {a}) = f[a] + SumOver(f, V)
    <3> HIDE DEF V
    <3>1. IsFiniteSet(V)
      BY <2>2 DEF V
    <3> QED
      BY <3>1, <2>4, SumWith
  <2>6. SumOver(f, T) \in Int /\ SumOver(f, V) = SumOver(f, R) + SumOver(f, T)
    BY <1>2, <2>1, SumType
  <2>7. f[a] \in Int
    OBVIOUS
  <2> HIDE DEF V
  <2>8. SumOver(f, R \cup (T \cup {a})) = SumOver(f, R) + SumOver(f, T \cup {a})
    <3>1. SumOver(f, R \cup (T \cup {a})) = f[a] + SumOver(f, V)
      BY <2>4, <2>5, Zenon
    <3> QED
      BY <1>0, <2>3, <2>6, <2>7, <3>1
  <2> QED
    BY <2>8
<1> HIDE DEF Good
<1>3. S \in Good
  BY <1>1, <1>2, FiniteInduction
<1> QED
  BY <1>3 DEF Good

(* A part sums up to no more than the whole, if no value is negative.       *)
LEMMA SumOfPart ==
    ASSUME NEW S, IsFiniteSet(S), NEW T \in SUBSET S, NEW f, \A x \in S : f[x] \in Nat
    PROVE  SumOver(f, T) <= SumOver(f, S) /\ SumOver(f, T) \in Nat
<1> DEFINE U == S \ T
<1>1. IsFiniteSet(T) /\ IsFiniteSet(U) /\ T \cap U = {} /\ T \cup U = S
  BY FS_Subset
<1>2. SumOver(f, T) \in Nat /\ SumOver(f, U) \in Nat
  BY <1>1, SumNat
<1> HIDE DEF U
<1>3. \A x \in T \cup U : f[x] \in Int
  BY <1>1
<1>4. SumOver(f, T \cup U) = SumOver(f, T) + SumOver(f, U)
  BY <1>1, <1>3, SumUnion
<1>5. SumOver(f, S) = SumOver(f, T) + SumOver(f, U)
  BY <1>1, <1>4
<1> QED
  BY <1>2, <1>5, SMT

(* One element sums up to its value.                                        *)
LEMMA SumOfOne ==
    ASSUME NEW f, NEW a, f[a] \in Int
    PROVE  SumOver(f, {a}) = f[a]
<1>1. SumOver(f, {} \cup {a}) = f[a] + SumOver(f, {})
  <2>1. \A x \in {} \cup {a} : f[x] \in Int
    OBVIOUS
  <2> QED
    BY <2>1, SumWith, FS_EmptySet
<1>2. {} \cup {a} = {a}
  OBVIOUS
<1> QED
  BY <1>1, <1>2, SumEmpty

(* One term of a sum is replaced.                                           *)
LEMMA SumUpdate ==
    ASSUME NEW S, IsFiniteSet(S), NEW a \in S, NEW f, NEW g,
           \A x \in S : f[x] \in Int /\ g[x] \in Int,
           \A x \in S \ {a} : g[x] = f[x]
    PROVE  SumOver(g, S) = SumOver(f, S) - f[a] + g[a]
<1> DEFINE U == S \ {a}
<1>1. IsFiniteSet(U) /\ \A x \in U : f[x] \in Int /\ g[x] = f[x]
  BY FS_Subset
<1>2. SumOver(f, S) = f[a] + SumOver(f, U) /\ SumOver(g, S) = g[a] + SumOver(g, U)
  BY SumWithout
<1>3. SumOver(f, U) \in Int /\ SumOver(f, U) = SumOver(g, U)
  <2> HIDE DEF U
  <2> QED
    BY <1>1, SumType, SumSame
<1> HIDE DEF U
<1> QED
  BY <1>2, <1>3

(* The same, with what is changed where as one predicate.                   *)
DiffersAt(S, a, f, g) ==
    /\ IsFiniteSet(S) /\ a \in S
    /\ \A x \in S : f[x] \in Int /\ g[x] \in Int
    /\ \A x \in S \ {a} : g[x] = f[x]

LEMMA SumDiffers ==
    ASSUME NEW S, NEW a, NEW f, NEW g, DiffersAt(S, a, f, g)
    PROVE  SumOver(g, S) = SumOver(f, S) - f[a] + g[a]
<1>1. /\ IsFiniteSet(S) /\ a \in S
      /\ \A x \in S : f[x] \in Int /\ g[x] \in Int
      /\ \A x \in S \ {a} : g[x] = f[x]
  BY DEF DiffersAt
<1> QED
  BY <1>1, SumUpdate

(* A set of numbers up to n has a least one.                                *)
LEMMA SmallestNumber ==
    ASSUME NEW n \in Nat, NEW K \in SUBSET (0 .. n), K # {}
    PROVE  \E k \in K : \A j \in K : k <= j
<1> DEFINE Bad == {1 .. j : j \in K}
<1>1. PICK s \in Bad : \A u \in Bad : u \subseteq s => u = s
  <2> DEFINE S == 1 .. n
  <2>1. IsFiniteSet(S)
    BY FS_Interval
  <2>2. Bad \in SUBSET (SUBSET S)
    OBVIOUS
  <2>3. Bad # {}
    OBVIOUS
  <2> HIDE DEF Bad, S
  <2> QED
    BY <2>1, <2>2, <2>3, MinimalSubset
<1>2. PICK k \in K : s = 1 .. k
  OBVIOUS
<1>3. ASSUME NEW j \in K, j < k PROVE FALSE
  <2>1. 1 .. j \in Bad /\ 1 .. j \subseteq 1 .. k /\ k \in 1 .. k /\ k \notin 1 .. j
    BY <1>3
  <2> QED
    BY <1>1, <1>2, <2>1
<1> QED
  BY <1>3

(* The numbers up to j are those before j, and j.                           *)
LEMMA OneMore ==
    ASSUME NEW j \in Nat, j > 0
    PROVE  /\ IsFiniteSet(1 .. j - 1) /\ j \notin 1 .. j - 1
           /\ (1 .. j - 1) \cup {j} = 1 .. j
<1>1. IsFiniteSet(1 .. j - 1)
  BY FS_Interval
<1>2. (1 .. j - 1) \cup {j} = 1 .. j
  OBVIOUS
<1> QED
  BY <1>1, <1>2

(* Summing over a part is summing over the whole with zeros elsewhere.      *)
LEMMA SumOverPart ==
    ASSUME NEW S, IsFiniteSet(S), NEW T \in SUBSET S, NEW h, NEW g,
           \A x \in T : h[x] = g[x] /\ g[x] \in Int,
           \A x \in S \ T : g[x] = 0
    PROVE  SumOver(h, T) = SumOver(g, S)
<1>1. IsFiniteSet(T) /\ IsFiniteSet(S \ T) /\ T \cap (S \ T) = {} /\ T \cup (S \ T) = S
  BY FS_Subset
<1>2. SumOver(h, T) = SumOver(g, T) /\ SumOver(g, T) \in Int
  BY <1>1, SumSame, SumType
<1>3. SumOver(g, S \ T) = 0
  BY <1>1, SumZero
<1>4. \A x \in T \cup (S \ T) : g[x] \in Int
  BY <1>1
<1>5. SumOver(g, T \cup (S \ T)) = SumOver(g, T) + SumOver(g, S \ T)
  BY <1>1, <1>4, SumUnion
<1>6. SumOver(g, T \cup (S \ T)) = SumOver(g, S)
  BY <1>1, Zenon
<1> QED
  BY <1>2, <1>3, <1>5, <1>6

=============================================================================
