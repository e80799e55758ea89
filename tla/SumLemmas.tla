----------------------------- MODULE SumLemmas -----------------------------
(***************************************************************************)
(* What the components' proofs need of sums and of repeated steps.         *)
(*                                                                         *)
(* SumFunctionOnSet() folds a function over a finite set in an order that  *)
(* nobody knows.  Its laws are proved from a smallest set without them:    *)
(* that set is not empty, and the law holds for the set less one element.  *)
(* The same argument about numbers gives the state that a sequence of      *)
(* steps leads to.                                                         *)
(***************************************************************************)
EXTENDS Integers, FiniteSets, Functions, FiniteSetTheorems,
        WellFoundedInduction, TLAPS

\* Of the subsets of a finite set with some property, one is smallest; so it is
\* with numbers.
LEMMA SmallestSet ==
  ASSUME NEW S, IsFiniteSet(S), NEW T \in SUBSET SUBSET S, T # {}
  PROVE  \E U \in T : \A V \in T : V \subseteq U => V = U
<1>1. T \subseteq FiniteSubsetsOf(S)
  BY FS_Subset DEF FiniteSubsetsOf
<1>2. IsWellFoundedOn(StrictSubsetOrdering(S), FiniteSubsetsOf(S))
  BY FS_StrictSubsetOrderingWellFounded
<1>3. PICK U \in T : \A V \in T : ~ (<<V, U>> \in StrictSubsetOrdering(S))
  BY <1>1, <1>2, WFMin
<1> QED BY <1>3 DEF StrictSubsetOrdering

LEMMA SmallestNumber ==
  ASSUME NEW T \in SUBSET Nat, T # {}
  PROVE  \E n \in T : \A m \in T : n <= m
<1>1. PICK top \in T : TRUE
  OBVIOUS
<1> DEFINE UpTo(n) == 0 .. n
           B == {UpTo(n) : n \in {m \in T : m <= top}}
<1>2. B \in SUBSET SUBSET UpTo(top) /\ B # {}
  BY <1>1
<1>3. IsFiniteSet(UpTo(top))
  BY FS_Interval
<1> HIDE DEF B, UpTo
<1>4. PICK U \in B : \A V \in B : V \subseteq U => V = U
  BY <1>2, <1>3, SmallestSet
<1>5. PICK n \in T : n <= top /\ U = UpTo(n)
  BY DEF B
<1> USE DEF UpTo
<1>6. ASSUME NEW m \in T, m < n PROVE FALSE
  <2>1. UpTo(m) \in B /\ UpTo(m) \subseteq UpTo(n)
    BY <1>5, <1>6 DEF B
  <2>2. n \in UpTo(n) /\ n \notin UpTo(m)
    BY <1>6
  <2> QED BY <1>4, <1>5, <2>1, <2>2
<1> QED BY <1>6

-----------------------------------------------------------------------------
(* Sums.                                                                   *)

\* The element that is added last.
Picked(s) == CHOOSE x \in s : TRUE

LEMMA PickedIn == ASSUME NEW s, s # {} PROVE Picked(s) \in s
  BY DEF Picked

\* What SumFunctionOnSet() chooses.
Sums(f, U, F) ==
  F = [s \in SUBSET U |-> IF s = {} THEN 0 ELSE f[Picked(s)] + F[s \ {Picked(s)}]]

LEMMA SumIsChosen ==
  ASSUME NEW f, NEW S
  PROVE  SumFunctionOnSet(f, S) = (CHOOSE F : Sums(f, S, F))[S]
BY DEF SumFunctionOnSet, FoldFunctionOnSet, MapThenFoldSet, Sums, Picked

\* Over a set that both are about, two such functions agree.
LEMMA SumsAgree ==
  ASSUME NEW f, NEW g, NEW U, NEW V, NEW F, NEW G, Sums(f, U, F), Sums(g, V, G),
         NEW S, IsFiniteSet(S), S \subseteq U, S \subseteq V,
         \A x \in S : f[x] = g[x]
  PROVE  F[S] = G[S]
<1> DEFINE T == {s \in SUBSET S : F[s] # G[s]}
<1>1. SUFFICES ASSUME T # {} PROVE FALSE
  BY DEF T
<1>0. T \in SUBSET SUBSET S
  OBVIOUS
<1> HIDE DEF T
<1>2. PICK s \in T : \A t \in T : t \subseteq s => t = s
  BY <1>0, <1>1, SmallestSet
<1> USE DEF T
<1>3. s \in SUBSET U /\ s \in SUBSET V
  OBVIOUS
<1>4. s # {}
  BY <1>3 DEF Sums
<1>5. Picked(s) \in s
  BY <1>4, PickedIn
<1>6. /\ F[s] = f[Picked(s)] + F[s \ {Picked(s)}]
      /\ G[s] = g[Picked(s)] + G[s \ {Picked(s)}]
  BY <1>3, <1>4 DEF Sums
<1>7. F[s \ {Picked(s)}] = G[s \ {Picked(s)}]
  BY <1>2, <1>5
<1> QED BY <1>5, <1>6, <1>7

\* There is such a function, so that the one chosen is one.
LEMMA SumsExist ==
  ASSUME NEW f, NEW S, IsFiniteSet(S)
  PROVE  \E F : Sums(f, S, F)
<1> DEFINE T == {U \in SUBSET S : ~ \E F : Sums(f, U, F)}
<1>1. SUFFICES ASSUME T # {} PROVE FALSE
  BY DEF T
<1>0. T \in SUBSET SUBSET S
  OBVIOUS
<1> HIDE DEF T
<1>2. PICK U \in T : \A V \in T : V \subseteq U => V = U
  BY <1>0, <1>1, SmallestSet
<1> USE DEF T
<1> DEFINE Of(V) == CHOOSE F : Sums(f, V, F)
           Rest(s) == s \ {Picked(s)}
           G == [s \in SUBSET U |-> IF s = {} THEN 0
                                    ELSE f[Picked(s)] + Of(Rest(s))[Rest(s)]]
<1>3. ASSUME NEW V \in SUBSET U, V # U PROVE Sums(f, V, Of(V))
  BY <1>2, <1>3
<1>4. ASSUME NEW s \in SUBSET U, s # {} PROVE Rest(s) \in SUBSET U /\ Rest(s) # U
  BY <1>4, PickedIn
<1>5. ASSUME NEW s \in SUBSET U, s # U PROVE G[s] = Of(s)[s]
  <2>1. Sums(f, s, Of(s))
    BY <1>3, <1>5
  <2>2. CASE s = {}
    BY <2>1, <2>2 DEF Sums
  <2>3. CASE s # {}
    <3>1. Of(s)[s] = f[Picked(s)] + Of(s)[Rest(s)]
      BY <2>1, <2>3 DEF Sums
    <3>2. Sums(f, Rest(s), Of(Rest(s)))
      BY <1>3, <1>4, <2>3
    <3>3. IsFiniteSet(Rest(s))
      BY FS_Subset
    <3>4. Of(s)[Rest(s)] = Of(Rest(s))[Rest(s)]
      BY <2>1, <3>2, <3>3, SumsAgree
    <3> QED BY <2>3, <3>1, <3>4
  <2> QED BY <2>2, <2>3
<1>6. ASSUME NEW s \in SUBSET U, s # {} PROVE G[s] = f[Picked(s)] + G[Rest(s)]
  <2>1. G[s] = f[Picked(s)] + Of(Rest(s))[Rest(s)]
    BY <1>6
  <2> QED BY <1>4, <1>5, <1>6, <2>1
<1>7. G = [s \in SUBSET U |-> IF s = {} THEN 0 ELSE f[Picked(s)] + G[Rest(s)]]
  <2>1. G[{}] = 0
    OBVIOUS
  <2>2. G = [s \in SUBSET U |-> G[s]]
    OBVIOUS
  <2> HIDE DEF G, Rest
  <2> QED BY <1>6, <2>1, <2>2
<1>8. Sums(f, U, G)
  BY <1>7 DEF Sums
<1> QED BY <1>8

\* The definition of a sum as a recursion.
LEMMA SumUnfolds ==
  ASSUME NEW f, NEW S, IsFiniteSet(S)
  PROVE  SumFunctionOnSet(f, S) =
           IF S = {} THEN 0
           ELSE f[Picked(S)] + SumFunctionOnSet(f, S \ {Picked(S)})
<1> DEFINE R == S \ {Picked(S)}
           F == CHOOSE H : Sums(f, S, H)
           G == CHOOSE H : Sums(f, R, H)
<1>1. IsFiniteSet(R)
  BY FS_Subset
<1>2. Sums(f, S, F) /\ Sums(f, R, G)
  BY <1>1, SumsExist
<1>3. F[R] = G[R]
  BY <1>1, <1>2, SumsAgree
<1>4. F[S] = IF S = {} THEN 0 ELSE f[Picked(S)] + F[R]
  BY <1>2 DEF Sums
<1> QED BY <1>3, <1>4, SumIsChosen

LEMMA SumEmpty == ASSUME NEW f PROVE SumFunctionOnSet(f, {}) = 0
  BY FS_EmptySet, SumUnfolds

\* Functions with the same values have the same sums.
LEMMA SumSame ==
  ASSUME NEW f, NEW g, NEW S, IsFiniteSet(S), \A x \in S : f[x] = g[x]
  PROVE  SumFunctionOnSet(f, S) = SumFunctionOnSet(g, S)
<1> DEFINE F == CHOOSE H : Sums(f, S, H)
           G == CHOOSE H : Sums(g, S, H)
<1>1. Sums(f, S, F) /\ Sums(g, S, G)
  BY SumsExist
<1> HIDE DEF F, G
<1>2. F[S] = G[S]
  BY <1>1, SumsAgree
<1> QED BY <1>2, SumIsChosen DEF F, G

\* The sum of integers is one, and so is that of natural numbers.
LEMMA SumInt ==
  ASSUME NEW f, NEW S, IsFiniteSet(S), \A x \in S : f[x] \in Int
  PROVE  SumFunctionOnSet(f, S) \in Int
<1> DEFINE T == {s \in SUBSET S : SumFunctionOnSet(f, s) \notin Int}
<1>1. SUFFICES ASSUME T # {} PROVE FALSE
  BY DEF T
<1>0. T \in SUBSET SUBSET S
  OBVIOUS
<1> HIDE DEF T
<1>2. PICK s \in T : \A t \in T : t \subseteq s => t = s
  BY <1>0, <1>1, SmallestSet
<1> USE DEF T
<1>3. IsFiniteSet(s)
  BY FS_Subset
<1>4. s # {}
  BY SumEmpty
<1>5. Picked(s) \in s
  BY <1>4, PickedIn
<1>6. SumFunctionOnSet(f, s \ {Picked(s)}) \in Int
  BY <1>2, <1>5
<1> QED BY <1>3, <1>4, <1>5, <1>6, SumUnfolds

LEMMA SumNat ==
  ASSUME NEW f, NEW S, IsFiniteSet(S), \A x \in S : f[x] \in Nat
  PROVE  SumFunctionOnSet(f, S) \in Nat
<1> DEFINE T == {s \in SUBSET S : SumFunctionOnSet(f, s) \notin Nat}
<1>1. SUFFICES ASSUME T # {} PROVE FALSE
  BY DEF T
<1>0. T \in SUBSET SUBSET S
  OBVIOUS
<1> HIDE DEF T
<1>2. PICK s \in T : \A t \in T : t \subseteq s => t = s
  BY <1>0, <1>1, SmallestSet
<1> USE DEF T
<1>3. IsFiniteSet(s)
  BY FS_Subset
<1>4. s # {}
  BY SumEmpty
<1>5. Picked(s) \in s
  BY <1>4, PickedIn
<1>6. SumFunctionOnSet(f, s \ {Picked(s)}) \in Nat
  BY <1>2, <1>5
<1> QED BY <1>3, <1>4, <1>5, <1>6, SumUnfolds

\* Any element may come first.
LEMMA SumTakes ==
  ASSUME NEW f, NEW S, IsFiniteSet(S), \A x \in S : f[x] \in Int, NEW x \in S
  PROVE  SumFunctionOnSet(f, S) = f[x] + SumFunctionOnSet(f, S \ {x})
<1> DEFINE Sum(s) == SumFunctionOnSet(f, s)
           T == {s \in SUBSET S : \E y \in s : Sum(s) # f[y] + Sum(s \ {y})}
<1>1. SUFFICES ASSUME T # {} PROVE FALSE
  BY DEF T
<1>0. T \in SUBSET SUBSET S
  OBVIOUS
<1> HIDE DEF T
<1>2. PICK s \in T : \A t \in T : t \subseteq s => t = s
  BY <1>0, <1>1, SmallestSet
<1> USE DEF T
<1>3. PICK y \in s : Sum(s) # f[y] + Sum(s \ {y})
  OBVIOUS
<1> DEFINE p == Picked(s)
<1>4. p \in s /\ IsFiniteSet(s)
  BY PickedIn, FS_Subset
<1>5. Sum(s) = f[p] + Sum(s \ {p})
  BY <1>4, SumUnfolds
<1> HIDE DEF p
<1>6. p # y
  BY <1>3, <1>5
<1>7. ASSUME NEW t \in SUBSET s, t # s, NEW z \in t
      PROVE  Sum(t) = f[z] + Sum(t \ {z})
  BY <1>2, <1>7
<1>8. Sum(s \ {p}) = f[y] + Sum((s \ {p}) \ {y})
  BY <1>4, <1>6, <1>7
<1>9. Sum(s \ {y}) = f[p] + Sum((s \ {y}) \ {p})
  BY <1>4, <1>6, <1>7
<1>10. (s \ {p}) \ {y} = (s \ {y}) \ {p}
  OBVIOUS
<1>11. f[p] \in Int /\ f[y] \in Int /\ Sum((s \ {p}) \ {y}) \in Int
  <2>1. IsFiniteSet((s \ {p}) \ {y})
    BY <1>4, FS_Subset
  <2> QED BY <1>4, <2>1, SumInt
<1> DEFINE both == Sum((s \ {p}) \ {y})
           last == Sum(s \ {p})
           rest == Sum(s \ {y})
           a == f[p]
           b == f[y]
           all == Sum(s)
<1>12. /\ all = a + last /\ last = b + both /\ rest = a + both /\ all # b + rest
       /\ a \in Int /\ b \in Int /\ both \in Int
  <2> HIDE DEF T, Sum
  <2> QED BY <1>3, <1>5, <1>8, <1>9, <1>10, <1>11
<1> HIDE DEF T, Sum, both, last, rest, a, b, all
<1> QED BY <1>12

\* The sums over a part of a set and over the rest.
LEMMA SumSplits ==
  ASSUME NEW f, NEW S, IsFiniteSet(S), \A x \in S : f[x] \in Int, NEW P \in SUBSET S
  PROVE  SumFunctionOnSet(f, S) = SumFunctionOnSet(f, P) + SumFunctionOnSet(f, S \ P)
<1> DEFINE Sum(s) == SumFunctionOnSet(f, s)
           T == {s \in SUBSET S : Sum(S) # Sum(s) + Sum(S \ s)}
<1>1. SUFFICES ASSUME T # {} PROVE FALSE
  BY DEF T
<1>0. T \in SUBSET SUBSET S
  OBVIOUS
<1> HIDE DEF T
<1>2. PICK s \in T : \A t \in T : t \subseteq s => t = s
  BY <1>0, <1>1, SmallestSet
<1> USE DEF T
<1>3. ASSUME NEW t \in SUBSET S PROVE Sum(t) \in Int
  BY <1>3, FS_Subset, SumInt
<1>11. Sum(S) # Sum(s) + Sum(S \ s)
  OBVIOUS
<1>4. s # {}
  <2>1. Sum({}) = 0 /\ S \ {} = S /\ Sum(S) \in Int
    BY <1>3, SumEmpty
  <2> HIDE DEF Sum, T
  <2> QED BY <1>11, <2>1
<1>5. PICK x \in s : TRUE
  BY <1>4
<1> DEFINE t == s \ {x}
<1>6. Sum(S) = Sum(t) + Sum(S \ t)
  BY <1>2, <1>5
<1>7. Sum(s) = f[x] + Sum(t)
  BY FS_Subset, SumTakes
<1>8. Sum(S \ t) = f[x] + Sum((S \ t) \ {x})
  <2>1. x \in S \ t /\ IsFiniteSet(S \ t) /\ \A y \in S \ t : f[y] \in Int
    BY FS_Subset
  <2> QED BY <2>1, SumTakes
<1>9. (S \ t) \ {x} = S \ s
  OBVIOUS
<1>10. f[x] \in Int /\ Sum(t) \in Int /\ Sum(S \ s) \in Int
  BY <1>3
<1>12. Sum(S \ t) = f[x] + Sum(S \ s)
  BY <1>8, <1>9
<1> HIDE DEF Sum, T, t
<1>13. Sum(S) = Sum(t) + (f[x] + Sum(S \ s))
  BY <1>6, <1>12
<1>14. Sum(S) = (f[x] + Sum(t)) + Sum(S \ s)
  BY <1>10, <1>13
<1> QED BY <1>7, <1>11, <1>14

\* Two sums of the same elements.
LEMMA SumAdds ==
  ASSUME NEW f, NEW g, NEW h, NEW S, IsFiniteSet(S),
         \A x \in S : f[x] \in Int /\ g[x] \in Int /\ h[x] = f[x] + g[x]
  PROVE  SumFunctionOnSet(h, S) = SumFunctionOnSet(f, S) + SumFunctionOnSet(g, S)
<1> DEFINE Good(s) == SumFunctionOnSet(h, s) = SumFunctionOnSet(f, s) + SumFunctionOnSet(g, s)
           T == {s \in SUBSET S : ~Good(s)}
<1>1. SUFFICES ASSUME T # {} PROVE FALSE
  BY DEF T
<1>0. T \in SUBSET SUBSET S
  OBVIOUS
<1> HIDE DEF T
<1>2. PICK s \in T : \A t \in T : t \subseteq s => t = s
  BY <1>0, <1>1, SmallestSet
<1> USE DEF T
<1>3. s # {}
  <2>1. Good({})
    BY SumEmpty
  <2> HIDE DEF Good
  <2> QED BY <2>1
<1>4. PICK x \in s : TRUE
  BY <1>3
<1> DEFINE t == s \ {x}
<1>5. Good(t)
  BY <1>2, <1>4
<1>6. IsFiniteSet(s) /\ IsFiniteSet(t)
  BY FS_Subset
<1>7. /\ SumFunctionOnSet(f, s) = f[x] + SumFunctionOnSet(f, t)
      /\ SumFunctionOnSet(g, s) = g[x] + SumFunctionOnSet(g, t)
      /\ SumFunctionOnSet(h, s) = h[x] + SumFunctionOnSet(h, t)
  <2>1. \A y \in s : f[y] \in Int /\ g[y] \in Int /\ h[y] \in Int
    OBVIOUS
  <2> QED BY <1>6, <2>1, SumTakes
<1>8. SumFunctionOnSet(f, t) \in Int /\ SumFunctionOnSet(g, t) \in Int
  BY <1>6, SumInt
<1>9. f[x] \in Int /\ g[x] \in Int /\ h[x] = f[x] + g[x]
  OBVIOUS
<1>10. ~Good(s)
  OBVIOUS
<1> QED BY <1>5, <1>7, <1>8, <1>9, <1>10

\* What is zero adds nothing.
LEMMA SumZero ==
  ASSUME NEW f, NEW S, IsFiniteSet(S), \A x \in S : f[x] = 0
  PROVE  SumFunctionOnSet(f, S) = 0
<1> DEFINE s == SumFunctionOnSet(f, S)
<1>1. s \in Int
  BY SumInt
<1>2. s = s + s
  BY SumAdds
<1> HIDE DEF s
<1>3. s = 0
  BY <1>1, <1>2
<1> QED BY <1>3 DEF s

LEMMA SumPads ==
  ASSUME NEW f, NEW S, IsFiniteSet(S), \A x \in S : f[x] \in Int,
         NEW P \in SUBSET S, \A x \in S \ P : f[x] = 0
  PROVE  SumFunctionOnSet(f, S) = SumFunctionOnSet(f, P)
<1>1. SumFunctionOnSet(f, S \ P) = 0
  BY FS_Subset, SumZero
<1>2. SumFunctionOnSet(f, P) \in Int
  BY FS_Subset, SumInt
<1> QED BY <1>1, <1>2, SumSplits

\* A larger set of numbers has a larger sum, strictly if one is added.
LEMMA SumGrows ==
  ASSUME NEW f, NEW S, IsFiniteSet(S), \A x \in S : f[x] \in Nat, NEW P \in SUBSET S
  PROVE  /\ SumFunctionOnSet(f, P) <= SumFunctionOnSet(f, S)
         /\ \A x \in S \ P : SumFunctionOnSet(f, P) + f[x] <= SumFunctionOnSet(f, S)
<1>1. SumFunctionOnSet(f, S \ P) \in Nat /\ SumFunctionOnSet(f, P) \in Nat
  BY FS_Subset, SumNat
<1>2. SumFunctionOnSet(f, S) = SumFunctionOnSet(f, P) + SumFunctionOnSet(f, S \ P)
  BY SumSplits
<1>3. ASSUME NEW x \in S \ P PROVE f[x] <= SumFunctionOnSet(f, S \ P)
  <2>1. IsFiniteSet(S \ P) /\ \A y \in S \ P : f[y] \in Int
    BY FS_Subset
  <2>2. SumFunctionOnSet(f, S \ P) = f[x] + SumFunctionOnSet(f, (S \ P) \ {x})
    BY <2>1, SumTakes
  <2>3. IsFiniteSet((S \ P) \ {x})
    BY <2>1, FS_Subset
  <2>4. SumFunctionOnSet(f, (S \ P) \ {x}) \in Nat
    BY <2>3, SumNat
  <2> QED BY <2>2, <2>4
<1>4. ASSUME NEW x \in S \ P
      PROVE  SumFunctionOnSet(f, P) + f[x] <= SumFunctionOnSet(f, S)
  <2>1. f[x] <= SumFunctionOnSet(f, S \ P) /\ f[x] \in Nat
    BY <1>3
  <2> QED BY <1>1, <1>2, <2>1
<1>5. SumFunctionOnSet(f, P) <= SumFunctionOnSet(f, S)
  BY <1>1, <1>2
<1> QED BY <1>4, <1>5

\* The sum of a sequence of numbers that gets one more.
LEMMA SumAppends ==
  ASSUME NEW f, NEW n \in Nat, \A i \in 1 .. n + 1 : f[i] \in Int
  PROVE  SumFunctionOnSet(f, 1 .. n + 1) = SumFunctionOnSet(f, 1 .. n) + f[n + 1]
<1>1. IsFiniteSet(1 .. n + 1) /\ n + 1 \in 1 .. n + 1
  BY FS_Interval
<1>2. (1 .. n + 1) \ {n + 1} = 1 .. n
  OBVIOUS
<1>3. IsFiniteSet(1 .. n)
  BY FS_Interval
<1>4. SumFunctionOnSet(f, 1 .. n) \in Int
  BY <1>3, SumInt
<1> QED BY <1>1, <1>2, <1>4, SumTakes

\* The sum of a function that changes in one place.
LEMMA SumChanges ==
  ASSUME NEW f, NEW g, NEW S, IsFiniteSet(S), NEW x \in S,
         \A y \in S : f[y] \in Int /\ g[y] \in Int,
         \A y \in S \ {x} : g[y] = f[y]
  PROVE  SumFunctionOnSet(g, S) = SumFunctionOnSet(f, S) - f[x] + g[x]
<1>1. IsFiniteSet(S \ {x})
  BY FS_Subset
<1>2. /\ SumFunctionOnSet(f, S) = f[x] + SumFunctionOnSet(f, S \ {x})
      /\ SumFunctionOnSet(g, S) = g[x] + SumFunctionOnSet(g, S \ {x})
  BY SumTakes
<1>3. SumFunctionOnSet(g, S \ {x}) = SumFunctionOnSet(f, S \ {x})
  BY <1>1, SumSame
<1>4. SumFunctionOnSet(f, S \ {x}) \in Int
  BY <1>1, SumInt
<1> QED BY <1>2, <1>3, <1>4

LEMMA OnceMore ==
  ASSUME NEW n \in Int, NEW m \in Int
  PROVE  n * m \in Int /\ 0 * m = 0 /\ (n + 1) * m = n * m + m
  OBVIOUS

\* A value that occurs once more than before.
LEMMA CountedOnceMore ==
  ASSUME NEW R, IsFiniteSet(R), NEW c, \A r \in R : c[r] \in Int, NEW v \in R,
         NEW m \in [R -> Int], NEW m2 \in [R -> Int],
         \A r \in R \ {v} : m2[r] = m[r], m2[v] = m[v] + 1,
         NEW f, NEW g, \A r \in R : f[r] = m[r] * c[r] /\ g[r] = m2[r] * c[r]
  PROVE  SumFunctionOnSet(g, R) = SumFunctionOnSet(f, R) + c[v]
<1>1. \A r \in R : f[r] \in Int /\ g[r] \in Int
  BY OnceMore
<1>2. \A r \in R \ {v} : g[r] = f[r]
  OBVIOUS
<1>3. g[v] = f[v] + c[v]
  <2>1. m[v] \in Int /\ c[v] \in Int /\ g[v] = (m[v] + 1) * c[v] /\ f[v] = m[v] * c[v]
    OBVIOUS
  <2>2. (m[v] + 1) * c[v] = m[v] * c[v] + c[v]
    BY <2>1, OnceMore
  <2> QED BY <2>1, <2>2
<1>4. SumFunctionOnSet(g, R) = SumFunctionOnSet(f, R) - f[v] + g[v]
  BY <1>1, <1>2, SumChanges
<1>5. SumFunctionOnSet(f, R) \in Int
  BY <1>1, SumInt
<1> QED BY <1>1, <1>3, <1>4, <1>5

LEMMA CountedByValue ==
  ASSUME NEW S, IsFiniteSet(S), NEW at, NEW c, NEW R, IsFiniteSet(R),
         \A i \in S : at[i] \in R, \A r \in R : c[r] \in Int
  PROVE  SumFunctionOnSet([i \in S |-> c[at[i]]], S) =
           SumFunctionOnSet([r \in R |-> Cardinality({i \in S : at[i] = r}) * c[r]], R)
<1> DEFINE Each(s) == SumFunctionOnSet([i \in s |-> c[at[i]]], s)
           Times(s, r) == Cardinality({i \in s : at[i] = r})
           Counted(s) == SumFunctionOnSet([r \in R |-> Times(s, r) * c[r]], R)
           T == {s \in SUBSET S : Each(s) # Counted(s)}
<1>1. SUFFICES ASSUME T # {} PROVE FALSE
  BY DEF T
<1>0. T \in SUBSET SUBSET S
  OBVIOUS
<1> HIDE DEF T
<1>2. PICK s \in T : \A t \in T : t \subseteq s => t = s
  BY <1>0, <1>1, SmallestSet
<1> USE DEF T
<1>3. s # {}
  <2>1. ASSUME s = {} PROVE Each(s) = 0
    BY <2>1, SumEmpty
  <2>2. ASSUME s = {} PROVE Counted(s) = 0
    <3>1. \A r \in R : Times(s, r) = 0
      BY <2>2, FS_EmptySet
    <3> HIDE DEF Times
    <3> DEFINE f == [r \in R |-> Times(s, r) * c[r]]
    <3>2. \A r \in R : f[r] = 0
      BY <3>1, OnceMore
    <3> HIDE DEF f
    <3>3. SumFunctionOnSet(f, R) = 0
      BY <3>2, SumZero
    <3> QED BY <3>3 DEF f
  <2> HIDE DEF Each, Counted
  <2> QED BY <2>1, <2>2
<1>4. PICK x \in s : TRUE
  BY <1>3
<1> DEFINE t == s \ {x}
           v == at[x]
<1>5. Each(t) = Counted(t)
  <2>1. t \notin T
    BY <1>2, <1>4
  <2> HIDE DEF Each, Counted
  <2> QED BY <2>1
<1>6. IsFiniteSet(s) /\ IsFiniteSet(t) /\ v \in R /\ c[v] \in Int
  BY FS_Subset
<1>7. Each(s) = c[v] + Each(t)
  <2> DEFINE f == [i \in s |-> c[at[i]]]
             g == [i \in t |-> c[at[i]]]
  <2>1. SumFunctionOnSet(f, s) = f[x] + SumFunctionOnSet(f, t)
    BY <1>6, SumTakes
  <2>2. SumFunctionOnSet(f, t) = SumFunctionOnSet(g, t)
    BY <1>6, SumSame
  <2> QED BY <2>1, <2>2
<1>8. ASSUME NEW r \in R
      PROVE  /\ Times(s, r) = IF r = v THEN Times(t, r) + 1 ELSE Times(t, r)
             /\ Times(t, r) \in Nat
  <2>1. IsFiniteSet({i \in t : at[i] = r})
    BY <1>6, FS_Subset
  <2>2. CASE r = v
    <3>1. {i \in s : at[i] = r} = {i \in t : at[i] = r} \cup {x}
      BY <2>2
    <3> QED BY <2>1, <2>2, <3>1, FS_AddElement, FS_CardinalityType
  <2>3. CASE r # v
    <3>1. {i \in s : at[i] = r} = {i \in t : at[i] = r}
      BY <2>3
    <3> QED BY <2>1, <2>3, <3>1, FS_CardinalityType
  <2> QED BY <2>2, <2>3
<1>9. Counted(s) = Counted(t) + c[v]
  <2> DEFINE m == [r \in R |-> Times(t, r)]
             m2 == [r \in R |-> Times(s, r)]
  <2>1. /\ m \in [R -> Int] /\ m2 \in [R -> Int]
        /\ \A r \in R \ {v} : m2[r] = m[r]
        /\ m2[v] = m[v] + 1
    <3> HIDE DEF Times, t, v
    <3> QED BY <1>6, <1>8
  <2> DEFINE f == [r \in R |-> Times(t, r) * c[r]]
             g == [r \in R |-> Times(s, r) * c[r]]
  <2>2. \A r \in R : f[r] = m[r] * c[r] /\ g[r] = m2[r] * c[r]
    OBVIOUS
  <2>4. v \in R /\ IsFiniteSet(R) /\ \A r \in R : c[r] \in Int
    BY <1>6
  <2> HIDE DEF m, m2, f, g, v, Times, Each, Counted, T, t
  <2>3. SumFunctionOnSet(g, R) = SumFunctionOnSet(f, R) + c[v]
    BY <2>1, <2>2, <2>4, CountedOnceMore
  <2> QED BY <2>3 DEF f, g, Counted
<1>10. Each(s) # Counted(s)
  OBVIOUS
<1>11. Each(t) \in Int
  <2>1. \A i \in t : [j \in t |-> c[at[j]]][i] \in Int
    OBVIOUS
  <2> QED BY <1>6, <2>1, SumInt
<1> HIDE DEF Each, Counted, t
<1> QED BY <1>5, <1>6, <1>7, <1>9, <1>10, <1>11

\* The sum over the places of values is the sum over the values, each counted as
\* often as it occurs.
LEMMA SumByValue ==
  ASSUME NEW S, IsFiniteSet(S), NEW at, NEW c, NEW R, IsFiniteSet(R),
         \A i \in S : at[i] \in R, \A r \in R : c[r] \in Int,
         NEW f, NEW g, \A i \in S : f[i] = c[at[i]],
         \A r \in R : g[r] = Cardinality({i \in S : at[i] = r}) * c[r]
  PROVE  SumFunctionOnSet(f, S) = SumFunctionOnSet(g, R)
<1> DEFINE f2 == [i \in S |-> c[at[i]]]
           g2 == [r \in R |-> Cardinality({i \in S : at[i] = r}) * c[r]]
<1>1. SumFunctionOnSet(f2, S) = SumFunctionOnSet(g2, R)
  BY CountedByValue
<1>2. (\A i \in S : f[i] = f2[i]) /\ (\A r \in R : g[r] = g2[r])
  OBVIOUS
<1> HIDE DEF f2, g2
<1> QED BY <1>1, <1>2, SumSame

-----------------------------------------------------------------------------
(* Steps.                                                                  *)

\* F is what step[1], step[2] and so on make of a, one after the other.
IsRun(F, step, n, X, a) ==
  /\ F \in [0 .. n -> X]
  /\ F[0] = a
  /\ \A i \in 1 .. n : F[i] = step[i][F[i - 1]]

\* Steps that lead from X to X can be taken one after the other.
LEMMA Iteration ==
  ASSUME NEW n \in Nat, NEW X, NEW a \in X, NEW step \in [1 .. n -> [X -> X]]
  PROVE  \E F : IsRun(F, step, n, X, a)
<1> DEFINE Runs(m, F) == IsRun(F, step, m, X, a)
           T == {m \in 0 .. n : ~ \E F : Runs(m, F)}
<1>1. SUFFICES ASSUME T # {} PROVE FALSE
  <2>1. n \in 0 .. n
    OBVIOUS
  <2>2. ASSUME T = {}, ~ \E F : Runs(n, F) PROVE FALSE
    <3>1. n \in T
      BY <2>1, <2>2
    <3> QED BY <2>2, <3>1
  <2> QED BY <2>2, Zenon
<1>0. T \in SUBSET Nat
  OBVIOUS
<1> HIDE DEF T
<1>2. PICK m \in T : \A l \in T : m <= l
  BY <1>0, <1>1, SmallestNumber
<1> USE DEF T
<1>3. m # 0
  <2>1. Runs(0, [i \in 0 .. 0 |-> a])
    BY DEF IsRun
  <2> QED BY <2>1
<1>4. m - 1 \in 0 .. n /\ m - 1 \notin T
  BY <1>2, <1>3
<1>5. PICK F : Runs(m - 1, F)
  BY <1>4
<1> DEFINE G == [i \in 0 .. m |-> IF i = m THEN step[m][F[m - 1]] ELSE F[i]]
<1>6. Runs(m, G)
  BY <1>3, <1>4, <1>5 DEF IsRun
<1> QED BY <1>6
=============================================================================
