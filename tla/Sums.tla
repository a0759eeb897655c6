--------------------------------- MODULE Sums ---------------------------------
(***************************************************************************)
(* What SumFunctionOnSet computes: the sum of a function over a finite     *)
(* set, whatever the order in which the fold takes the elements.           *)
(*                                                                         *)
(* There is no induction here, only sets of counterexamples: one that is   *)
(* not empty has a smallest member.                                        *)
(***************************************************************************)
EXTENDS Functions, FiniteSetsExt, FiniteSetTheorems, TLAPS

\* Of a non-empty set of finite sets, one has no other within it.
LEMMA Smallest ==
  ASSUME NEW S, NEW T, T \subseteq SUBSET S, IsFiniteSet(S), T # {}
  PROVE  \E s \in T : \A t \in T : t \subseteq s => t = s
<1>1. IsWellFoundedOn(StrictSubsetOrdering(S), FiniteSubsetsOf(S))
  BY FS_StrictSubsetOrderingWellFounded
<1>2. T \subseteq FiniteSubsetsOf(S)
  BY FS_Subset DEF FiniteSubsetsOf
<1>3. PICK s \in T : \A t \in T : <<t, s>> \notin StrictSubsetOrdering(S)
  BY <1>1, <1>2, WFMin
<1>4. ASSUME NEW t \in T, t \subseteq s PROVE t = s
  <2>1. t \in SUBSET S /\ s \in SUBSET S
    OBVIOUS
  <2>. QED BY <1>3, <1>4, <2>1 DEF StrictSubsetOrdering
<1>. QED BY <1>4

\* Taking away from a finite set for as long as it shrinks ends: so some member
\* has no other above it.
LEMMA MaxExists ==
  ASSUME NEW S, S \subseteq Int, IsFiniteSet(S), S # {}
  PROVE  Max(S) \in S /\ \A y \in S : y <= Max(S)
<1>. DEFINE Above(x) == {y \in S : x <= y}
            T == {Above(x) : x \in S}
<1>1. IsWellFoundedOn(StrictSubsetOrdering(S), FiniteSubsetsOf(S))
  BY FS_StrictSubsetOrderingWellFounded
<1>2. T \subseteq FiniteSubsetsOf(S)
  <2>. SUFFICES ASSUME NEW x \in S PROVE Above(x) \in FiniteSubsetsOf(S)
    OBVIOUS
  <2>1. Above(x) \in SUBSET S
    OBVIOUS
  <2>2. IsFiniteSet(Above(x))
    BY <2>1, FS_Subset
  <2>. QED BY <2>1, <2>2 DEF FiniteSubsetsOf
<1>3. T # {}
  OBVIOUS
<1>4. PICK U \in T : \A V \in T : <<V, U>> \notin StrictSubsetOrdering(S)
  <2>. HIDE DEF T
  <2>. QED BY <1>1, <1>2, <1>3, WFMin
<1>5. PICK x \in S : U = Above(x)
  OBVIOUS
<1>6. ASSUME NEW y \in S PROVE x >= y
  <2>. SUFFICES ASSUME y > x PROVE FALSE
    BY <1>6
  <2>1. x \in Int /\ y \in Int /\ \A z \in S : z \in Int
    BY <1>6
  <2>2. Above(y) \subseteq Above(x) /\ x \in Above(x) /\ x \notin Above(y)
    <3>1. x \in Above(x)
      BY <2>1
    <3>2. x \notin Above(y)
      BY <2>1
    <3>3. ASSUME NEW z \in Above(y) PROVE z \in Above(x)
      BY <2>1, <3>3
    <3>. QED BY <3>1, <3>2, <3>3
  <2>3. Above(x) \in SUBSET S /\ Above(y) \in SUBSET S /\ Above(y) \in T
    BY <1>6
  <2>4. <<Above(y), Above(x)>> \in StrictSubsetOrdering(S)
    <3>. HIDE DEF Above
    <3>. QED BY <2>2, <2>3 DEF StrictSubsetOrdering
  <2>. QED BY <1>4, <1>5, <2>3, <2>4
<1>7. Max(S) \in S /\ \A y \in S : Max(S) >= y
  BY <1>6 DEF Max
<1>. QED BY <1>7

LEMMA MinExists ==
  ASSUME NEW S, S \subseteq Int, IsFiniteSet(S), S # {}
  PROVE  Min(S) \in S /\ \A y \in S : Min(S) <= y
<1>. DEFINE Below(x) == {y \in S : y <= x}
            T == {Below(x) : x \in S}
<1>1. IsWellFoundedOn(StrictSubsetOrdering(S), FiniteSubsetsOf(S))
  BY FS_StrictSubsetOrderingWellFounded
<1>2. T \subseteq FiniteSubsetsOf(S)
  <2>. SUFFICES ASSUME NEW x \in S PROVE Below(x) \in FiniteSubsetsOf(S)
    OBVIOUS
  <2>1. Below(x) \in SUBSET S
    OBVIOUS
  <2>2. IsFiniteSet(Below(x))
    BY <2>1, FS_Subset
  <2>. QED BY <2>1, <2>2 DEF FiniteSubsetsOf
<1>3. T # {}
  OBVIOUS
<1>4. PICK U \in T : \A V \in T : <<V, U>> \notin StrictSubsetOrdering(S)
  <2>. HIDE DEF T
  <2>. QED BY <1>1, <1>2, <1>3, WFMin
<1>5. PICK x \in S : U = Below(x)
  OBVIOUS
<1>6. ASSUME NEW y \in S PROVE x <= y
  <2>. SUFFICES ASSUME y < x PROVE FALSE
    BY <1>6
  <2>1. x \in Int /\ y \in Int /\ \A z \in S : z \in Int
    BY <1>6
  <2>2. Below(y) \subseteq Below(x) /\ x \in Below(x) /\ x \notin Below(y)
    <3>1. x \in Below(x)
      BY <2>1
    <3>2. x \notin Below(y)
      BY <2>1
    <3>3. ASSUME NEW z \in Below(y) PROVE z \in Below(x)
      BY <2>1, <3>3
    <3>. QED BY <3>1, <3>2, <3>3
  <2>3. Below(x) \in SUBSET S /\ Below(y) \in SUBSET S /\ Below(y) \in T
    BY <1>6
  <2>4. <<Below(y), Below(x)>> \in StrictSubsetOrdering(S)
    <3>. HIDE DEF Below
    <3>. QED BY <2>2, <2>3 DEF StrictSubsetOrdering
  <2>. QED BY <1>4, <1>5, <2>3, <2>4
<1>7. Min(S) \in S /\ \A y \in S : Min(S) <= y
  BY <1>6 DEF Min
<1>. QED BY <1>7

-------------------------------------------------------------------------------
(* The fold.                                                                *)

\* The element that the fold takes of a set.
Chosen(s) == CHOOSE x \in s : TRUE

LEMMA ChosenIn == \A s : s # {} => Chosen(s) \in s
BY DEF Chosen

\* The function inside the fold, over the subsets of S.
Folds(g, f, S) ==
  g = [s \in SUBSET S |-> IF s = {} THEN 0 ELSE f[Chosen(s)] + g[s \ {Chosen(s)}]]

LEMMA SumIsFold == \A f, S : SumFunctionOnSet(f, S) = (CHOOSE g : Folds(g, f, S))[S]
BY DEF SumFunctionOnSet, FoldFunctionOnSet, MapThenFoldSet, Folds, Chosen

LEMMA FoldsApplied ==
  ASSUME NEW f, NEW S, NEW g, Folds(g, f, S), NEW s \in SUBSET S
  PROVE  g[s] = IF s = {} THEN 0 ELSE f[Chosen(s)] + g[s \ {Chosen(s)}]
BY DEF Folds

\* Two such functions agree where both are defined.
LEMMA FoldsAgree ==
  ASSUME NEW f, NEW S, IsFiniteSet(S), NEW T \in SUBSET S,
         NEW g, Folds(g, f, S), NEW h, Folds(h, f, T)
  PROVE  \A s \in SUBSET T : g[s] = h[s]
<1>. DEFINE Bad == {s \in SUBSET T : g[s] # h[s]}
<1>. SUFFICES ASSUME Bad # {} PROVE FALSE
  OBVIOUS
<1>1. IsFiniteSet(T)
  BY FS_Subset
<1>2. PICK s \in Bad : \A t \in Bad : t \subseteq s => t = s
  <2>1. Bad \subseteq SUBSET T
    OBVIOUS
  <2>. HIDE DEF Bad
  <2>. QED BY <1>1, <2>1, Smallest
<1>3. s \in SUBSET S /\ s \in SUBSET T /\ g[s] # h[s]
  OBVIOUS
<1>4. /\ g[s] = IF s = {} THEN 0 ELSE f[Chosen(s)] + g[s \ {Chosen(s)}]
      /\ h[s] = IF s = {} THEN 0 ELSE f[Chosen(s)] + h[s \ {Chosen(s)}]
  BY <1>3, FoldsApplied
<1>5. s # {} /\ Chosen(s) \in s
  BY <1>3, <1>4, ChosenIn
<1>6. s \ {Chosen(s)} \in SUBSET T /\ s \ {Chosen(s)} # s
  BY <1>3, <1>5
<1>7. s \ {Chosen(s)} \notin Bad
  BY <1>2, <1>6
<1>8. g[s \ {Chosen(s)}] = h[s \ {Chosen(s)}]
  BY <1>6, <1>7
<1>. QED BY <1>3, <1>4, <1>5, <1>8

\* The fold takes one element and goes on with the others.
LEMMA FoldsExist ==
  ASSUME NEW f, NEW S, IsFiniteSet(S)
  PROVE  \E g : Folds(g, f, S)
<1>. DEFINE Sum(s) == SumFunctionOnSet(f, s)
            Bad == {s \in SUBSET S : ~ \E g : Folds(g, f, s)}
<1>. SUFFICES ASSUME Bad # {} PROVE FALSE
  <2>1. S \in SUBSET S
    OBVIOUS
  <2>. QED BY <2>1
<1>1. PICK s \in Bad : \A t \in Bad : t \subseteq s => t = s
  <2>1. Bad \subseteq SUBSET S
    OBVIOUS
  <2>. HIDE DEF Bad
  <2>. QED BY <2>1, Smallest
<1>. DEFINE G == [t \in SUBSET s |-> IF t = {} THEN 0 ELSE f[Chosen(t)] + Sum(t \ {Chosen(t)})]
<1>2. ASSUME NEW t \in SUBSET s, t # s
      PROVE  \E g : Folds(g, f, t) /\ Sum(t) = g[t]
  <2>1. t \notin Bad /\ t \in SUBSET S
    BY <1>1, <1>2
  <2>2. \E g : Folds(g, f, t)
    BY <2>1
  <2>3. Folds(CHOOSE g : Folds(g, f, t), f, t)
    BY <2>2
  <2>. QED BY <2>3, SumIsFold
<1>3. ASSUME NEW t \in SUBSET s, t # s
      PROVE  Sum(t) = IF t = {} THEN 0 ELSE f[Chosen(t)] + Sum(t \ {Chosen(t)})
  <2>1. PICK g : Folds(g, f, t) /\ Sum(t) = g[t]
    BY <1>2, <1>3
  <2>2. g[t] = IF t = {} THEN 0 ELSE f[Chosen(t)] + g[t \ {Chosen(t)}]
    BY <2>1, FoldsApplied
  <2>3. CASE t = {}
    BY <2>1, <2>2, <2>3
  <2>4. CASE t # {}
    <3>. DEFINE u == t \ {Chosen(t)}
    <3>1. u \in SUBSET s /\ u # s /\ u \in SUBSET t
      BY <1>3
    <3>2. PICK h : Folds(h, f, u) /\ Sum(u) = h[u]
      <4>. HIDE DEF u
      <4>. QED BY <1>2, <3>1
    <3>3. IsFiniteSet(t)
      <4>1. t \subseteq S
        BY <1>1, <1>3
      <4>. QED BY <4>1, FS_Subset
    <3>4. g[u] = h[u]
      <4>. HIDE DEF u
      <4>. QED BY <2>1, <3>1, <3>2, <3>3, FoldsAgree
    <3>. QED BY <2>1, <2>2, <2>4, <3>2, <3>4
  <2>. QED BY <2>3, <2>4
<1>4. ASSUME NEW t \in SUBSET s, t # {}
      PROVE  G[t \ {Chosen(t)}] = Sum(t \ {Chosen(t)})
  <2>. DEFINE u == t \ {Chosen(t)}
  <2>1. u \in SUBSET s /\ u # s
    BY <1>4, ChosenIn
  <2>2. Sum(u) = IF u = {} THEN 0 ELSE f[Chosen(u)] + Sum(u \ {Chosen(u)})
    <3>. HIDE DEF u, Sum
    <3>. QED BY <1>3, <2>1
  <2>. HIDE DEF u, Sum
  <2>3. G[u] = Sum(u)
    BY <2>1, <2>2
  <2>. QED BY <2>3 DEF u
<1>5. Folds(G, f, s)
  <2>1. \A t \in SUBSET s :
          G[t] = IF t = {} THEN 0 ELSE f[Chosen(t)] + G[t \ {Chosen(t)}]
    <3>. HIDE DEF Sum
    <3>. SUFFICES ASSUME NEW t \in SUBSET s
                  PROVE  G[t] = IF t = {} THEN 0 ELSE f[Chosen(t)] + G[t \ {Chosen(t)}]
      OBVIOUS
    <3>1. G[t] = IF t = {} THEN 0 ELSE f[Chosen(t)] + Sum(t \ {Chosen(t)})
      OBVIOUS
    <3>. HIDE DEF G
    <3>. QED BY <3>1, <1>4
  <2>2. G = [t \in SUBSET s |-> G[t]]
    OBVIOUS
  <2>. HIDE DEF G
  <2>. QED BY <2>1, <2>2 DEF Folds
<1>. QED BY <1>1, <1>5

-------------------------------------------------------------------------------
(* Sums.                                                                    *)

LEMMA SumEmpty == \A f : SumFunctionOnSet(f, {}) = 0
<1>. SUFFICES ASSUME NEW f PROVE SumFunctionOnSet(f, {}) = 0
  OBVIOUS
<1>1. PICK g : Folds(g, f, {}) /\ SumFunctionOnSet(f, {}) = g[{}]
  <2>1. \E g : Folds(g, f, {})
    BY FS_EmptySet, FoldsExist
  <2>2. Folds(CHOOSE g : Folds(g, f, {}), f, {})
    BY <2>1
  <2>. QED BY <2>2, SumIsFold
<1>2. {} \in SUBSET {}
  OBVIOUS
<1>3. g[{}] = 0
  BY <1>1, <1>2, FoldsApplied
<1>. QED BY <1>1, <1>3

LEMMA SumChosen ==
  ASSUME NEW f, NEW S, IsFiniteSet(S), S # {}
  PROVE  SumFunctionOnSet(f, S) = f[Chosen(S)] + SumFunctionOnSet(f, S \ {Chosen(S)})
<1>. DEFINE U == S \ {Chosen(S)}
<1>1. \A T \in SUBSET S : \E g : Folds(g, f, T) /\ SumFunctionOnSet(f, T) = g[T]
  <2>. SUFFICES ASSUME NEW T \in SUBSET S
                PROVE  \E g : Folds(g, f, T) /\ SumFunctionOnSet(f, T) = g[T]
    OBVIOUS
  <2>1. \E g : Folds(g, f, T)
    BY FS_Subset, FoldsExist
  <2>2. Folds(CHOOSE g : Folds(g, f, T), f, T)
    BY <2>1
  <2>. QED BY <2>2, SumIsFold
<1>2. S \in SUBSET S /\ U \in SUBSET S /\ U \in SUBSET U
  OBVIOUS
<1>3. PICK g : Folds(g, f, S) /\ SumFunctionOnSet(f, S) = g[S]
  BY <1>1, <1>2
<1>4. PICK h : Folds(h, f, U) /\ SumFunctionOnSet(f, U) = h[U]
  <2>. HIDE DEF U
  <2>. QED BY <1>1, <1>2
<1>5. g[S] = f[Chosen(S)] + g[U]
  BY <1>2, <1>3, FoldsApplied
<1>6. g[U] = h[U]
  <2>. HIDE DEF U
  <2>. QED BY <1>2, <1>3, <1>4, FoldsAgree
<1>. QED BY <1>3, <1>4, <1>5, <1>6

LEMMA SumNat ==
  ASSUME NEW f, NEW S, IsFiniteSet(S), \A x \in S : f[x] \in Nat
  PROVE  SumFunctionOnSet(f, S) \in Nat
<1>. DEFINE Bad == {s \in SUBSET S : SumFunctionOnSet(f, s) \notin Nat}
<1>. SUFFICES ASSUME Bad # {} PROVE FALSE
  <2>1. S \in SUBSET S
    OBVIOUS
  <2>. QED BY <2>1
<1>1. PICK s \in Bad : \A t \in Bad : t \subseteq s => t = s
  <2>1. Bad \subseteq SUBSET S
    OBVIOUS
  <2>. HIDE DEF Bad
  <2>. QED BY <2>1, Smallest
<1>. DEFINE u == s \ {Chosen(s)}
<1>2. s # {} /\ IsFiniteSet(s) /\ s \in SUBSET S /\ SumFunctionOnSet(f, s) \notin Nat
  <2>1. s \in SUBSET S /\ SumFunctionOnSet(f, s) \notin Nat
    OBVIOUS
  <2>2. SumFunctionOnSet(f, {}) \in Nat
    BY SumEmpty
  <2>. QED BY <2>1, <2>2, FS_Subset
<1>3. Chosen(s) \in s
  BY <1>2, ChosenIn
<1>4. u \in SUBSET S /\ u \subseteq s /\ u # s
  BY <1>2, <1>3
<1>5. SumFunctionOnSet(f, u) \in Nat
  <2>. HIDE DEF u
  <2>1. u \notin Bad
    BY <1>1, <1>4
  <2>. QED BY <1>4, <2>1
<1>6. SumFunctionOnSet(f, s) = f[Chosen(s)] + SumFunctionOnSet(f, u)
  BY <1>2, SumChosen
<1>7. f[Chosen(s)] \in Nat
  BY <1>2, <1>3
<1>. HIDE DEF u
<1>. QED BY <1>2, <1>5, <1>6, <1>7

\* Any element may be taken first.
LEMMA SumSplit ==
  ASSUME NEW f, NEW S, IsFiniteSet(S), \A y \in S : f[y] \in Nat, NEW x \in S
  PROVE  SumFunctionOnSet(f, S) = f[x] + SumFunctionOnSet(f, S \ {x})
<1>. DEFINE Sum(s) == SumFunctionOnSet(f, s)
            Bad == {s \in SUBSET S : \E y \in s : Sum(s) # f[y] + Sum(s \ {y})}
<1>. SUFFICES ASSUME Bad # {} PROVE FALSE
  <2>1. S \in SUBSET S
    OBVIOUS
  <2>. QED BY <2>1
<1>1. PICK s \in Bad : \A t \in Bad : t \subseteq s => t = s
  <2>1. Bad \subseteq SUBSET S
    OBVIOUS
  <2>. HIDE DEF Bad
  <2>. QED BY <2>1, Smallest
<1>2. PICK y \in s : Sum(s) # f[y] + Sum(s \ {y})
  OBVIOUS
<1>3. \A t \in SUBSET s : IsFiniteSet(t) /\ Sum(t) \in Nat
  <2>. SUFFICES ASSUME NEW t \in SUBSET s PROVE IsFiniteSet(t) /\ Sum(t) \in Nat
    OBVIOUS
  <2>1. t \in SUBSET S
    OBVIOUS
  <2>2. IsFiniteSet(t)
    BY <2>1, FS_Subset
  <2>. QED BY <2>1, <2>2, SumNat
<1>. DEFINE c == Chosen(s)
<1>4. c \in s /\ s \in SUBSET S /\ s \in SUBSET s /\ s # {}
  BY ChosenIn
<1>5. Sum(s) = f[c] + Sum(s \ {c})
  BY <1>3, <1>4, SumChosen
<1>6. c # y
  BY <1>2, <1>5
<1>. HIDE DEF c, Sum
<1>7. \A t \in SUBSET s : t # s => \A z \in t : Sum(t) = f[z] + Sum(t \ {z})
  <2>. SUFFICES ASSUME NEW t \in SUBSET s, t # s, NEW z \in t
                PROVE  Sum(t) = f[z] + Sum(t \ {z})
    OBVIOUS
  <2>1. t \notin Bad /\ t \in SUBSET S
    BY <1>1, <1>4
  <2>. QED BY <2>1
<1>8. Sum(s \ {c}) = f[y] + Sum((s \ {c}) \ {y})
  <2>1. s \ {c} \in SUBSET s /\ s \ {c} # s /\ y \in s \ {c}
    BY <1>4, <1>6
  <2>. QED BY <1>7, <2>1
<1>9. Sum(s \ {y}) = f[c] + Sum((s \ {y}) \ {c})
  <2>1. s \ {y} \in SUBSET s /\ s \ {y} # s /\ c \in s \ {y}
    BY <1>2, <1>4, <1>6
  <2>. QED BY <1>7, <2>1
<1>10. (s \ {y}) \ {c} = (s \ {c}) \ {y} /\ (s \ {c}) \ {y} \in SUBSET s
  OBVIOUS
<1>11. f[c] \in Nat /\ f[y] \in Nat /\ Sum((s \ {c}) \ {y}) \in Nat
  BY <1>2, <1>3, <1>4, <1>10
<1>. DEFINE rest == Sum((s \ {c}) \ {y})
<1>12. /\ Sum(s) = f[c] + (f[y] + rest) /\ Sum(s \ {y}) = f[c] + rest
       /\ f[c] \in Nat /\ f[y] \in Nat /\ rest \in Nat
  BY <1>5, <1>8, <1>9, <1>10, <1>11
<1>. HIDE DEF rest
<1>13. Sum(s) = f[y] + Sum(s \ {y})
  BY <1>12
<1>. QED BY <1>2, <1>13

\* One element more.
LEMMA SumOneMore ==
  ASSUME NEW f, NEW S, IsFiniteSet(S), NEW x, x \notin S, \A y \in S \cup {x} : f[y] \in Nat
  PROVE  SumFunctionOnSet(f, S \cup {x}) = SumFunctionOnSet(f, S) + f[x]
<1>1. IsFiniteSet(S \cup {x}) /\ x \in S \cup {x} /\ (S \cup {x}) \ {x} = S
  BY FS_AddElement
<1>. DEFINE T == S \cup {x}
<1>2. /\ IsFiniteSet(T) /\ x \in T /\ T \ {x} = S /\ \A y \in T : f[y] \in Nat
      /\ \A y \in S : f[y] \in Nat
  BY <1>1
<1>. HIDE DEF T
<1>3. SumFunctionOnSet(f, T) = f[x] + SumFunctionOnSet(f, S)
  BY <1>2, SumSplit
<1>4. SumFunctionOnSet(f, S) \in Nat /\ f[x] \in Nat
  BY <1>2, SumNat
<1>. QED BY <1>3, <1>4 DEF T

\* A sum is no more than another of more elements, each no less.
LEMMA SumAtMost ==
  ASSUME NEW f, NEW S, IsFiniteSet(S), \A x \in S : f[x] \in Nat,
         NEW g, NEW T \in SUBSET S, \A x \in T : g[x] \in Nat /\ g[x] <= f[x]
  PROVE  SumFunctionOnSet(g, T) <= SumFunctionOnSet(f, S)
<1>. DEFINE F(s) == SumFunctionOnSet(f, s)
            G(s) == SumFunctionOnSet(g, s)
            Bad == {s \in SUBSET S : ~ (G(s \cap T) <= F(s))}
<1>. SUFFICES ASSUME Bad # {} PROVE FALSE
  <2>1. S \in SUBSET S /\ S \cap T = T
    OBVIOUS
  <2>. QED BY <2>1
<1>1. PICK s \in Bad : \A t \in Bad : t \subseteq s => t = s
  <2>1. Bad \subseteq SUBSET S
    OBVIOUS
  <2>. HIDE DEF Bad
  <2>. QED BY <2>1, Smallest
<1>2. s \in SUBSET S /\ ~ (G(s \cap T) <= F(s))
  OBVIOUS
<1>3. s # {}
  <2>1. ({} \cap T) = {} /\ G({}) = 0 /\ F({}) = 0
    BY SumEmpty
  <2>. QED BY <1>2, <2>1
<1>4. PICK x : x \in s
  BY <1>3
<1>. DEFINE u == s \ {x}
<1>5. /\ u \in SUBSET S /\ u # s /\ u \subseteq s
      /\ u \cap T = (s \cap T) \ {x}
  BY <1>2, <1>4
<1>6. IsFiniteSet(s) /\ IsFiniteSet(u) /\ IsFiniteSet(s \cap T) /\ IsFiniteSet(u \cap T)
  <2>1. s \cap T \in SUBSET S /\ u \cap T \in SUBSET S
    BY <1>2, <1>5
  <2>. HIDE DEF u
  <2>. QED BY <1>2, <1>5, <2>1, FS_Subset
<1>7. F(s) = f[x] + F(u)
  BY <1>2, <1>4, <1>6, SumSplit
<1>8. F(u) \in Nat /\ f[x] \in Nat
  <2>1. \A y \in u : f[y] \in Nat
    BY <1>5
  <2>. HIDE DEF u
  <2>. QED BY <1>2, <1>4, <1>6, <2>1, SumNat
<1>9. G(u \cap T) \in Nat
  <2>1. \A y \in u \cap T : g[y] \in Nat
    OBVIOUS
  <2>. HIDE DEF u
  <2>. QED BY <1>6, <2>1, SumNat
<1>10. G(u \cap T) <= F(u)
  <2>. HIDE DEF u, F, G
  <2>1. u \notin Bad
    BY <1>1, <1>5
  <2>. QED BY <1>5, <2>1
<1>11. CASE x \in T
  <2>1. x \in s \cap T /\ \A y \in s \cap T : g[y] \in Nat
    BY <1>4, <1>11
  <2>2. G(s \cap T) = g[x] + G((s \cap T) \ {x})
    <3>. DEFINE V == s \cap T
    <3>1. x \in V /\ \A y \in V : g[y] \in Nat
      BY <2>1
    <3>2. IsFiniteSet(V)
      BY <1>6
    <3>. HIDE DEF V
    <3>3. G(V) = g[x] + G(V \ {x})
      BY <3>1, <3>2, SumSplit
    <3>. QED BY <3>3 DEF V
  <2>3. g[x] \in Nat /\ g[x] <= f[x]
    BY <1>11
  <2>4. G(s \cap T) = g[x] + G(u \cap T)
    BY <1>5, <2>2
  <2>. HIDE DEF F, G, u
  <2>5. g[x] + G(u \cap T) <= f[x] + F(u)
    BY <1>8, <1>9, <1>10, <2>3
  <2>. QED BY <1>2, <1>7, <2>4, <2>5
<1>12. CASE x \notin T
  <2>1. u \cap T = s \cap T
    BY <1>5, <1>12
  <2>2. G(s \cap T) = G(u \cap T)
    BY <2>1
  <2>. HIDE DEF F, G, u
  <2>3. G(u \cap T) <= f[x] + F(u)
    BY <1>8, <1>9, <1>10
  <2>. QED BY <1>2, <1>7, <2>2, <2>3
<1>. QED BY <1>11, <1>12

\* A sum depends on what its function is on the set only.
LEMMA SumSame ==
  ASSUME NEW f, NEW g, NEW S, IsFiniteSet(S), \A x \in S : f[x] \in Nat /\ g[x] = f[x]
  PROVE  SumFunctionOnSet(g, S) = SumFunctionOnSet(f, S)
<1>1. S \in SUBSET S /\ \A x \in S : f[x] \in Nat /\ g[x] \in Nat /\ g[x] <= f[x] /\ f[x] <= g[x]
  OBVIOUS
<1>2. SumFunctionOnSet(g, S) <= SumFunctionOnSet(f, S)
  BY <1>1, SumAtMost
<1>3. SumFunctionOnSet(f, S) <= SumFunctionOnSet(g, S)
  BY <1>1, SumAtMost
<1>4. SumFunctionOnSet(f, S) \in Nat /\ SumFunctionOnSet(g, S) \in Nat
  BY <1>1, SumNat
<1>. QED BY <1>2, <1>3, <1>4

\* Two sets that have no element in common.
LEMMA SumUnion ==
  ASSUME NEW f, NEW S, IsFiniteSet(S), NEW T, IsFiniteSet(T), S \cap T = {},
         \A x \in S \cup T : f[x] \in Nat
  PROVE  SumFunctionOnSet(f, S \cup T) = SumFunctionOnSet(f, S) + SumFunctionOnSet(f, T)
<1>. DEFINE Sum(s) == SumFunctionOnSet(f, s)
            Bad == {t \in SUBSET T : Sum(S \cup t) # Sum(S) + Sum(t)}
<1>. SUFFICES ASSUME Bad # {} PROVE FALSE
  <2>1. T \in SUBSET T
    OBVIOUS
  <2>. QED BY <2>1
<1>1. PICK t \in Bad : \A u \in Bad : u \subseteq t => u = t
  <2>1. Bad \subseteq SUBSET T
    OBVIOUS
  <2>. HIDE DEF Bad
  <2>. QED BY <2>1, Smallest
<1>2. t \in SUBSET T /\ Sum(S \cup t) # Sum(S) + Sum(t)
  OBVIOUS
<1>3. Sum(S) \in Nat
  BY SumNat
<1>4. t # {}
  <2>1. S \cup {} = S /\ Sum({}) = 0
    BY SumEmpty
  <2>. HIDE DEF Sum
  <2>. QED BY <1>2, <1>3, <2>1
<1>5. PICK x : x \in t
  BY <1>4
<1>. DEFINE u == t \ {x}
<1>6. /\ u \in SUBSET T /\ u # t /\ u \subseteq t /\ (S \cup t) \ {x} = S \cup u
      /\ x \in S \cup t /\ f[x] \in Nat
      /\ \A y \in S \cup t : f[y] \in Nat
      /\ \A y \in u : f[y] \in Nat
      /\ \A y \in t : f[y] \in Nat
  BY <1>2, <1>5
<1>7. IsFiniteSet(t) /\ IsFiniteSet(u) /\ IsFiniteSet(S \cup t)
  <2>1. IsFiniteSet(t) /\ IsFiniteSet(u)
    BY <1>2, <1>6, FS_Subset
  <2>. QED BY <2>1, FS_Union
<1>8. Sum(S \cup t) = f[x] + Sum(S \cup u)
  <2>. DEFINE V == S \cup t
  <2>1. x \in V /\ IsFiniteSet(V) /\ \A y \in V : f[y] \in Nat
    BY <1>6, <1>7
  <2>. HIDE DEF V
  <2>2. Sum(V) = f[x] + Sum(V \ {x})
    BY <2>1, SumSplit
  <2>. QED BY <1>6, <2>2 DEF V
<1>9. Sum(t) = f[x] + Sum(u)
  BY <1>5, <1>6, <1>7, SumSplit
<1>10. Sum(u) \in Nat
  <2>. HIDE DEF u
  <2>. QED BY <1>6, <1>7, SumNat
<1>11. Sum(S \cup u) = Sum(S) + Sum(u)
  <2>. HIDE DEF u, Sum
  <2>1. u \notin Bad
    BY <1>1, <1>6
  <2>. QED BY <1>6, <2>1
<1>. HIDE DEF u, Sum, Bad
<1>12. Sum(S \cup t) = Sum(S) + Sum(t)
  BY <1>3, <1>6, <1>8, <1>9, <1>10, <1>11
<1>. QED BY <1>2, <1>12

\* The elements of S with the key k, and with a key in K.
Keyed(S, key, k) == {x \in S : key[x] = k}
KeyedIn(S, key, K) == {x \in S : key[x] \in K}

\* The sums of what a set has of each key are the sum of what it has of them all.
LEMMA SumByKey ==
  ASSUME NEW f, NEW S, IsFiniteSet(S), \A x \in S : f[x] \in Nat,
         NEW key, NEW K, IsFiniteSet(K), NEW g,
         \A k \in K : g[k] = SumFunctionOnSet(f, Keyed(S, key, k))
  PROVE  /\ \A k \in K : g[k] \in Nat
         /\ SumFunctionOnSet(g, K) = SumFunctionOnSet(f, KeyedIn(S, key, K))
<1>. USE DEF Keyed, KeyedIn
<1>. DEFINE Sum(s) == SumFunctionOnSet(f, s)
            Of(U) == KeyedIn(S, key, U)
            With(k) == Keyed(S, key, k)
            G(U) == SumFunctionOnSet(g, U)
            Bad == {U \in SUBSET K : G(U) # Sum(Of(U))}
<1>1. \A T \in SUBSET S : IsFiniteSet(T) /\ Sum(T) \in Nat
  <2>. SUFFICES ASSUME NEW T \in SUBSET S PROVE IsFiniteSet(T) /\ Sum(T) \in Nat
    OBVIOUS
  <2>1. IsFiniteSet(T) /\ \A x \in T : f[x] \in Nat
    BY FS_Subset
  <2>. QED BY <2>1, SumNat
<1>2. \A k \in K : g[k] = Sum(With(k)) /\ g[k] \in Nat
  <2>. SUFFICES ASSUME NEW k \in K PROVE g[k] = Sum(With(k)) /\ g[k] \in Nat
    OBVIOUS
  <2>1. With(k) \in SUBSET S /\ g[k] = Sum(With(k))
    OBVIOUS
  <2>. HIDE DEF With, Sum
  <2>. QED BY <1>1, <2>1
<1>3. ASSUME Bad # {} PROVE FALSE
  <2>1. PICK U \in Bad : \A V \in Bad : V \subseteq U => V = U
    <3>1. Bad \subseteq SUBSET K
      OBVIOUS
    <3>. HIDE DEF Bad
    <3>. QED BY <1>3, <3>1, Smallest
  <2>2. U \in SUBSET K /\ G(U) # Sum(Of(U))
    OBVIOUS
  <2>3. U # {}
    <3>1. Of({}) = {} /\ G({}) = 0 /\ Sum({}) = 0
      BY SumEmpty
    <3>. HIDE DEF Of, G, Sum
    <3>. QED BY <2>2, <3>1
  <2>4. PICK k : k \in U
    BY <2>3
  <2>. DEFINE V == U \ {k}
  <2>5. V \in SUBSET K /\ V # U /\ V \subseteq U /\ k \in K
        /\ Of(U) = With(k) \cup Of(V) /\ With(k) \cap Of(V) = {}
        /\ With(k) \in SUBSET S /\ Of(V) \in SUBSET S
        /\ \A x \in With(k) \cup Of(V) : f[x] \in Nat
    BY <2>2, <2>4
  <2>6. G(U) = g[k] + G(V)
    <3>1. IsFiniteSet(U) /\ \A l \in U : g[l] \in Nat
      BY <1>2, <2>2, FS_Subset
    <3>. QED BY <2>4, <3>1, SumSplit
  <2>. HIDE DEF V
  <2>7. G(V) = Sum(Of(V))
    <3>. HIDE DEF G, Sum, Of
    <3>1. V \notin Bad
      BY <2>1, <2>5
    <3>. QED BY <2>5, <3>1
  <2>8. Sum(With(k) \cup Of(V)) = Sum(With(k)) + Sum(Of(V))
    <3>. DEFINE A == With(k)
                B == Of(V)
    <3>1. /\ IsFiniteSet(A) /\ IsFiniteSet(B) /\ A \cap B = {}
          /\ \A x \in A \cup B : f[x] \in Nat
      <4>. HIDE DEF With, Of
      <4>. QED BY <1>1, <2>5
    <3>. HIDE DEF A, B
    <3>2. Sum(A \cup B) = Sum(A) + Sum(B)
      BY <3>1, SumUnion
    <3>. QED BY <3>2 DEF A, B
  <2>. HIDE DEF G, Sum, Of, With, Bad
  <2>. QED BY <1>2, <2>2, <2>5, <2>6, <2>7, <2>8
<1>4. G(K) = Sum(Of(K))
  <2>1. K \in SUBSET K
    OBVIOUS
  <2>. HIDE DEF G, Sum, Of
  <2>. QED BY <1>3, <2>1
<1>. QED BY <1>2, <1>4

\* One value goes down by d, or goes altogether.
LEMMA SumTaken ==
  ASSUME NEW f, NEW S, IsFiniteSet(S), \A y \in S : f[y] \in Nat, NEW x \in S, NEW d \in Int,
         NEW g, NEW T, T = S \/ T = S \ {x}, \A y \in S \ {x} : g[y] = f[y],
         x \in T => g[x] \in Nat /\ g[x] = f[x] - d,
         x \notin T => d = f[x]
  PROVE  SumFunctionOnSet(g, T) = SumFunctionOnSet(f, S) - d
<1>. DEFINE R == S \ {x}
            sr == SumFunctionOnSet(g, R)
<1>1. IsFiniteSet(R) /\ \A y \in R : f[y] \in Nat /\ g[y] = f[y]
  BY FS_Subset
<1>2. SumFunctionOnSet(f, S) = f[x] + SumFunctionOnSet(f, R)
  BY SumSplit
<1>3. SumFunctionOnSet(f, R) = sr /\ sr \in Nat
  <2>. HIDE DEF R
  <2>1. SumFunctionOnSet(f, R) = SumFunctionOnSet(g, R)
    BY <1>1, SumSame
  <2>2. \A y \in R : g[y] \in Nat
    BY <1>1
  <2>3. SumFunctionOnSet(g, R) \in Nat
    BY <1>1, <2>2, SumNat
  <2>. QED BY <2>1, <2>3
<1>. HIDE DEF sr
<1>4. CASE x \in T
  <2>1. T = S /\ \A y \in S : g[y] \in Nat
    BY <1>1, <1>4
  <2>2. SumFunctionOnSet(g, S) = g[x] + SumFunctionOnSet(g, R)
    BY <2>1, SumSplit
  <2>3. f[x] \in Nat /\ g[x] \in Nat /\ g[x] = f[x] - d
    BY <1>4
  <2>. HIDE DEF R
  <2>4. SumFunctionOnSet(g, T) = g[x] + sr
    BY <2>1, <2>2 DEF sr
  <2>. QED BY <1>2, <1>3, <2>3, <2>4
<1>5. CASE x \notin T
  <2>1. T = R /\ d = f[x] /\ f[x] \in Nat
    BY <1>5
  <2>. HIDE DEF R
  <2>. QED BY <1>2, <1>3, <2>1 DEF sr
<1>. QED BY <1>4, <1>5

\* One value goes down or goes, and no other goes up.
LEMMA SumLower ==
  ASSUME NEW f, NEW S, IsFiniteSet(S), \A y \in S : f[y] \in Nat, NEW x \in S, f[x] > 0,
         NEW g, NEW T \in SUBSET S, \A y \in T : g[y] \in Nat /\ g[y] <= f[y],
         x \in T => g[x] < f[x]
  PROVE  SumFunctionOnSet(g, T) < SumFunctionOnSet(f, S)
<1>. DEFINE R == S \ {x}
            Q == T \ {x}
            sr == SumFunctionOnSet(f, R)
            sq == SumFunctionOnSet(g, Q)
<1>1. IsFiniteSet(R) /\ IsFiniteSet(T) /\ Q \in SUBSET R
  BY FS_Subset
<1>2. SumFunctionOnSet(f, S) = f[x] + sr
  BY SumSplit
<1>3. sq <= sr
  <2>1. /\ \A y \in R : f[y] \in Nat
        /\ \A y \in Q : g[y] \in Nat /\ g[y] <= f[y]
    OBVIOUS
  <2>. HIDE DEF R, Q
  <2>. QED BY <1>1, <2>1, SumAtMost
<1>4. sr \in Nat /\ sq \in Nat
  <2>1. /\ \A y \in R : f[y] \in Nat
        /\ \A y \in Q : g[y] \in Nat
    OBVIOUS
  <2>2. IsFiniteSet(Q)
    <3>. HIDE DEF Q
    <3>. QED BY <1>1, FS_Subset
  <2>. HIDE DEF R, Q
  <2>. QED BY <1>1, <2>1, <2>2, SumNat
<1>5. CASE x \in T
  <2>1. \A y \in T : g[y] \in Nat
    OBVIOUS
  <2>2. SumFunctionOnSet(g, T) = g[x] + sq
    BY <1>1, <1>5, <2>1, SumSplit
  <2>3. f[x] \in Nat /\ g[x] \in Nat /\ g[x] < f[x]
    BY <1>5
  <2>. HIDE DEF sr, sq
  <2>. QED BY <1>2, <1>3, <1>4, <2>2, <2>3
<1>6. CASE x \notin T
  <2>1. T = Q /\ f[x] \in Nat
    BY <1>6
  <2>2. SumFunctionOnSet(g, T) = sq
    BY <2>1
  <2>. HIDE DEF sr, sq
  <2>. QED BY <1>2, <1>3, <1>4, <2>1, <2>2
<1>. QED BY <1>5, <1>6
===============================================================================
