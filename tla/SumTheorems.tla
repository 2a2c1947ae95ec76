---------------------------- MODULE SumTheorems ----------------------------
(***************************************************************************)
(* What a sum over a finite set is. SumFunctionOnSet folds a set in the    *)
(* order of some CHOOSE; a sum of natural numbers depends on no order, and *)
(* an element can be added or taken away.                                  *)
(***************************************************************************)
EXTENDS Integers, FiniteSetsExt, FiniteSetTheorems, WellFoundedInduction, TLAPS

(* A set of natural numbers that is not empty has a least one. *)
LEMMA Least ==
  ASSUME NEW S \in SUBSET Nat, S # {}
  PROVE  Min(S) \in S /\ \A y \in S : Min(S) <= y
<1> DEFINE R == OpToRel(<, Nat)
<1>1. \E x \in S : \A y \in S : ~(<<y, x>> \in R)
  <2>1. IsWellFoundedOn(R, Nat)
    BY NatLessThanWellFounded
  <2> HIDE DEF R
  <2> QED BY <2>1, WFMin
<1>2. R = {ss \in Nat \X Nat : ss[1] < ss[2]}
  BY Zenon DEF OpToRel
<1>3. \A x, y \in Nat : y < x => <<y, x>> \in R
  <2> HIDE DEF R
  <2> QED BY <1>2
<1>4. PICK x \in S : \A y \in S : ~(<<y, x>> \in R)
  BY <1>1
<1>5. \A y \in S : x <= y
  <2> SUFFICES ASSUME NEW y \in S PROVE ~(y < x)
    OBVIOUS
  <2>1. x \in Nat /\ y \in Nat
    OBVIOUS
  <2> HIDE DEF R
  <2> QED BY <1>3, <1>4, <2>1
<1> QED BY <1>5 DEF Min

(* Of subsets of a finite set one is the smallest: the form in which facts
   about finite sets are proved here, by their smallest counterexample.      *)
LEMMA Smallest ==
  ASSUME NEW S, IsFiniteSet(S), NEW B \in SUBSET SUBSET S, B # {}
  PROVE  \E T \in B : \A U \in SUBSET T : U # T => U \notin B
<1> DEFINE N == {Cardinality(T) : T \in B}
<1>1. \A T \in SUBSET S : IsFiniteSet(T) /\ Cardinality(T) \in Nat
  BY FS_Subset, FS_CardinalityType
<1>2. N \in SUBSET Nat /\ N # {}
  BY <1>1
<1>3. Min(N) \in N /\ \A n \in N : Min(N) <= n
  <2> HIDE DEF N
  <2> QED BY <1>2, Least
<1>4. PICK T \in B : Cardinality(T) = Min(N)
  BY <1>3
<1>5. ASSUME NEW U \in SUBSET T, U # T, U \in B PROVE FALSE
  <2>1. Cardinality(T) <= Cardinality(U)
    BY <1>3, <1>4, <1>5
  <2>2. IsFiniteSet(T) /\ Cardinality(U) \in Nat /\ Cardinality(T) \in Nat
    BY <1>1, <1>5
  <2>3. Cardinality(U) < Cardinality(T)
    BY <1>5, <2>2, FS_Subset
  <2> QED BY <2>1, <2>2, <2>3
<1> QED BY <1>5

-----------------------------------------------------------------------------
(* The fold over the subsets of S that defines the sum. *)
Chosen(s) == CHOOSE x \in s : TRUE
IsFold(f, S, g) ==
  g = [s \in SUBSET S |-> IF s = {} THEN 0 ELSE f[Chosen(s)] + g[s \ {Chosen(s)}]]
Fold(f, S) == CHOOSE g : IsFold(f, S, g)

(* The sum is what the fold is at the whole set. *)
LEMMA SumIsFold ==
  ASSUME NEW f, NEW S
  PROVE  SumFunctionOnSet(f, S) = Fold(f, S)[S]
BY DEF SumFunctionOnSet, FoldFunctionOnSet, MapThenFoldSet, Fold, IsFold, Chosen

(* What is chosen of a set that is not empty is in it. *)
LEMMA ChosenIsIn == \A s : s # {} => Chosen(s) \in s
BY DEF Chosen

(* Folds agree on what they have in common. *)
LEMMA FoldsAgree ==
  ASSUME NEW f, NEW S, IsFiniteSet(S), NEW T \in SUBSET S, NEW g, IsFold(f, S, g), NEW h, IsFold(f, T, h)
  PROVE  \A s \in SUBSET T : g[s] = h[s]
<1> DEFINE B == {s \in SUBSET T : g[s] # h[s]}
<1> SUFFICES ASSUME B # {} PROVE FALSE
  OBVIOUS
<1>1. IsFiniteSet(T) /\ B \in SUBSET SUBSET T
  BY FS_Subset
<1>2. PICK s \in B : \A u \in SUBSET s : u # s => u \notin B
  <2> HIDE DEF B
  <2> QED BY <1>1, Smallest
<1>3. s \in SUBSET T /\ s \in SUBSET S
  OBVIOUS
<1>4. g[s] = IF s = {} THEN 0 ELSE f[Chosen(s)] + g[s \ {Chosen(s)}]
  BY <1>3 DEF IsFold
<1>5. h[s] = IF s = {} THEN 0 ELSE f[Chosen(s)] + h[s \ {Chosen(s)}]
  BY <1>3 DEF IsFold
<1>6. s # {}
  BY <1>4, <1>5
<1>7. s \ {Chosen(s)} \in SUBSET s /\ s \ {Chosen(s)} # s /\ s \ {Chosen(s)} \in SUBSET T
  BY <1>3, <1>6, ChosenIsIn
<1>8. g[s \ {Chosen(s)}] = h[s \ {Chosen(s)}]
  BY <1>2, <1>7
<1> QED BY <1>4, <1>5, <1>8

(* Every finite set has a fold. *)
LEMMA FoldExists ==
  ASSUME NEW f, NEW S, IsFiniteSet(S)
  PROVE  IsFold(f, S, Fold(f, S))
<1> DEFINE B == {T \in SUBSET S : ~IsFold(f, T, Fold(f, T))}
<1> SUFFICES ASSUME B # {} PROVE FALSE
  OBVIOUS
<1>1. PICK T \in B : \A U \in SUBSET T : U # T => U \notin B
  <2>1. B \in SUBSET SUBSET S
    OBVIOUS
  <2> HIDE DEF B
  <2> QED BY <2>1, Smallest
<1>2. \A U \in SUBSET T : U # T => IsFold(f, U, Fold(f, U)) /\ IsFiniteSet(U)
  BY <1>1, FS_Subset
<1> DEFINE rest(s) == s \ {Chosen(s)}
           below(s) == IF s = {} THEN 0 ELSE f[Chosen(s)] + Fold(f, rest(s))[rest(s)]
           g == [s \in SUBSET T |-> below(s)]
<1>3. \A s \in SUBSET T : s # {} => rest(s) \in SUBSET s /\ rest(s) # T /\ rest(s) \in SUBSET T
  BY ChosenIsIn
<1>4. ASSUME NEW s \in SUBSET T, s # T PROVE g[s] = Fold(f, s)[s]
  <2>1. Fold(f, s)[s] = IF s = {} THEN 0 ELSE f[Chosen(s)] + Fold(f, s)[rest(s)]
    <3>1. IsFold(f, s, Fold(f, s)) /\ s \in SUBSET s
      BY <1>2, <1>4
    <3> DEFINE F == Fold(f, s)
    <3>2. IsFold(f, s, F)
      BY <3>1
    <3> HIDE DEF F
    <3>3. F[s] = IF s = {} THEN 0 ELSE f[Chosen(s)] + F[rest(s)]
      BY <3>1, <3>2 DEF IsFold
    <3> QED BY <3>3 DEF F
  <2>2. ASSUME s # {} PROVE Fold(f, s)[rest(s)] = Fold(f, rest(s))[rest(s)]
    <3>1. rest(s) \in SUBSET s /\ rest(s) # T /\ rest(s) \in SUBSET T
      BY <1>3, <2>2
    <3>2. IsFold(f, rest(s), Fold(f, rest(s))) /\ IsFold(f, s, Fold(f, s)) /\ IsFiniteSet(s)
      BY <1>2, <1>4, <3>1
    <3>3. rest(s) \in SUBSET rest(s)
      OBVIOUS
    <3> DEFINE r == rest(s)
               F == Fold(f, s)
               G == Fold(f, r)
    <3>4. IsFold(f, s, F) /\ IsFold(f, r, G) /\ r \in SUBSET s /\ r \in SUBSET r
      BY <3>1, <3>2
    <3> HIDE DEF r, F, G
    <3>5. F[r] = G[r]
      BY <3>2, <3>4, FoldsAgree
    <3> QED BY <3>5 DEF r, F, G
  <2> HIDE DEF rest
  <2> QED BY <2>1, <2>2
<1>5. \A s \in SUBSET T : s # {} => g[rest(s)] = Fold(f, rest(s))[rest(s)]
  <2> HIDE DEF rest, g
  <2> QED BY <1>3, <1>4
<1>6. g = [s \in SUBSET T |-> IF s = {} THEN 0 ELSE f[Chosen(s)] + g[rest(s)]]
  <2>1. \A s \in SUBSET T : below(s) = IF s = {} THEN 0 ELSE f[Chosen(s)] + g[rest(s)]
    <3> HIDE DEF rest, g
    <3> QED BY <1>5
  <2> QED BY <2>1, Zenon
<1>7. IsFold(f, T, g)
  <2> HIDE DEF g
  <2> QED BY <1>6 DEF IsFold
<1>8. IsFold(f, T, Fold(f, T))
  <2> HIDE DEF g
  <2> QED BY <1>7, Zenon DEF Fold
<1> QED BY <1>1, <1>8

(* The sum over a finite set: 0, or what is chosen and the sum of the rest. *)
LEMMA SumChosen ==
  ASSUME NEW f, NEW S, IsFiniteSet(S)
  PROVE  SumFunctionOnSet(f, S) =
           IF S = {} THEN 0
           ELSE f[Chosen(S)] + SumFunctionOnSet(f, S \ {Chosen(S)})
<1> DEFINE T == S \ {Chosen(S)}
           F == Fold(f, S)
           G == Fold(f, T)
<1>1. IsFiniteSet(T) /\ T \in SUBSET S /\ T \in SUBSET T /\ S \in SUBSET S
  BY FS_Subset
<1>2. IsFold(f, S, F) /\ IsFold(f, T, G)
  <2> HIDE DEF T
  <2> QED BY <1>1, FoldExists
<1>3. SumFunctionOnSet(f, S) = F[S] /\ SumFunctionOnSet(f, T) = G[T]
  <2> HIDE DEF T
  <2> QED BY SumIsFold
<1>4. F[T] = G[T]
  <2> HIDE DEF T, F, G
  <2> QED BY <1>1, <1>2, FoldsAgree
<1>5. F[S] = IF S = {} THEN 0 ELSE f[Chosen(S)] + F[T]
  <2> HIDE DEF F
  <2> QED BY <1>1, <1>2 DEF IsFold
<1> HIDE DEF T, F, G
<1>6. SumFunctionOnSet(f, S) = IF S = {} THEN 0 ELSE f[Chosen(S)] + SumFunctionOnSet(f, T)
  BY <1>3, <1>4, <1>5
<1> QED BY <1>6 DEF T

(* The sum over no element is 0. *)
THEOREM SumEmpty == ASSUME NEW f PROVE SumFunctionOnSet(f, {}) = 0
BY SumChosen, FS_EmptySet

(* A sum of natural numbers is one. *)
THEOREM SumNat ==
  ASSUME NEW S, IsFiniteSet(S), NEW f, \A x \in S : f[x] \in Nat
  PROVE  SumFunctionOnSet(f, S) \in Nat
<1> DEFINE B == {T \in SUBSET S : SumFunctionOnSet(f, T) \notin Nat}
<1> SUFFICES ASSUME B # {} PROVE FALSE
  OBVIOUS
<1>1. PICK T \in B : \A U \in SUBSET T : U # T => U \notin B
  <2>1. B \in SUBSET SUBSET S
    OBVIOUS
  <2> HIDE DEF B
  <2> QED BY <2>1, Smallest
<1> DEFINE U == T \ {Chosen(T)}
<1>2. IsFiniteSet(T) /\ T \in SUBSET S
  BY FS_Subset
<1>3. SumFunctionOnSet(f, T) = IF T = {} THEN 0 ELSE f[Chosen(T)] + SumFunctionOnSet(f, U)
  BY <1>2, SumChosen
<1>4. SumFunctionOnSet(f, T) \notin Nat
  OBVIOUS
<1>5. T # {} /\ Chosen(T) \in T
  BY <1>3, <1>4, ChosenIsIn
<1>6. SumFunctionOnSet(f, U) \in Nat
  BY <1>1, <1>5
<1> HIDE DEF U, B
<1> QED BY <1>2, <1>3, <1>4, <1>5, <1>6

(* Any element can be taken out of a sum. *)
THEOREM SumWithout ==
  ASSUME NEW S, IsFiniteSet(S), NEW f, \A x \in S : f[x] \in Nat, NEW a \in S
  PROVE  SumFunctionOnSet(f, S) = f[a] + SumFunctionOnSet(f, S \ {a})
<1> DEFINE Splits(T) == \A x \in T : SumFunctionOnSet(f, T) = f[x] + SumFunctionOnSet(f, T \ {x})
           B == {T \in SUBSET S : ~Splits(T)}
<1> SUFFICES ASSUME B # {} PROVE FALSE
  OBVIOUS
<1>1. PICK T \in B : \A U \in SUBSET T : U # T => U \notin B
  <2>1. B \in SUBSET SUBSET S
    OBVIOUS
  <2> HIDE DEF B
  <2> QED BY <2>1, Smallest
<1>2. T \in SUBSET S /\ \A U \in SUBSET T : IsFiniteSet(U) /\ SumFunctionOnSet(f, U) \in Nat
  <2>1. \A U \in SUBSET T : IsFiniteSet(U) /\ \A x \in U : f[x] \in Nat
    BY FS_Subset
  <2> QED BY <2>1, SumNat
<1>3. \A U \in SUBSET T : U # T => Splits(U)
  BY <1>1
<1>4. PICK x \in T : SumFunctionOnSet(f, T) # f[x] + SumFunctionOnSet(f, T \ {x})
  OBVIOUS
<1> DEFINE y == Chosen(T)
<1>5. y \in T /\ SumFunctionOnSet(f, T) = f[y] + SumFunctionOnSet(f, T \ {y})
  BY <1>2, SumChosen, ChosenIsIn
<1> HIDE DEF y, B
<1>6. x # y
  BY <1>4, <1>5
<1>7. Splits(T \ {x}) /\ Splits(T \ {y})
  <2>1. T \ {x} # T /\ T \ {y} # T
    BY <1>5
  <2> HIDE DEF Splits
  <2> QED BY <1>3, <2>1
<1>8. /\ SumFunctionOnSet(f, T \ {x}) = f[y] + SumFunctionOnSet(f, (T \ {x}) \ {y})
      /\ SumFunctionOnSet(f, T \ {y}) = f[x] + SumFunctionOnSet(f, (T \ {y}) \ {x})
  BY <1>5, <1>6, <1>7
<1>9. (T \ {x}) \ {y} = (T \ {y}) \ {x}
  OBVIOUS
<1>10. SumFunctionOnSet(f, (T \ {x}) \ {y}) \in Nat /\ f[x] \in Nat /\ f[y] \in Nat
  BY <1>2, <1>5
<1> DEFINE rest == SumFunctionOnSet(f, (T \ {x}) \ {y})
           withX == SumFunctionOnSet(f, T \ {y})
           withY == SumFunctionOnSet(f, T \ {x})
           all == SumFunctionOnSet(f, T)
<1>11. /\ withY = f[y] + rest /\ withX = f[x] + rest /\ all = f[y] + withX /\ all # f[x] + withY
       /\ rest \in Nat
  BY <1>4, <1>5, <1>8, <1>9, <1>10
<1> HIDE DEF rest, withX, withY, all
<1> QED BY <1>10, <1>11

(* Any element can be added to a sum. *)
THEOREM SumWith ==
  ASSUME NEW S, IsFiniteSet(S), NEW f, \A x \in S : f[x] \in Nat, NEW a, a \notin S, f[a] \in Nat
  PROVE  SumFunctionOnSet(f, S \union {a}) = f[a] + SumFunctionOnSet(f, S)
<1> DEFINE T == S \union {a}
<1>1. IsFiniteSet(T) /\ a \in T /\ T \ {a} = S /\ \A x \in T : f[x] \in Nat
  BY FS_AddElement
<1> HIDE DEF T
<1>2. SumFunctionOnSet(f, T) = f[a] + SumFunctionOnSet(f, T \ {a})
  BY <1>1, SumWithout
<1> QED BY <1>1, <1>2 DEF T

(* Two functions that agree on a set have the same sum over it. *)
THEOREM SumSame ==
  ASSUME NEW S, IsFiniteSet(S), NEW f, NEW g, \A x \in S : f[x] = g[x]
  PROVE  SumFunctionOnSet(f, S) = SumFunctionOnSet(g, S)
<1> DEFINE B == {T \in SUBSET S : SumFunctionOnSet(f, T) # SumFunctionOnSet(g, T)}
<1> SUFFICES ASSUME B # {} PROVE FALSE
  OBVIOUS
<1>1. PICK T \in B : \A U \in SUBSET T : U # T => U \notin B
  <2>1. B \in SUBSET SUBSET S
    OBVIOUS
  <2> HIDE DEF B
  <2> QED BY <2>1, Smallest
<1> DEFINE U == T \ {Chosen(T)}
<1>2. IsFiniteSet(T) /\ T \in SUBSET S
  BY FS_Subset
<1>3. /\ SumFunctionOnSet(f, T) = IF T = {} THEN 0 ELSE f[Chosen(T)] + SumFunctionOnSet(f, U)
      /\ SumFunctionOnSet(g, T) = IF T = {} THEN 0 ELSE g[Chosen(T)] + SumFunctionOnSet(g, U)
  BY <1>2, SumChosen
<1>4. SumFunctionOnSet(f, T) # SumFunctionOnSet(g, T)
  OBVIOUS
<1>5. T # {} /\ Chosen(T) \in T
  BY <1>3, <1>4, ChosenIsIn
<1>6. SumFunctionOnSet(f, U) = SumFunctionOnSet(g, U)
  BY <1>1, <1>5
<1> HIDE DEF U, B
<1> QED BY <1>2, <1>3, <1>4, <1>5, <1>6

(* A sum over fewer elements is no greater. *)
THEOREM SumSubset ==
  ASSUME NEW S, IsFiniteSet(S), NEW f, \A x \in S : f[x] \in Nat, NEW R \in SUBSET S
  PROVE  SumFunctionOnSet(f, R) <= SumFunctionOnSet(f, S)
<1> DEFINE B == {T \in SUBSET S : R \subseteq T /\ ~(SumFunctionOnSet(f, R) <= SumFunctionOnSet(f, T))}
<1> SUFFICES ASSUME B # {} PROVE FALSE
  OBVIOUS
<1>1. PICK T \in B : \A U \in SUBSET T : U # T => U \notin B
  <2>1. B \in SUBSET SUBSET S
    OBVIOUS
  <2> HIDE DEF B
  <2> QED BY <2>1, Smallest
<1>2. \A U \in SUBSET S : SumFunctionOnSet(f, U) \in Nat /\ IsFiniteSet(U)
  BY FS_Subset, SumNat
<1>3. R \subseteq T /\ T \in SUBSET S /\ ~(SumFunctionOnSet(f, R) <= SumFunctionOnSet(f, T))
  OBVIOUS
<1>4. PICK x \in T : x \notin R
  <2> HIDE DEF B
  <2> QED BY <1>2, <1>3
<1>5. SumFunctionOnSet(f, R) <= SumFunctionOnSet(f, T \ {x})
  BY <1>1, <1>3, <1>4
<1> HIDE DEF B
<1>6. SumFunctionOnSet(f, T) = f[x] + SumFunctionOnSet(f, T \ {x})
  BY <1>2, <1>3, <1>4, SumWithout
<1>7. /\ f[x] \in Nat /\ SumFunctionOnSet(f, T \ {x}) \in Nat
      /\ SumFunctionOnSet(f, R) \in Nat /\ SumFunctionOnSet(f, T) \in Nat
  <2>1. x \in S /\ T \ {x} \in SUBSET S
    BY <1>3
  <2> QED BY <1>2, <1>3, <2>1
<1> QED BY <1>3, <1>5, <1>6, <1>7
=============================================================================
