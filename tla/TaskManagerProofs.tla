--------------------------- MODULE TaskManagerProofs ---------------------------
(***************************************************************************)
(* What holds of every configuration of TaskManager: of its keys, its      *)
(* holds, its records, and of the budget guard under it; and of the guard  *)
(* over the in-memory ledger, under any callers (BudgetFlows).             *)
(*                                                                         *)
(* The guard's totals are sums over all requests.  A first part proves     *)
(* what sums over a finite set obey; it goes by induction on the subsets   *)
(* of the set, with the property given as a set.                           *)
(***************************************************************************)
EXTENDS TaskManager, BudgetFlows, FiniteSetTheorems, WellFoundedInduction, TLAPS

-----------------------------------------------------------------------------
(* Sums *)

(* Induction on the subsets of a finite set, with the property as a set.     *)
LEMMA SubsetInduction ==
    ASSUME NEW S, IsFiniteSet(S), NEW P,
           \A T \in SUBSET S : (\A U \in SUBSET T : U # T => U \in P) => T \in P
    PROVE  \A T \in SUBSET S : T \in P
<1> DEFINE Bad == {T \in SUBSET S : T \notin P}
<1>1. SUFFICES ASSUME Bad # {} PROVE FALSE OBVIOUS
<1>2. IsWellFoundedOn(StrictSubsetOrdering(S), SUBSET S)
  BY FS_StrictSubsetOrderingWellFounded, FS_FiniteSubsetsOfFinite
<1>3. PICK T \in Bad : \A U \in Bad : ~ (<<U, T>> \in StrictSubsetOrdering(S))
  <2>1. Bad \subseteq SUBSET S OBVIOUS
  <2> HIDE DEF Bad
  <2> QED BY <1>1, <1>2, <2>1, WFMin
<1>4. \A U \in SUBSET T : U # T => U \in P
  BY <1>3 DEF StrictSubsetOrdering
<1> QED BY <1>3, <1>4

\* The member that a fold takes first.
Least(s) == CHOOSE x \in s : TRUE
\* One unfolding of the sum of g over s.
Unfolded(g, f, s) == IF s = {} THEN 0 ELSE g[Least(s)] + f[s \ {Least(s)}]

\* f is the fold of g over the subsets of S.
IsFold(g, f, S) == f = [s \in SUBSET S |-> Unfolded(g, f, s)]

(* The sum of the library is the value of a fold.                           *)
LEMMA SumIs ==
    ASSUME NEW g, NEW S
    PROVE  SumFunctionOnSet(g, S) = (CHOOSE f : IsFold(g, f, S))[S]
BY DEF SumFunctionOnSet, FoldFunctionOnSet, MapThenFoldSet, IsFold, Unfolded, Least


(* Two foldings of one set agree.                                            *)
LEMMA FoldUnique ==
    ASSUME NEW g, NEW S, IsFiniteSet(S), NEW f, NEW e, NEW U, U \in SUBSET S,
           NEW R, U \in SUBSET R, IsFold(g, f, S), IsFold(g, e, R)
    PROVE  f[U] = e[U]
<1> DEFINE P == {T \in SUBSET U : f[T] = e[T]}
<1>1. IsFiniteSet(U) BY FS_Subset
<1>2. ASSUME NEW T \in SUBSET U, \A V \in SUBSET T : V # T => V \in P
      PROVE  T \in P
  <2>1. f[T] = Unfolded(g, f, T) /\ e[T] = Unfolded(g, e, T) BY DEF IsFold
  <2>2. T # {} => Least(T) \in T BY DEF Least
  <2>3. T # {} => T \ {Least(T)} \in P BY <1>2, <2>2
  <2>4. T # {} => f[T \ {Least(T)}] = e[T \ {Least(T)}] BY <2>3
  <2> QED BY <2>1, <2>4 DEF Unfolded
<1>3. \A T \in SUBSET U : T \in P
  <2> HIDE DEF P
  <2> QED BY <1>1, <1>2, SubsetInduction
<1> QED BY <1>3

(* Every finite set can be folded.                                           *)
LEMMA FoldExists ==
    ASSUME NEW g, NEW S, IsFiniteSet(S)
    PROVE  \E f : IsFold(g, f, S)
<1> DEFINE Good(T) == \E f : IsFold(g, f, T)
           P == {T \in SUBSET S : Good(T)}
           F(T) == CHOOSE f : IsFold(g, f, T)
<1>1. ASSUME NEW T \in SUBSET S, \A V \in SUBSET T : V # T => V \in P
      PROVE  T \in P
  <2>1. \A V \in SUBSET T : V # T => IsFold(g, F(V), V) /\ IsFiniteSet(V)
    BY <1>1, FS_Subset
  <2> HIDE DEF F
  <2> DEFINE v == [V \in SUBSET T |-> F(V)[V]]
             f == [V \in SUBSET T |-> Unfolded(g, v, V)]
  <2>2. ASSUME NEW V \in SUBSET T, V # T PROVE f[V] = v[V]
    <3>1. F(V)[V] = Unfolded(g, F(V), V) BY <2>1, <2>2 DEF IsFold
    <3>2. CASE V = {} BY <3>1, <3>2 DEF Unfolded
    <3>3. CASE V # {}
      <4> DEFINE W == V \ {Least(V)}
      <4>1. Least(V) \in V BY <3>3 DEF Least
      <4>2. W \in SUBSET V /\ W \in SUBSET T /\ W # T /\ W \in SUBSET W BY <4>1
      <4>3. F(V)[W] = F(W)[W] BY <2>1, <2>2, <4>2, FoldUnique
      <4> QED BY <3>1, <3>3, <4>2, <4>3 DEF Unfolded
    <3> QED BY <3>2, <3>3
  <2>3. ASSUME NEW V \in SUBSET T PROVE Unfolded(g, v, V) = Unfolded(g, f, V)
    <3>1. CASE V = {} BY <3>1 DEF Unfolded
    <3>2. CASE V # {}
      <4>1. V \ {Least(V)} \in SUBSET T /\ V \ {Least(V)} # T BY <3>2 DEF Least
      <4>2. f[V \ {Least(V)}] = v[V \ {Least(V)}] BY <4>1, <2>2
      <4> HIDE DEF f, v
      <4> QED BY <3>2, <4>2 DEF Unfolded
    <3> QED BY <3>1, <3>2
  <2>4. f = [V \in SUBSET T |-> Unfolded(g, f, V)]
    <3>1. f = [V \in SUBSET T |-> Unfolded(g, v, V)] OBVIOUS
    <3> HIDE DEF f, v
    <3> QED BY <2>3, <3>1
  <2>5. IsFold(g, f, T) BY <2>4 DEF IsFold
  <2>6. Good(T)
    <3> HIDE DEF f
    <3> QED BY <2>5
  <2> QED BY <2>6
<1>2. \A T \in SUBSET S : T \in P
  <2> HIDE DEF P
  <2> QED BY <1>1, SubsetInduction
<1>3. S \in P BY <1>2
<1> QED BY <1>3

(* What the sum of g over a finite set is: nothing, or the value at some     *)
(* member and the sum over the others.                                       *)
LEMMA SumUnfolds ==
    ASSUME NEW g, NEW S, IsFiniteSet(S)
    PROVE  /\ S = {} => SumFunctionOnSet(g, S) = 0
           /\ S # {} => \E x \in S :
                 SumFunctionOnSet(g, S) = g[x] + SumFunctionOnSet(g, S \ {x})
<1> DEFINE F(T) == CHOOSE f : IsFold(g, f, T)
<1>1. \A T \in SUBSET S : IsFiniteSet(T) /\ IsFold(g, F(T), T)
  BY FS_Subset, FoldExists
<1>2. \A T : SumFunctionOnSet(g, T) = F(T)[T] BY SumIs
<1> HIDE DEF F
<1>3. F(S)[S] = Unfolded(g, F(S), S) BY <1>1 DEF IsFold
<1>4. CASE S # {}
  <2> DEFINE W == S \ {Least(S)}
  <2>1. Least(S) \in S BY <1>4 DEF Least
  <2>2. F(S)[W] = F(W)[W]
    <3>1. W \in SUBSET S /\ W \in SUBSET W OBVIOUS
    <3> HIDE DEF W
    <3> QED BY <1>1, <3>1, FoldUnique
  <2> QED BY <1>2, <1>3, <1>4, <2>1, <2>2 DEF Unfolded
<1> QED BY <1>2, <1>3, <1>4 DEF Unfolded

\* The sum of g over S, for a g of integers there.
SumOf(g, S) == SumFunctionOnSet(g, S)
Whole(g, S) == \A x \in S : g[x] \in Int

(* It is an integer,                                                         *)
LEMMA SumWhole ==
    ASSUME NEW g, NEW S, IsFiniteSet(S), Whole(g, S)
    PROVE  SumOf(g, S) \in Int
<1> DEFINE P == {T \in SUBSET S : SumOf(g, T) \in Int}
<1>1. ASSUME NEW T \in SUBSET S, \A V \in SUBSET T : V # T => V \in P
      PROVE  T \in P
  <2>1. CASE T = {} BY <2>1, SumUnfolds, FS_EmptySet DEF SumOf
  <2>2. CASE T # {}
    <3>1. PICK x \in T : SumOf(g, T) = g[x] + SumOf(g, T \ {x})
      BY <2>2, FS_Subset, SumUnfolds DEF SumOf
    <3>2. SumOf(g, T \ {x}) \in Int BY <1>1
    <3>3. g[x] \in Int BY DEF Whole
    <3> QED BY <3>1, <3>2, <3>3
  <2> QED BY <2>1, <2>2
<1>2. \A T \in SUBSET S : T \in P
  <2> HIDE DEF P
  <2> QED BY <1>1, SubsetInduction
<1>3. S \in P BY <1>2
<1> QED BY <1>3

(* from which any member may be taken out first;                             *)
LEMMA SumPick ==
    ASSUME NEW g, NEW S, IsFiniteSet(S), Whole(g, S), NEW y \in S
    PROVE  SumOf(g, S) = g[y] + SumOf(g, S \ {y})
<1> DEFINE P == {T \in SUBSET S : \A z \in T : SumOf(g, T) = g[z] + SumOf(g, T \ {z})}
<1>0. \A T \in SUBSET S : SumOf(g, T) \in Int BY FS_Subset, SumWhole DEF Whole
<1>1. ASSUME NEW T \in SUBSET S, \A V \in SUBSET T : V # T => V \in P
      PROVE  T \in P
  <2>1. SUFFICES ASSUME NEW z \in T PROVE SumOf(g, T) = g[z] + SumOf(g, T \ {z})
    OBVIOUS
  <2>2. PICK x \in T : SumOf(g, T) = g[x] + SumOf(g, T \ {x})
    BY FS_Subset, SumUnfolds DEF SumOf
  <2>3. CASE x # z
    <3>1. T \ {x} \in P /\ T \ {z} \in P BY <1>1
    <3>2. SumOf(g, T \ {x}) = g[z] + SumOf(g, (T \ {x}) \ {z}) BY <3>1, <2>3
    <3>3. SumOf(g, T \ {z}) = g[x] + SumOf(g, (T \ {z}) \ {x}) BY <3>1, <2>3
    <3>4. (T \ {x}) \ {z} = (T \ {z}) \ {x} OBVIOUS
    <3>5. g[x] \in Int /\ g[z] \in Int /\ SumOf(g, (T \ {x}) \ {z}) \in Int
      BY <1>0 DEF Whole
    <3>6. PICK a \in Int, b \in Int, c \in Int :
                a = g[x] /\ b = g[z] /\ c = SumOf(g, (T \ {x}) \ {z})
      BY <3>5
    <3>7. SumOf(g, T \ {x}) = b + c /\ SumOf(g, T \ {z}) = a + c
      BY <3>2, <3>3, <3>4, <3>6
    <3> QED BY <2>2, <3>6, <3>7
  <2> QED BY <2>2, <2>3
<1>2. \A T \in SUBSET S : T \in P
  <2> HIDE DEF P
  <2> QED BY <1>1, SubsetInduction
<1>3. S \in P BY <1>2
<1> QED BY <1>3

(* it grows with g,                                                          *)
LEMMA SumBelow ==
    ASSUME NEW g, NEW e, NEW S, IsFiniteSet(S), Whole(g, S), Whole(e, S),
           \A x \in S : g[x] <= e[x]
    PROVE  SumOf(g, S) <= SumOf(e, S)
<1> DEFINE P == {T \in SUBSET S : SumOf(g, T) <= SumOf(e, T)}
<1>0. \A T \in SUBSET S : SumOf(g, T) \in Int /\ SumOf(e, T) \in Int
  BY FS_Subset, SumWhole DEF Whole
<1>1. ASSUME NEW T \in SUBSET S, \A V \in SUBSET T : V # T => V \in P
      PROVE  T \in P
  <2>0. IsFiniteSet(T) /\ Whole(g, T) /\ Whole(e, T) BY FS_Subset DEF Whole
  <2>1. CASE T = {} BY <2>0, <2>1, SumUnfolds DEF SumOf
  <2>2. CASE T # {}
    <3>1. PICK x \in T : SumOf(g, T) = g[x] + SumOf(g, T \ {x})
      BY <2>0, <2>2, SumUnfolds DEF SumOf
    <3>2. SumOf(e, T) = e[x] + SumOf(e, T \ {x}) BY <2>0, SumPick
    <3>3. SumOf(g, T \ {x}) <= SumOf(e, T \ {x}) BY <1>1
    <3>4. /\ g[x] \in Int /\ e[x] \in Int /\ g[x] <= e[x]
          /\ SumOf(g, T \ {x}) \in Int /\ SumOf(e, T \ {x}) \in Int
      BY <1>0 DEF Whole
    <3> QED BY <3>1, <3>2, <3>3, <3>4
  <2> QED BY <2>1, <2>2
<1>2. \A T \in SUBSET S : T \in P
  <2> HIDE DEF P
  <2> QED BY <1>1, SubsetInduction
<1>3. S \in P BY <1>2
<1> QED BY <1>3

(* depends on g in S alone,                                                  *)
LEMMA SumSame ==
    ASSUME NEW g, NEW e, NEW S, IsFiniteSet(S), Whole(g, S), \A x \in S : g[x] = e[x]
    PROVE  SumOf(g, S) = SumOf(e, S)
<1>1. Whole(e, S) BY DEF Whole
<1>2. \A x \in S : g[x] <= e[x] /\ e[x] <= g[x] BY DEF Whole
<1>3. SumOf(g, S) <= SumOf(e, S) /\ SumOf(e, S) <= SumOf(g, S) BY <1>1, <1>2, SumBelow
<1>4. SumOf(g, S) \in Int /\ SumOf(e, S) \in Int BY <1>1, SumWhole
<1> QED BY <1>3, <1>4

(* moves as g moves at one member,                                           *)
LEMMA SumChange ==
    ASSUME NEW g, NEW e, NEW S, IsFiniteSet(S), Whole(g, S), Whole(e, S), NEW y \in S,
           \A x \in S : x # y => g[x] = e[x]
    PROVE  SumOf(e, S) = SumOf(g, S) - g[y] + e[y]
<1>1. IsFiniteSet(S \ {y}) /\ Whole(g, S \ {y}) BY FS_Subset DEF Whole
<1>2. SumOf(g, S \ {y}) = SumOf(e, S \ {y}) BY <1>1, SumSame
<1>3. SumOf(g, S) = g[y] + SumOf(g, S \ {y}) /\ SumOf(e, S) = e[y] + SumOf(e, S \ {y})
  BY SumPick
<1>4. g[y] \in Int /\ e[y] \in Int /\ SumOf(g, S \ {y}) \in Int
  BY <1>1, SumWhole DEF Whole
<1>5. PICK a \in Int, b \in Int, c \in Int :
          a = g[y] /\ b = e[y] /\ c = SumOf(g, S \ {y})
  BY <1>4
<1>6. SumOf(g, S) = a + c /\ SumOf(e, S) = b + c BY <1>2, <1>3, <1>5
<1>7. SumOf(g, S) - g[y] + e[y] = (a + c) - a + b BY <1>5, <1>6
<1>8. (a + c) - a + b = b + c OBVIOUS
<1> QED BY <1>6, <1>7, <1>8

(* and over a part of S is that of g cut to the part.                        *)
LEMMA SumFilter ==
    ASSUME NEW g, NEW S, IsFiniteSet(S), Whole(g, S), NEW U \in SUBSET S
    PROVE  SumOf(g, U) = SumOf([x \in S |-> IF x \in U THEN g[x] ELSE 0], S)
<1> DEFINE e == [x \in S |-> IF x \in U THEN g[x] ELSE 0]
           P == {T \in SUBSET S : SumOf(g, T \cap U) = SumOf(e, T)}
<1>0. /\ \A x \in S : e[x] = IF x \in U THEN g[x] ELSE 0
      /\ \A T \in SUBSET S : IsFiniteSet(T) /\ Whole(g, T) /\ Whole(e, T)
                             /\ Whole(g, T \cap U) /\ IsFiniteSet(T \cap U)
  BY FS_Subset DEF Whole
<1> HIDE DEF e
<1>1. ASSUME NEW T \in SUBSET S, \A V \in SUBSET T : V # T => V \in P
      PROVE  T \in P
  <2>1. CASE T = {}
    <3>1. T \cap U = {} BY <2>1
    <3> QED BY <1>0, <2>1, <3>1, SumUnfolds DEF SumOf
  <2>2. CASE T # {}
    <3>1. PICK x \in T : SumOf(e, T) = e[x] + SumOf(e, T \ {x})
      BY <1>0, <2>2, SumUnfolds DEF SumOf
    <3>2. SumOf(g, (T \ {x}) \cap U) = SumOf(e, T \ {x}) BY <1>1
    <3>3. SumOf(e, T \ {x}) \in Int BY <1>0, SumWhole
    <3>4. CASE x \in U
      <4>1. SumOf(g, T \cap U) = g[x] + SumOf(g, (T \cap U) \ {x})
        BY <1>0, <3>4, SumPick
      <4>2. (T \cap U) \ {x} = (T \ {x}) \cap U OBVIOUS
      <4> QED BY <1>0, <3>1, <3>2, <3>4, <4>1, <4>2
    <3>5. CASE x \notin U
      <4>1. T \cap U = (T \ {x}) \cap U BY <3>5
      <4>2. e[x] = 0 BY <1>0, <3>5
      <4>3. SumOf(e, T) = SumOf(e, T \ {x}) BY <3>1, <3>3, <4>2
      <4>4. SumOf(g, T \cap U) = SumOf(e, T) BY <3>2, <4>1, <4>3
      <4> QED BY <4>4
    <3> QED BY <3>4, <3>5
  <2> QED BY <2>1, <2>2
<1>2. \A T \in SUBSET S : T \in P
  <2> HIDE DEF P
  <2> QED BY <1>1, SubsetInduction
<1>3. S \in P BY <1>2
<1>4. S \cap U = U OBVIOUS
<1>5. SumOf(g, U) = SumOf(e, S) BY <1>3, <1>4
<1> QED BY <1>5 DEF e

(* The sum of two functions is the sum of their sums.                        *)
LEMMA SumPlus ==
    ASSUME NEW g, NEW e, NEW S, IsFiniteSet(S), Whole(g, S), Whole(e, S)
    PROVE  SumOf([x \in S |-> g[x] + e[x]], S) = SumOf(g, S) + SumOf(e, S)
<1> DEFINE b == [x \in S |-> g[x] + e[x]]
           P == {T \in SUBSET S : SumOf(b, T) = SumOf(g, T) + SumOf(e, T)}
<1>0. /\ \A x \in S : b[x] = g[x] + e[x] /\ g[x] \in Int /\ e[x] \in Int
      /\ \A T \in SUBSET S : IsFiniteSet(T) /\ Whole(g, T) /\ Whole(e, T)
                             /\ SumOf(g, T) \in Int /\ SumOf(e, T) \in Int
  BY FS_Subset, SumWhole DEF Whole
<1> HIDE DEF b
<1>1. ASSUME NEW T \in SUBSET S, \A V \in SUBSET T : V # T => V \in P
      PROVE  T \in P
  <2>1. CASE T = {}
    <3>1. SumOf(b, T) = 0 /\ SumOf(g, T) = 0 /\ SumOf(e, T) = 0
      BY <1>0, <2>1, SumUnfolds DEF SumOf
    <3> QED BY <3>1
  <2>2. CASE T # {}
    <3>1. PICK x \in T : SumOf(b, T) = b[x] + SumOf(b, T \ {x})
      BY <1>0, <2>2, SumUnfolds DEF SumOf
    <3>2. SumOf(b, T \ {x}) = SumOf(g, T \ {x}) + SumOf(e, T \ {x}) BY <1>1
    <3>3. /\ SumOf(g, T) = g[x] + SumOf(g, T \ {x})
          /\ SumOf(e, T) = e[x] + SumOf(e, T \ {x})
      BY <1>0, SumPick
    <3>4. PICK i \in Int, j \in Int, k \in Int, l \in Int :
              i = g[x] /\ j = e[x] /\ k = SumOf(g, T \ {x}) /\ l = SumOf(e, T \ {x})
      BY <1>0
    <3>5. SumOf(b, T) = (i + j) + (k + l) BY <1>0, <3>1, <3>2, <3>4
    <3>6. SumOf(g, T) = i + k /\ SumOf(e, T) = j + l BY <3>3, <3>4
    <3>7. SumOf(b, T) = SumOf(g, T) + SumOf(e, T) BY <3>5, <3>6
    <3> QED BY <3>7
  <2> QED BY <2>1, <2>2
<1>2. \A T \in SUBSET S : T \in P
  <2> HIDE DEF P
  <2> QED BY <1>1, SubsetInduction
<1>3. S \in P BY <1>2
<1> QED BY <1>3 DEF b

(* With nothing negative, the sum is not, and is no less than any term.      *)
LEMMA SumAtLeast ==
    ASSUME NEW g, NEW S, IsFiniteSet(S), \A x \in S : g[x] \in Nat
    PROVE  /\ SumOf(g, S) \in Nat
           /\ \A y \in S : g[y] <= SumOf(g, S)
<1> DEFINE zero == [x \in S |-> 0]
           one(y) == [x \in S |-> IF x = y THEN g[y] ELSE 0]
<1>1. Whole(g, S) /\ Whole(zero, S) /\ \A x \in S : zero[x] <= g[x] BY DEF Whole
<1>2. SumOf(zero, S) = SumOf(zero, S) + SumOf(zero, S)
  <2> DEFINE twice == [x \in S |-> zero[x] + zero[x]]
  <2>1. SumOf(twice, S) = SumOf(zero, S) + SumOf(zero, S) BY <1>1, SumPlus
  <2>2. twice = zero OBVIOUS
  <2> HIDE DEF twice, zero
  <2> QED BY <2>1, <2>2
<1>3. SumOf(zero, S) = 0
  <2>1. PICK n \in Int : n = SumOf(zero, S) BY <1>1, SumWhole
  <2> HIDE DEF zero
  <2>2. n = n + n BY <1>2, <2>1
  <2>3. n = 0 BY <2>2
  <2> QED BY <2>1, <2>3
<1>4. SumOf(g, S) \in Int BY <1>1, SumWhole
<1>5. 0 <= SumOf(g, S)
  <2>1. SumOf(zero, S) <= SumOf(g, S) BY <1>1, SumBelow
  <2> HIDE DEF zero
  <2> QED BY <1>3, <2>1
<1>6. ASSUME NEW y \in S PROVE g[y] <= SumOf(g, S)
  <2>1. /\ Whole(one(y), S) /\ one(y)[y] = g[y] /\ \A x \in S : one(y)[x] <= g[x]
        /\ \A x \in S : x # y => zero[x] = one(y)[x]
        /\ zero[y] = 0 /\ g[y] \in Int
    BY DEF Whole
  <2> HIDE DEF one, zero
  <2>2. SumOf(one(y), S) = SumOf(zero, S) - zero[y] + one(y)[y] BY <1>1, <2>1, SumChange
  <2>3. SumOf(one(y), S) = g[y] BY <1>3, <2>1, <2>2
  <2>4. SumOf(one(y), S) <= SumOf(g, S) BY <1>1, <2>1, SumBelow
  <2> QED BY <2>3, <2>4
<1> QED BY <1>4, <1>5, <1>6

-----------------------------------------------------------------------------
(* The inductive invariant *)

Records == [rev : 0..2, status : {"missing", "none", "processing", "ready", "failed"}]
TaskClaims == [owner : Requests \cup {NoTask}, expires : Nat]
Holds == [state : HoldState, client : Clients, est : Nat]

\* The types, by who writes the variables.
RequestTypes ==
    /\ pc \in [Requests -> RequestPC]
    /\ answer \in [Requests -> Requests \cup Rejections]
TableTypes ==
    /\ table \subseteq Requests /\ cancelled \subseteq Requests
    /\ idem \in [Workers -> [Keys -> Requests \cup {NoTask}]]
    /\ status \in [Requests -> {"none", "processing", "ready", "failed"}]
    /\ born \in [Requests -> 0..MaxClock]
    /\ runner \in [Requests -> RunnerPC]
    /\ slot \in [Requests -> Pools]
StoreTypes ==
    /\ deleting \subseteq Requests
    /\ store \in [Requests -> Records]
    /\ claims \in [Keys -> TaskClaims]
ClockTypes ==
    /\ clock \in 0..MaxClock /\ faults \in 0..MaxFaults
    /\ up \in [Workers -> {"up", "stopping", "down"}]
    /\ shape \in [Requests -> Shapes]
TaskTypes == RequestTypes /\ TableTypes /\ StoreTypes /\ ClockTypes

BudgetTypes ==
    /\ hold \in [Requests -> Holds]
    /\ inflightGlobal \in Nat /\ inflightBy \in [Clients -> Nat]
    /\ settledGlobal \in Nat /\ settledBy \in [Clients -> Nat]
    /\ recorded \in [Requests -> Nat]

\* The uuid of a request is a task from _admit on.
Admitted(t) == status[t] # "none"

Before == {"idle", "reserving", "claiming", "reading", "releasing"}

\* Nothing knows of a task before it is admitted, and each was admitted once.
Fresh ==
    \A r \in Requests :
        /\ ~ Admitted(r) <=> runner[r] = "none"
        /\ ~ Admitted(r) => r \notin table \cup cancelled \cup deleting
        /\ pc[r] \in Before => ~ Admitted(r)
        /\ pc[r] \in {"mirror_get", "mirror_set"} => Admitted(r)
        /\ pc[r] \in {"claiming", "reading"} => shape[r].key \in Keys

\* An answer names a task, with a payload that does not contradict the request's.
Answers ==
    \A r \in Requests :
        /\ pc[r] = "idle" => answer[r] = "none"
        /\ answer[r] \in Requests =>
              Admitted(answer[r]) /\ ~ Conflict(shape[r], answer[r])

\* A map entry or a claim is of a task with that key.
Named ==
    /\ \A w \in Workers, k \in Keys : idem[w][k] # NoTask =>
          LET t == idem[w][k] IN Admitted(t) /\ Home(t) = w /\ shape[t].key = k
    /\ \A k \in Keys : claims[k].owner # NoTask => claims[k].owner \in AdmittedFor(k)

\* While the store answers, the last claim of a key stands from its first task on.
ClaimStands ==
    "claim" \notin Outages =>
        /\ \A k \in Keys : AdmittedFor(k) # {} =>
              /\ claims[k].owner # NoTask
              /\ claims[k].expires = born[claims[k].owner] + ClaimTTL
        /\ \A r \in Requests : pc[r] = "reading" => AdmittedFor(shape[r].key) # {}

\* A task leaves the table for good, and is cancelled only then or at shutdown.
Leaves ==
    /\ table \cap deleting = {}
    /\ \A t \in cancelled \cap table : up[Home(t)] # "up"
    /\ \A t \in Requests : Admitted(t) => born[t] <= clock

\* A runner past its settling has no hold, nor has an answered request of no task.
HoldEnds ==
    \A r \in Requests : Open(r) =>
        /\ pc[r] # "idle" /\ (pc[r] = "answered" => Admitted(r))
        /\ runner[r] \notin {"final_get", "final_set", "done"}
        /\ runner[r] = "cut" => (r \notin table \/ up[Home(r)] # "up")

Stored ==
    "write" \notin Outages =>
        \A r \in table : pc[r] = "answered" => store[r] # NoRecord

\* Where the flow of a hold stands.
Flows ==
    \A h \in Requests :
        /\ pc[h] \in {"idle", "reserving"} => recorded[h] = 0
        /\ pc[h] \in {"claiming", "reading"} => hold[h].state \in {"none", "open"}
        /\ hold[h].state = "checking" =>
              pc[h] = "reserving" /\ \A g \in Requests : hold[g].state = "checking" => g = h
        /\ hold[h].state = "none" => hold[h].est = 0
        /\ runner[h] \in {"spawned", "queued", "solving"} => hold[h].state \in {"none", "open"}

\* What a flow weighs: its reservation while that is open, then what it spent.
\* Each of these is a function of the holds H, and of the spend R.
OpenEst(H) == [h \in Requests |-> IF H[h].state = "open" THEN H[h].est ELSE 0]
WeightIn(H, R) == [h \in Requests |-> IF H[h].state = "open" THEN H[h].est ELSE R[h]]
PartOf(c, H, g) == [h \in Requests |-> IF H[h].client = c THEN g[h] ELSE 0]

Weight == WeightIn(hold, recorded)
WeightOf(c) == PartOf(c, hold, Weight)

Within == \A h \in Requests : recorded[h] <= hold[h].est

Capped ==
    Within =>
        /\ SumOf(Weight, Requests) <= GlobalCap
        /\ \A h \in Requests : hold[h].state = "checking" =>
              SumOf(Weight, Requests) + hold[h].est <= GlobalCap
        /\ \A c \in Clients : SumOf(WeightOf(c), Requests) <= ClientCap

Life == Fresh /\ Answers /\ Leaves /\ HoldEnds /\ Stored
Keyed == Named /\ ClaimStands /\ OneTaskPerKey /\ KeyFindsItsTask
Budget == Flows /\ InflightIsOpenHolds /\ Capped
IInv == TaskTypes /\ BudgetTypes /\ Life /\ Keyed /\ Budget

-----------------------------------------------------------------------------
(* Types *)

(* What a request asks for is one of the shapes, and those are well formed.  *)
LEMMA ShapesAreOK ==
    ASSUME TaskTypes, NEW r \in Requests
    PROVE  /\ shape[r] \in Shapes /\ Home(r) \in Workers
           /\ shape[r].client \in Clients
           /\ shape[r].key \in Keys \cup {NoKey}
BY TaskAssumption DEF TaskTypes, ClockTypes, ShapeOK, Home

(* The first state is well typed.                                            *)
LEMMA InitTypes ==
    ASSUME Init
    PROVE  TaskTypes /\ BudgetTypes
<1>1. NoShape \in Shapes BY TaskAssumption DEF NoShape
<1>2. (CHOOSE p \in Pools : TRUE) \in Pools BY TaskAssumption
<1>3. (CHOOSE c \in Clients : TRUE) \in Clients BY CapsAssumption
<1>4. NoRecord \in Records BY DEF NoRecord, Records
<1>5. NoClaim \in TaskClaims BY DEF NoClaim, TaskClaims
<1>6. MaxClock \in Nat /\ MaxFaults \in Nat BY TaskAssumption
<1>7. TaskTypes
  BY <1>1, <1>2, <1>4, <1>5, <1>6
  DEF Init, TaskTypes, RequestTypes, TableTypes, StoreTypes, ClockTypes, RequestPC, RunnerPC,
      Rejections
<1>8. BudgetTypes BY <1>3 DEF Init, BudgetInit, BudgetTypes, Holds, HoldState
<1> QED BY <1>7, <1>8

(* A failed call is counted within its bound.                                *)
LEMMA FailsTyped ==
    ASSUME faults \in 0..MaxFaults, NEW b, Fails(b)
    PROVE  faults' \in 0..MaxFaults
BY TaskAssumption DEF Fails

(* Registering a task keeps the types of what _admit touches.                *)
LEMMA AdmitTyped ==
    ASSUME TaskTypes, NEW r \in Requests, Admit(r)
    PROVE  RequestTypes' /\ TableTypes'
<1>1. Home(r) \in Workers /\ shape[r].key \in Keys \cup {NoKey} BY ShapesAreOK
<1>2. idem' \in [Workers -> [Keys -> Requests \cup {NoTask}]]
  BY <1>1 DEF TaskTypes, TableTypes, Admit
<1> QED BY <1>1, <1>2 DEF TaskTypes, RequestTypes, TableTypes, ClockTypes, Admit, Goto, RequestPC, RunnerPC

(* ... and so does going on after the reservation.                           *)
LEMMA ProceedTyped ==
    ASSUME TaskTypes, NEW r \in Requests, Proceed(r)
    PROVE  /\ RequestTypes' /\ TableTypes'
           /\ UNCHANGED <<shape, claims>>
<1>1. CASE Admit(r) /\ UNCHANGED <<shape, claims>> BY <1>1, AdmitTyped
<1>2. CASE Goto(r, "claiming") /\ UNCHANGED <<shape, taskVars, claims>>
  BY <1>2 DEF TaskTypes, RequestTypes, TableTypes, Goto, RequestPC, taskVars
<1> QED BY <1>1, <1>2 DEF Proceed

(* Every step of a request keeps the types.                                  *)
LEMMA RequestTyped ==
    ASSUME TaskTypes, Fresh, NEW r \in Requests,
           RequestStep(r) \/ DeleteRecord(r) \/ \E s \in Shapes : Submit(r, s)
    PROVE  TaskTypes'
<1> USE DEF vars, taskVars, redisVars, TaskTypes
<1>t. RequestTypes /\ TableTypes /\ StoreTypes /\ ClockTypes BY DEF TaskTypes
<1>s. Home(r) \in Workers /\ shape[r].key \in Keys \cup {NoKey} BY ShapesAreOK
<1>1. CASE ReserveBudget(r)
  <2>1. UNCHANGED <<clock, faults, up, deleting, store>> BY <1>1 DEF ReserveBudget
  <2>2. CASE UNCHANGED <<shape, pc, answer, taskVars, claims>>
    BY <1>t, <2>1, <2>2 DEF RequestTypes, TableTypes, StoreTypes, ClockTypes
  <2>3. CASE Answer(r, "overbudget") /\ UNCHANGED <<shape, taskVars, claims>>
    <3>1. RequestTypes' BY <1>t, <2>3 DEF RequestTypes, Answer, RequestPC, Rejections
    <3> QED BY <1>t, <2>1, <2>3, <3>1 DEF TableTypes, StoreTypes, ClockTypes
  <2>4. CASE Proceed(r)
    <3>1. RequestTypes' /\ TableTypes' /\ UNCHANGED <<shape, claims>> BY <2>4, ProceedTyped
    <3> QED BY <1>t, <2>1, <3>1 DEF StoreTypes, ClockTypes
  <2> QED BY <1>1, <2>2, <2>3, <2>4 DEF ReserveBudget
<1>2. CASE ReserveFails(r)
  <2>1. UNCHANGED <<clock, up, deleting, store>> /\ Fails("budget") /\ Proceed(r)
    BY <1>2 DEF ReserveFails
  <2>2. RequestTypes' /\ TableTypes' /\ UNCHANGED <<shape, claims>> BY <2>1, ProceedTyped
  <2>3. faults' \in 0..MaxFaults BY <1>t, <2>1, FailsTyped DEF ClockTypes
  <2> QED BY <1>t, <2>1, <2>2, <2>3 DEF StoreTypes, ClockTypes
<1>3. CASE ClaimKey(r)
  <2>0. UNCHANGED <<clock, faults, up, shape, deleting, store>> BY <1>3 DEF ClaimKey
  <2>1. CASE /\ claims' = [claims EXCEPT ![shape[r].key] =
                               [owner |-> r, expires |-> clock + ClaimTTL]]
             /\ Admit(r)
    <3>1. [owner |-> r, expires |-> clock + ClaimTTL] \in TaskClaims
      BY <1>t, TaskAssumption DEF ClockTypes, TaskClaims
    <3>2. StoreTypes' BY <1>t, <2>0, <2>1, <3>1 DEF StoreTypes
    <3> QED BY <1>t, <2>0, <2>1, <3>2, AdmitTyped DEF ClockTypes
  <2>2. CASE Goto(r, "reading") /\ UNCHANGED <<taskVars, claims>>
    <3>1. RequestTypes' BY <1>t, <2>2 DEF RequestTypes, Goto, RequestPC
    <3> QED BY <1>t, <2>0, <2>2, <3>1 DEF TableTypes, StoreTypes, ClockTypes
  <2> QED BY <1>3, <2>1, <2>2 DEF ClaimKey
<1>4. CASE ReadClaim(r)
  <2>0. UNCHANGED <<clock, faults, up, shape, redisVars>> /\ pc[r] = "reading"
    BY <1>4 DEF ReadClaim
  <2>k. shape[r].key \in Keys BY <2>0 DEF Fresh
  <2>1. CASE /\ Live(shape[r].key) /\ UNCHANGED taskVars
             /\ answer' = [answer EXCEPT ![r] = IF Conflict(shape[r], claims[shape[r].key].owner)
                              THEN "conflict" ELSE claims[shape[r].key].owner]
             /\ pc' = [pc EXCEPT ![r] = "releasing"]
    <3>1. claims[shape[r].key].owner \in Requests
      BY <1>t, <2>1, <2>k DEF StoreTypes, TaskClaims, Live
    <3>2. RequestTypes' BY <1>t, <2>1, <3>1 DEF RequestTypes, RequestPC, Rejections
    <3> QED BY <1>t, <2>0, <2>1, <3>2 DEF TableTypes, StoreTypes, ClockTypes
  <2>2. CASE Admit(r)
    BY <1>t, <2>0, <2>2, AdmitTyped DEF StoreTypes, ClockTypes
  <2> QED BY <1>4, <2>1, <2>2 DEF ReadClaim
<1>5. CASE ClaimFails(r)
  <2>1. UNCHANGED <<clock, up, shape, redisVars>> /\ Fails("claim") /\ Admit(r)
    BY <1>5 DEF ClaimFails
  <2>2. faults' \in 0..MaxFaults BY <1>t, <2>1, FailsTyped DEF ClockTypes
  <2> QED BY <1>t, <2>1, <2>2, AdmitTyped DEF StoreTypes, ClockTypes
<1>6. CASE ReleaseHold(r)
  <2>1. UNCHANGED <<clock, faults, up, shape, taskVars, redisVars>> /\ Goto(r, "answered")
    BY <1>6 DEF ReleaseHold
  <2>2. RequestTypes' BY <1>t, <2>1 DEF RequestTypes, Goto, RequestPC
  <2> QED BY <1>t, <2>1, <2>2 DEF TableTypes, StoreTypes, ClockTypes
<1>7. CASE MirrorRead(r)
  <2>1. UNCHANGED <<clock, faults, up, shape, taskVars, redisVars>>
        /\ (Answer(r, r) \/ Goto(r, "mirror_set"))
    BY <1>7 DEF MirrorRead
  <2>2. RequestTypes' BY <1>t, <2>1 DEF RequestTypes, Goto, Answer, RequestPC
  <2> QED BY <1>t, <2>1, <2>2 DEF TableTypes, StoreTypes, ClockTypes
<1>8. CASE MirrorWrite(r)
  <2>1. /\ UNCHANGED <<clock, faults, up, shape, taskVars, deleting, claims>>
        /\ Answer(r, r) /\ store' = [store EXCEPT ![r] = FirstRecord]
    BY <1>8 DEF MirrorWrite
  <2>2. RequestTypes' BY <1>t, <2>1 DEF RequestTypes, Answer, RequestPC
  <2>3. FirstRecord \in Records BY DEF FirstRecord, Records
  <2> QED BY <1>t, <2>1, <2>2, <2>3 DEF TableTypes, StoreTypes, ClockTypes
<1>9. CASE MirrorFails(r)
  <2>1. UNCHANGED <<clock, up, shape, taskVars, redisVars>> /\ Answer(r, r) /\ Fails("write")
    BY <1>9 DEF MirrorFails
  <2>2. RequestTypes' BY <1>t, <2>1 DEF RequestTypes, Answer, RequestPC
  <2>3. faults' \in 0..MaxFaults BY <1>t, <2>1, FailsTyped DEF ClockTypes
  <2> QED BY <1>t, <2>1, <2>2, <2>3 DEF TableTypes, StoreTypes, ClockTypes
<1>10. CASE DeleteRecord(r)
  <2>1. /\ UNCHANGED <<clock, up, shape, pc, answer, taskVars, claims>>
        /\ deleting' = deleting \ {r}
        /\ \/ store' = [store EXCEPT ![r] = NoRecord] /\ UNCHANGED faults
           \/ Fails("write") /\ UNCHANGED store
    BY <1>10 DEF DeleteRecord
  <2>2. faults' \in 0..MaxFaults BY <1>t, <2>1, FailsTyped DEF ClockTypes
  <2>3. NoRecord \in Records BY DEF NoRecord, Records
  <2>4. StoreTypes' BY <1>t, <2>1, <2>3 DEF StoreTypes
  <2> QED BY <1>t, <2>1, <2>2, <2>4 DEF TableTypes, RequestTypes, ClockTypes
<1>11. ASSUME NEW s \in Shapes, Submit(r, s) PROVE TaskTypes'
  <2>1. /\ UNCHANGED <<clock, faults, up, status, born, runner, slot, store, claims>>
        /\ shape' = [shape EXCEPT ![r] = s] /\ Sweep(s.worker)
    BY <1>11 DEF Submit
  <2>2. s.worker \in Workers BY TaskAssumption DEF ShapeOK
  <2>3. idem' \in [Workers -> [Keys -> Requests \cup {NoTask}]]
    BY <1>t, <2>1, <2>2 DEF Sweep, TableTypes
  <2>4. table' \subseteq Requests /\ cancelled' \subseteq Requests /\ deleting' \subseteq Requests
    BY <1>t, <2>1 DEF Sweep, ExpiredOn, TableTypes, StoreTypes
  <2>5. RequestTypes'
    <3>1. CASE Goto(r, "reserving") BY <1>t, <3>1 DEF RequestTypes, Goto, RequestPC
    <3>2. ASSUME NEW a \in Requests \cup Rejections, Answer(r, a) PROVE RequestTypes'
      BY <1>t, <3>2 DEF RequestTypes, Answer, RequestPC
    <3>3. \/ Goto(r, "reserving")
          \/ \E a \in table' \cup {"full", "conflict"} : Answer(r, a)
      BY <1>11 DEF Submit
    <3>4. table' \cup {"full", "conflict"} \subseteq Requests \cup Rejections
      BY <2>4 DEF Rejections
    <3> QED BY <3>1, <3>2, <3>3, <3>4
  <2> QED BY <1>t, <2>1, <2>3, <2>4, <2>5 DEF TableTypes, StoreTypes, ClockTypes
<1> QED
  BY <1>1, <1>2, <1>3, <1>4, <1>5, <1>6, <1>7, <1>8, <1>9, <1>10, <1>11 DEF RequestStep

\* A step of a runner, the event loop or the process leaves these alone.
Aside == UNCHANGED <<shape, pc, answer, idem, born, claims>>

(* Every other step keeps the types.                                         *)
LEMMA RunnerTyped ==
    ASSUME TaskTypes, NEW t \in Requests, RunnerStep(t) \/ SpendWhileSolving(t)
    PROVE  TaskTypes' /\ Aside /\ UNCHANGED <<clock, up, table, deleting>>
<1> USE DEF redisVars
<1>t. RequestTypes /\ TableTypes /\ StoreTypes /\ ClockTypes BY DEF TaskTypes
<1>1. Aside /\ UNCHANGED <<clock, up, table, deleting>>
  BY DEF RunnerStep, StartRunner, TakeSlot, FinishSolve, CancelSolve, CutShort, SettleTask,
         FinalRead, FinalWrite, FinalFails, SpendWhileSolving, RunnerOnly, RunnerOnlyBut, Aside
<1>2. faults' \in 0..MaxFaults
  <2>1. UNCHANGED faults \/ Fails("budget") \/ Fails("write")
    BY DEF RunnerStep, StartRunner, TakeSlot, FinishSolve, CancelSolve, CutShort, SettleTask,
           FinalRead, FinalWrite, FinalFails, SpendWhileSolving, RunnerOnly
  <2> QED BY <1>t, <2>1, FailsTyped DEF ClockTypes
<1>3. runner' \in [Requests -> RunnerPC]
  BY <1>t DEF TableTypes, RunnerStep, StartRunner, TakeSlot, FinishSolve, CancelSolve, CutShort,
         SettleTask, FinalRead, FinalWrite, FinalFails, SpendWhileSolving, RunnerTo, RunnerPC
<1>4. status' \in [Requests -> {"none", "processing", "ready", "failed"}]
  BY <1>t DEF TableTypes, RunnerStep, StartRunner, TakeSlot, FinishSolve, CancelSolve, CutShort,
         SettleTask, FinalRead, FinalWrite, FinalFails, SpendWhileSolving
<1>5. cancelled' \subseteq Requests
  BY <1>t DEF TableTypes, RunnerStep, StartRunner, TakeSlot, FinishSolve, CancelSolve, CutShort,
         SettleTask, FinalRead, FinalWrite, FinalFails, SpendWhileSolving
<1>6. slot' \in [Requests -> Pools]
  <2>1. CASE StartRunner(t)
    <3>1. shape[t].egress # "unsupported" => SemaphoresFor(shape[t]) \subseteq Pools
      BY <1>t, TaskAssumption DEF ClockTypes, ShapeOK, SemaphoresFor
    <3> QED BY <1>t, <2>1, <3>1 DEF StartRunner, TableTypes
  <2>2. CASE UNCHANGED slot BY <1>t, <2>2 DEF TableTypes
  <2> QED BY <2>1, <2>2 DEF RunnerStep, TakeSlot, FinishSolve, CancelSolve, CutShort,
         SettleTask, FinalRead, FinalWrite, FinalFails, SpendWhileSolving
<1>7. store' \in [Requests -> Records]
  <2>1. FinalRecord(t) \in Records BY <1>t DEF TableTypes, FinalRecord, Records
  <2>2. UNCHANGED store \/ store' = [store EXCEPT ![t] = FinalRecord(t)]
    BY DEF RunnerStep, StartRunner, TakeSlot, FinishSolve, CancelSolve, CutShort, SettleTask,
           FinalRead, FinalWrite, FinalFails, SpendWhileSolving
  <2> QED BY <1>t, <2>1, <2>2 DEF StoreTypes
<1> QED
  BY <1>t, <1>1, <1>2, <1>3, <1>4, <1>5, <1>6, <1>7
  DEF TaskTypes, RequestTypes, TableTypes, StoreTypes, ClockTypes, Aside

\* Shutdown, the clock, and rest.
ProcessStep == (\E w \in Workers : Shutdown(w) \/ CloseStore(w)) \/ Tick \/ Quiescent

(* ... and so do shutdown, the clock, and rest.                              *)
LEMMA ProcessTyped ==
    ASSUME TaskTypes, ProcessStep \/ UNCHANGED vars
    PROVE  TaskTypes' /\ Aside /\ UNCHANGED <<status, runner, store, budgetVars>>
<1> USE DEF vars, taskVars, redisVars
<1>t. RequestTypes /\ TableTypes /\ StoreTypes /\ ClockTypes BY DEF TaskTypes
<1>1. ASSUME NEW w \in Workers, Shutdown(w)
      PROVE  TaskTypes' /\ Aside /\ UNCHANGED <<status, runner, store, budgetVars>>
  <2>1. cancelled' \subseteq Requests BY <1>t, <1>1 DEF Shutdown, TableTypes
  <2>2. up' \in [Workers -> {"up", "stopping", "down"}] BY <1>t, <1>1 DEF Shutdown, ClockTypes
  <2> QED BY <1>t, <1>1, <2>1, <2>2
          DEF Shutdown, TaskTypes, RequestTypes, TableTypes, StoreTypes, ClockTypes, Aside
<1>2. ASSUME NEW w \in Workers, CloseStore(w)
      PROVE  TaskTypes' /\ Aside /\ UNCHANGED <<status, runner, store, budgetVars>>
  <2>1. table' \subseteq Requests /\ deleting' \subseteq Requests
    BY <1>t, <1>2 DEF CloseStore, TableTypes, StoreTypes
  <2>2. up' \in [Workers -> {"up", "stopping", "down"}] BY <1>t, <1>2 DEF CloseStore, ClockTypes
  <2> QED BY <1>t, <1>2, <2>1, <2>2
          DEF CloseStore, TaskTypes, RequestTypes, TableTypes, StoreTypes, ClockTypes, Aside
<1>3. CASE Tick
  <2>1. clock' \in 0..MaxClock BY <1>t, <1>3, TaskAssumption DEF Tick, ClockTypes
  <2> QED BY <1>t, <1>3, <2>1
          DEF Tick, TaskTypes, RequestTypes, TableTypes, StoreTypes, ClockTypes, Aside
<1>4. CASE UNCHANGED vars
  BY <1>t, <1>4 DEF TaskTypes, RequestTypes, TableTypes, StoreTypes, ClockTypes, Aside
<1> QED BY <1>1, <1>2, <1>3, <1>4 DEF ProcessStep, Quiescent

-----------------------------------------------------------------------------
(* The life of a task *)

\* Only the hold of r moves, and it opens for no one else.
OnlyHoldOf(r) == \A g \in Requests \ {r} : hold'[g] = hold[g]

(* What the guard does in a reservation moves the hold of its request only.  *)
LEMMA ReserveMovesOne ==
    ASSUME BudgetTypes, NEW r \in Requests, ReserveBudget(r) \/ ReserveFails(r)
    PROVE  OnlyHoldOf(r) /\ UNCHANGED recorded
           /\ hold[r].state \in {"none", "checking"} /\ pc[r] = "reserving"
BY DEF ReserveBudget, ReserveFails, ReserveFree, CheckGlobal, CheckGlobalAt, CheckClient,
       CheckClientAt, ReserveRaises, Issue, OnlyHoldOf, BudgetTypes, accountVars

(* A settled hold is not open, and no other is touched.                      *)
LEMMA SettleCloses ==
    ASSUME BudgetTypes, NEW h \in Requests, NEW a, Settle(h, a)
    PROVE  /\ hold'[h].state # "open" /\ OnlyHoldOf(h)
           /\ UNCHANGED recorded /\ (hold[h].state # "open" => UNCHANGED hold)
BY DEF Settle, Open, OnlyHoldOf, BudgetTypes, Holds, budgetVars, accountVars

(* _admit, at the end of the awaits of an admission.                         *)
LEMMA AdmitLife ==
    ASSUME TaskTypes, Life, NEW r \in Requests, pc[r] \in {"reserving", "claiming", "reading"},
           Admit(r), UNCHANGED <<clock, up, shape, deleting, store>>, OnlyHoldOf(r)
    PROVE  Life'
<1> USE DEF TaskTypes, RequestTypes, TableTypes
<1>1. /\ pc' = [pc EXCEPT ![r] = "mirror_get"] /\ UNCHANGED <<answer, slot, cancelled>>
      /\ table' = table \cup {r} /\ status' = [status EXCEPT ![r] = "processing"]
      /\ born' = [born EXCEPT ![r] = clock] /\ runner' = [runner EXCEPT ![r] = "spawned"]
  BY DEF Admit, Goto
<1>2. ~ Admitted(r) /\ r \notin table \cup cancelled \cup deleting
  BY DEF Life, Fresh, Before
<1>3. Fresh' BY <1>1, <1>2 DEF Life, Fresh, Before, Admitted
<1>4. Answers' BY <1>1, <1>2 DEF Life, Answers, Admitted, Conflict
<1>5. Leaves'
  <2>1. table' \cap deleting' = {} BY <1>1, <1>2 DEF Life, Leaves
  <2>2. \A t \in cancelled' \cap table' : up'[Home(t)'] # "up"
    BY <1>1, <1>2 DEF Life, Leaves, Home
  <2>3. \A t \in Requests : Admitted(t)' => born'[t] <= clock'
    BY <1>1, <1>2 DEF Life, Leaves, Admitted, ClockTypes
  <2> QED BY <2>1, <2>2, <2>3 DEF Leaves
<1>6. HoldEnds'
  BY <1>1, <1>2 DEF Life, HoldEnds, Open, OnlyHoldOf, Admitted, Home
<1>7. Stored' BY <1>1, <1>2 DEF Life, Stored, StoreTypes
<1> QED BY <1>3, <1>4, <1>5, <1>6, <1>7 DEF Life

\* A request goes on without becoming a task.
StaysOut(r) ==
    /\ UNCHANGED <<clock, up, shape, taskVars, deleting, store>>
    /\ \A q \in Requests \ {r} : pc'[q] = pc[q] /\ answer'[q] = answer[q]
    /\ OnlyHoldOf(r)

(* A request that is no task waits on.                                       *)
LEMMA WaitLife ==
    ASSUME TaskTypes, Life, NEW r \in Requests, pc[r] \in Before, StaysOut(r),
           pc'[r] \in Before \ {"idle"},
           answer'[r] \in Requests => Admitted(answer'[r]) /\ ~ Conflict(shape[r], answer'[r]),
           pc'[r] \in {"claiming", "reading"} => shape[r].key \in Keys
    PROVE  Life'
<1> USE DEF TaskTypes, RequestTypes, TableTypes
<1>1. UNCHANGED <<table, cancelled, status, born, runner, clock, up, shape, deleting, store>>
  BY DEF StaysOut, taskVars
<1>2. ~ Admitted(r) /\ r \notin table BY DEF Life, Fresh, Before
<1>3. Fresh' BY <1>1, <1>2 DEF Life, Fresh, Before, Admitted, StaysOut
<1>4. Answers' BY <1>1, <1>2 DEF Life, Answers, Admitted, Conflict, StaysOut, Before
<1>5. Leaves' BY <1>1 DEF Life, Leaves, Admitted, Home
<1>6. HoldEnds'
  <2>1. runner[r] = "none" BY <1>2 DEF Life, Fresh
  <2> QED BY <1>1, <2>1 DEF Life, HoldEnds, Open, OnlyHoldOf, Admitted, Home, StaysOut, Before
<1>7. Stored' BY <1>1, <1>2 DEF Life, Stored, StaysOut
<1> QED BY <1>3, <1>4, <1>5, <1>6, <1>7 DEF Life

(* A request that is no task is answered, its hold closed.                   *)
LEMMA AnswerLife ==
    ASSUME TaskTypes, Life, NEW r \in Requests, pc[r] \in Before, StaysOut(r),
           pc'[r] = "answered", hold'[r].state # "open",
           answer'[r] \in Requests => Admitted(answer'[r]) /\ ~ Conflict(shape[r], answer'[r])
    PROVE  Life'
<1> USE DEF TaskTypes, RequestTypes, TableTypes
<1>1. UNCHANGED <<table, cancelled, status, born, runner, clock, up, shape, deleting, store>>
  BY DEF StaysOut, taskVars
<1>2. ~ Admitted(r) /\ r \notin table BY DEF Life, Fresh
<1>3. Fresh' BY <1>1, <1>2 DEF Life, Fresh, Before, Admitted, StaysOut
<1>4. Answers' BY <1>1, <1>2 DEF Life, Answers, Admitted, Conflict, StaysOut
<1>5. Leaves' BY <1>1 DEF Life, Leaves, Admitted, Home
<1>6. HoldEnds'
  BY <1>1 DEF Life, HoldEnds, Open, OnlyHoldOf, Admitted, Home, StaysOut
<1>7. Stored' BY <1>1, <1>2 DEF Life, Stored, StaysOut
<1> QED BY <1>3, <1>4, <1>5, <1>6, <1>7 DEF Life

\* The first mirror of r goes on; only its own record is written.
Mirrors(r) ==
    /\ pc[r] \in {"mirror_get", "mirror_set"}
    /\ UNCHANGED <<clock, up, shape, taskVars, deleting, hold>>
    /\ \/ Answer(r, r) /\ (store'[r] # NoRecord \/ "write" \in Outages)
       \/ Goto(r, "mirror_set")
    /\ store' = store \/ store' = [store EXCEPT ![r] = FirstRecord]

(* The mirror of an admitted request, and its answer.                        *)
LEMMA MirrorLife ==
    ASSUME TaskTypes, Life, NEW r \in Requests, Mirrors(r)
    PROVE  Life'
<1> USE DEF TaskTypes, RequestTypes, TableTypes
<1>1. /\ UNCHANGED <<table, cancelled, status, born, runner, clock, up, shape, deleting, hold>>
      /\ \/ /\ pc' = [pc EXCEPT ![r] = "answered"] /\ answer' = [answer EXCEPT ![r] = r]
            /\ store'[r] # NoRecord \/ "write" \in Outages
         \/ pc' = [pc EXCEPT ![r] = "mirror_set"] /\ UNCHANGED answer
  BY DEF Mirrors, taskVars, Answer, Goto
<1>2. Admitted(r) BY DEF Life, Fresh, Mirrors
<1>3. \A q \in Requests : store[q] # NoRecord => store'[q] # NoRecord
  BY DEF Mirrors, StoreTypes, FirstRecord, NoRecord
<1>4. Fresh' BY <1>1, <1>2 DEF Life, Fresh, Before, Admitted
<1>5. Answers' BY <1>1, <1>2 DEF Life, Answers, Admitted, Conflict
<1>6. Leaves' BY <1>1 DEF Life, Leaves, Admitted, Home
<1>7. HoldEnds' BY <1>1, <1>2 DEF Life, HoldEnds, Open, Admitted, Home
<1>8. Stored' BY <1>1, <1>3 DEF Life, Stored
<1> QED BY <1>4, <1>5, <1>6, <1>7, <1>8 DEF Life

(* Past the reservation a request is admitted, or waits for its claim.       *)
LEMMA ProceedLife ==
    ASSUME TaskTypes, Life, NEW r \in Requests, pc[r] = "reserving", Proceed(r),
           UNCHANGED <<clock, up, deleting, store>>, OnlyHoldOf(r)
    PROVE  Life'
<1>1. CASE Admit(r) /\ UNCHANGED shape BY <1>1, AdmitLife
<1>2. CASE shape[r].key # NoKey /\ Goto(r, "claiming") /\ UNCHANGED <<shape, taskVars>>
  <2>1. shape[r].key \in Keys BY <1>2, ShapesAreOK
  <2>2. /\ StaysOut(r) /\ pc[r] \in Before /\ pc'[r] = "claiming"
        /\ answer'[r] = answer[r]
    BY <1>2 DEF Goto, StaysOut, Before, TaskTypes, RequestTypes
  <2>3. answer'[r] \in Requests => Admitted(answer'[r]) /\ ~ Conflict(shape[r], answer'[r])
    BY <2>2 DEF Life, Answers
  <2> QED BY <2>1, <2>2, <2>3, WaitLife DEF Before
<1> QED BY <1>1, <1>2 DEF Proceed

(* Every step of a request.                                                  *)
LEMMA RequestLife ==
    ASSUME TaskTypes, BudgetTypes, Life, Named, NEW r \in Requests, RequestStep(r)
    PROVE  Life'
<1> USE DEF redisVars
<1>n. Requests \cap {"none", "full", "overbudget", "conflict"} = {} BY TaskAssumption
<1>a. answer[r] \in Requests => Admitted(answer[r]) /\ ~ Conflict(shape[r], answer[r])
  BY DEF Life, Answers
<1>h. UNCHANGED hold => OnlyHoldOf(r) BY DEF OnlyHoldOf
<1>1. CASE ReserveBudget(r)
  <2>0. /\ UNCHANGED <<clock, up, deleting, store>> /\ OnlyHoldOf(r) /\ pc[r] = "reserving"
    BY <1>1, ReserveMovesOne DEF ReserveBudget
  <2>1. CASE UNCHANGED <<shape, pc, answer, taskVars>>
    <3>1. StaysOut(r) BY <2>0, <2>1 DEF StaysOut
    <3> QED BY <1>a, <2>0, <2>1, <3>1, WaitLife DEF Before
  <2>2. CASE hold'[r].state = "denied" /\ Answer(r, "overbudget") /\ UNCHANGED <<shape, taskVars>>
    <3>1. StaysOut(r) /\ pc'[r] = "answered" /\ answer'[r] = "overbudget"
      BY <2>0, <2>2 DEF StaysOut, Answer, TaskTypes, RequestTypes
    <3>2. answer'[r] \notin Requests BY <1>n, <3>1
    <3> QED BY <2>0, <2>2, <3>1, <3>2, AnswerLife DEF Before
  <2>3. CASE Proceed(r) BY <2>0, <2>3, ProceedLife
  <2> QED BY <1>1, <2>1, <2>2, <2>3 DEF ReserveBudget
<1>2. CASE ReserveFails(r)
  <2>1. OnlyHoldOf(r) BY <1>2, ReserveMovesOne
  <2> QED BY <1>2, <2>1, ProceedLife DEF ReserveFails
<1>3. CASE ClaimKey(r)
  <2>0. /\ pc[r] = "claiming" /\ UNCHANGED <<clock, up, shape, deleting, store>> /\ OnlyHoldOf(r)
    BY <1>3, <1>h DEF ClaimKey, budgetVars
  <2>1. CASE Admit(r) BY <2>0, <2>1, AdmitLife
  <2>2. CASE Goto(r, "reading") /\ UNCHANGED taskVars
    <3>1. /\ StaysOut(r) /\ pc'[r] = "reading" /\ answer'[r] = answer[r]
          /\ shape[r].key \in Keys
      BY <2>0, <2>2 DEF StaysOut, Goto, TaskTypes, RequestTypes, Life, Fresh
    <3> QED BY <1>a, <2>0, <3>1, WaitLife DEF Before
  <2> QED BY <1>3, <2>1, <2>2 DEF ClaimKey
<1>4. CASE ReadClaim(r)
  <2> DEFINE owner == claims[shape[r].key].owner
  <2>0. /\ pc[r] = "reading" /\ UNCHANGED <<clock, up, shape, deleting, store>> /\ OnlyHoldOf(r)
        /\ shape[r].key \in Keys
    BY <1>4, <1>h DEF ReadClaim, budgetVars, Life, Fresh
  <2>1. CASE /\ Live(shape[r].key) /\ UNCHANGED taskVars
             /\ answer' = [answer EXCEPT ![r] = IF Conflict(shape[r], owner) THEN "conflict" ELSE owner]
             /\ pc' = [pc EXCEPT ![r] = "releasing"]
    <3>1. Admitted(owner) BY <2>0, <2>1 DEF Named, Live, AdmittedFor, Admitted
    <3>2. StaysOut(r) /\ pc'[r] = "releasing"
          /\ answer'[r] = IF Conflict(shape[r], owner) THEN "conflict" ELSE owner
      BY <2>0, <2>1 DEF StaysOut, TaskTypes, RequestTypes
    <3>3. answer'[r] \in Requests => Admitted(answer'[r]) /\ ~ Conflict(shape[r], answer'[r])
      BY <1>n, <3>1, <3>2
    <3> QED BY <2>0, <3>2, <3>3, WaitLife DEF Before
  <2>2. CASE Admit(r) BY <2>0, <2>2, AdmitLife
  <2> QED BY <1>4, <2>1, <2>2 DEF ReadClaim
<1>5. CASE ClaimFails(r)
  BY <1>5, <1>h, AdmitLife DEF ClaimFails, budgetVars
<1>6. CASE ReleaseHold(r)
  <2>1. hold'[r].state # "open" /\ OnlyHoldOf(r) BY <1>6, SettleCloses DEF ReleaseHold
  <2>2. StaysOut(r) /\ pc[r] = "releasing" /\ pc'[r] = "answered" /\ answer'[r] = answer[r]
    BY <1>6, <2>1 DEF ReleaseHold, StaysOut, Goto, TaskTypes, RequestTypes
  <2> QED BY <1>a, <2>1, <2>2, AnswerLife DEF Before
<1>7. CASE MirrorRead(r)
  <2>1. Mirrors(r) BY <1>7 DEF MirrorRead, Mirrors, Stale, budgetVars
  <2> QED BY <2>1, MirrorLife
<1>8. CASE MirrorWrite(r)
  <2>1. store'[r] # NoRecord
    BY <1>8 DEF MirrorWrite, TaskTypes, StoreTypes, FirstRecord, NoRecord
  <2>2. Mirrors(r) BY <1>8, <2>1 DEF MirrorWrite, Mirrors, budgetVars
  <2> QED BY <2>2, MirrorLife
<1>9. CASE MirrorFails(r)
  <2>1. Mirrors(r) BY <1>9 DEF MirrorFails, Mirrors, Fails, budgetVars
  <2> QED BY <2>1, MirrorLife
<1> QED BY <1>1, <1>2, <1>3, <1>4, <1>5, <1>6, <1>7, <1>8, <1>9 DEF RequestStep

(* A submission sweeps, and its request is answered or goes on; it is not    *)
(* known to anyone yet.                                                      *)
LEMMA SubmitLife ==
    ASSUME TaskTypes, Life, Named, NEW r \in Requests, NEW s \in Shapes, Submit(r, s)
    PROVE  Life'
<1> USE DEF TaskTypes, RequestTypes, TableTypes, ClockTypes
<1>1. /\ pc[r] = "idle" /\ shape' = [shape EXCEPT ![r] = s] /\ Sweep(s.worker)
      /\ UNCHANGED <<clock, up, status, born, runner, store, hold>>
  BY DEF Submit, budgetVars
<1>2. ~ Admitted(r) /\ r \notin table \cup cancelled \cup deleting
  BY <1>1 DEF Life, Fresh, Before
<1>3. /\ table' \subseteq table /\ cancelled' \subseteq cancelled \cup (table \ table')
      /\ deleting' \subseteq deleting \cup (table \ table')
  BY <1>1 DEF Sweep, ExpiredOn
<1>4. PICK a, step : /\ answer' = [answer EXCEPT ![r] = a] /\ pc' = [pc EXCEPT ![r] = step]
                     /\ step \in {"answered", "reserving"}
                     /\ a \in Requests => a \in table /\ ~ Conflict(s, a)
  <2>1. "full" \notin Requests /\ "conflict" \notin Requests /\ "none" \notin Requests
    BY TaskAssumption
  <2>2. \/ Goto(r, "reserving")
        \/ Answer(r, "full") \/ Answer(r, "conflict")
        \/ \E q \in table' : Answer(r, q) /\ ~ Conflict(s, q)
    BY DEF Submit
  <2>3. answer[r] = "none" BY <1>1 DEF Life, Answers
  <2>4. CASE Goto(r, "reserving")
    <3>1. answer' = [answer EXCEPT ![r] = "none"] BY <2>3, <2>4 DEF Goto
    <3> QED BY <2>1, <2>4, <3>1 DEF Goto
  <2> QED BY <1>3, <2>1, <2>2, <2>4 DEF Answer
<1>5. \A q \in Requests : Admitted(q) => q # r BY <1>2
<1>6. \A q \in table : Admitted(q) BY DEF Life, Fresh
<1>7. Fresh' BY <1>1, <1>2, <1>3, <1>4, <1>5, <1>6 DEF Life, Fresh, Before, Admitted
<1>8. Answers' BY <1>1, <1>4, <1>5, <1>6 DEF Life, Answers, Admitted, Conflict
<1>9. Leaves' BY <1>1, <1>2, <1>3, <1>5 DEF Life, Leaves, Admitted, Home
<1>10. HoldEnds'
  <2>1. ~ Open(r) BY <1>1 DEF Life, HoldEnds
  <2> QED BY <1>1, <1>3, <1>4, <2>1 DEF Life, HoldEnds, Open, Admitted, Home
<1>11. Stored' BY <1>1, <1>2, <1>3, <1>4 DEF Life, Stored
<1> QED BY <1>7, <1>8, <1>9, <1>10, <1>11 DEF Life

(* A scheduled delete takes the record of a task that has left the table.    *)
LEMMA DeleteLife ==
    ASSUME TaskTypes, Life, NEW t \in Requests, DeleteRecord(t)
    PROVE  Life'
<1> USE DEF TaskTypes, RequestTypes, TableTypes, StoreTypes
<1>1. /\ t \in deleting /\ deleting' = deleting \ {t}
      /\ \A q \in Requests \ {t} : store'[q] = store[q]
      /\ UNCHANGED <<clock, up, shape, pc, answer, table, cancelled, status, born, runner, hold>>
  BY DEF DeleteRecord, taskVars, budgetVars
<1>2. t \notin table BY <1>1 DEF Life, Leaves
<1>3. Fresh' BY <1>1 DEF Life, Fresh, Before, Admitted
<1>4. Answers' BY <1>1 DEF Life, Answers, Admitted, Conflict
<1>5. Leaves' BY <1>1 DEF Life, Leaves, Admitted, Home
<1>6. HoldEnds' BY <1>1 DEF Life, HoldEnds, Open, Admitted, Home
<1>7. Stored' BY <1>1, <1>2 DEF Life, Stored
<1> QED BY <1>3, <1>4, <1>5, <1>6, <1>7 DEF Life

\* What a step of the runner of t may do to t itself.
RunnerMoves(t) ==
    /\ \A q \in Requests \ {t} : runner'[q] = runner[q] /\ status'[q] = status[q]
    /\ runner[t] # "none" /\ runner'[t] # "none" /\ (Admitted(t) => status'[t] # "none")
    /\ cancelled' \subseteq cancelled
    /\ \A q \in Requests : store[q] # NoRecord => store'[q] # NoRecord
    /\ \A q \in Requests : Open(q)' => Open(q)
    /\ runner'[t] \in {"final_get", "final_set", "done"} =>
          ~ Open(t)' \/ runner[t] \in {"final_get", "final_set"}
    /\ runner'[t] = "cut" => t \in cancelled

(* Each of its steps does only that.                                         *)
LEMMA RunnerMovesOwn ==
    ASSUME TaskTypes, BudgetTypes, NEW t \in Requests, RunnerStep(t) \/ SpendWhileSolving(t)
    PROVE  RunnerMoves(t)
<1> USE DEF TaskTypes, TableTypes, Admitted, Resumes, RunnerTo, redisVars, budgetVars
<1>f. FinalRecord(t) # NoRecord BY DEF FinalRecord, NoRecord
<1>1. CASE StartRunner(t) BY <1>1 DEF StartRunner, RunnerMoves, Open
<1>2. CASE TakeSlot(t) BY <1>2 DEF TakeSlot, RunnerMoves, Open
<1>3. CASE FinishSolve(t) BY <1>3 DEF FinishSolve, RunnerMoves, Open
<1>4. CASE CancelSolve(t) BY <1>4 DEF CancelSolve, RunnerMoves, Open
<1>5. CASE CutShort(t) BY <1>5, <1>f DEF CutShort, RunnerMoves, Open, StoreTypes
<1>6. CASE SettleTask(t)
  <2>1. hold'[t].state # "open" /\ OnlyHoldOf(t) BY <1>6, SettleCloses DEF SettleTask
  <2> QED BY <1>6, <2>1 DEF SettleTask, RunnerMoves, Open, OnlyHoldOf
<1>7. CASE FinalRead(t) BY <1>7 DEF FinalRead, RunnerMoves, Open
<1>8. CASE FinalWrite(t) BY <1>8, <1>f DEF FinalWrite, RunnerMoves, Open, StoreTypes
<1>9. CASE FinalFails(t) BY <1>9 DEF FinalFails, RunnerMoves, Open
<1>10. CASE SpendWhileSolving(t) BY <1>10 DEF SpendWhileSolving, RecordSpend, RunnerMoves, Open
<1> QED BY <1>1, <1>2, <1>3, <1>4, <1>5, <1>6, <1>7, <1>8, <1>9, <1>10 DEF RunnerStep

(* The steps of a runner.                                                    *)
LEMMA RunnerLife ==
    ASSUME TaskTypes, BudgetTypes, Life, NEW t \in Requests, RunnerStep(t) \/ SpendWhileSolving(t)
    PROVE  Life' /\ (\A q \in Requests : Admitted(q)' <=> Admitted(q))
<1> USE DEF TaskTypes, RequestTypes, TableTypes
<1>1. UNCHANGED <<shape, pc, answer, born, clock, up, table, deleting>>
  BY RunnerTyped DEF Aside
<1>2. RunnerMoves(t) BY RunnerMovesOwn
<1>3. \A q \in Requests : Admitted(q)' <=> Admitted(q)
  BY <1>2 DEF RunnerMoves, Life, Fresh, Admitted
<1>4. Fresh' BY <1>1, <1>2, <1>3 DEF Life, Fresh, RunnerMoves
<1>5. Answers' BY <1>1, <1>3 DEF Life, Answers, Conflict
<1>6. Leaves' BY <1>1, <1>2, <1>3 DEF Life, Leaves, RunnerMoves, Home
<1>7. HoldEnds' BY <1>1, <1>2, <1>3 DEF Life, HoldEnds, Leaves, RunnerMoves, Home
<1>8. Stored' BY <1>1, <1>2 DEF Life, Stored, RunnerMoves
<1> QED BY <1>3, <1>4, <1>5, <1>6, <1>7, <1>8 DEF Life

\* What they do to the tasks.
ProcessMoves ==
    /\ table' \subseteq table /\ deleting' \subseteq deleting
    /\ cancelled' \subseteq cancelled \cup {t \in Requests : RunnerLive(t)}
    /\ \A w \in Workers : up[w] # "up" => up'[w] # "up"
    /\ \A t \in cancelled' \cap table' : t \in cancelled \/ up'[Home(t)] # "up"
    /\ clock <= clock'

(* Shutdown cancels at a worker that is no longer up, and no worker comes    *)
(* back up; the clock only grows.                                            *)
LEMMA ProcessLife ==
    ASSUME TaskTypes, Life, ProcessStep \/ UNCHANGED vars
    PROVE  Life' /\ table' \subseteq table
<1> USE DEF TaskTypes, RequestTypes, TableTypes, ClockTypes, StoreTypes
<1>1. UNCHANGED <<shape, pc, answer, born, status, runner, store, hold>>
  BY ProcessTyped DEF Aside, budgetVars
<1>2. ProcessMoves
  <2>w. \A t \in Requests : Home(t) \in Workers BY ShapesAreOK
  <2>1. ASSUME NEW w \in Workers, Shutdown(w) PROVE ProcessMoves
    BY <2>w, <2>1 DEF Shutdown, redisVars, ProcessMoves
  <2>2. ASSUME NEW w \in Workers, CloseStore(w) PROVE ProcessMoves
    BY <2>2 DEF CloseStore, ProcessMoves
  <2>3. CASE Tick BY <2>3 DEF Tick, taskVars, redisVars, ProcessMoves
  <2>4. CASE UNCHANGED vars BY <2>4 DEF vars, taskVars, redisVars, ProcessMoves
  <2> QED BY <2>1, <2>2, <2>3, <2>4 DEF ProcessStep, Quiescent
<1>3. Fresh' BY <1>1, <1>2 DEF ProcessMoves, Life, Fresh, Admitted, RunnerLive
<1>4. Answers' BY <1>1 DEF Life, Answers, Admitted, Conflict
<1>5. Leaves'
  <2>1. table' \cap deleting' = {} BY <1>2 DEF ProcessMoves, Life, Leaves
  <2>2. \A t \in cancelled' \cap table' : up'[Home(t)'] # "up"
    <3>1. \A t \in Requests : Home(t)' = Home(t) /\ Home(t) \in Workers
      BY <1>1, ShapesAreOK DEF Home
    <3> QED BY <1>2, <3>1 DEF ProcessMoves, Life, Leaves
  <2>3. \A t \in Requests : Admitted(t)' => born'[t] <= clock'
    <3>1. clock \in Int /\ clock' \in Int /\ \A t \in Requests : born[t] \in Int
      BY ProcessTyped, TaskAssumption
    <3>2. clock <= clock' BY <1>2 DEF ProcessMoves
    <3> QED BY <1>1, <3>1, <3>2 DEF Life, Leaves, Admitted
  <2> QED BY <2>1, <2>2, <2>3 DEF Leaves
<1>6. HoldEnds'
  <2>1. \A t \in Requests : Home(t)' = Home(t) /\ Home(t) \in Workers
    BY <1>1, ShapesAreOK DEF Home
  <2> QED BY <1>1, <1>2, <2>1 DEF ProcessMoves, Life, HoldEnds, Open, Admitted
<1>7. Stored' BY <1>1, <1>2 DEF ProcessMoves, Life, Stored
<1> QED BY <1>2, <1>3, <1>4, <1>5, <1>6, <1>7 DEF Life, ProcessMoves

-----------------------------------------------------------------------------
(* Keys *)

\* The tasks of a key, and their workers, after the step.
After(k) == {t \in Requests : status'[t] # "none" /\ shape'[t].key = k}
HomeAfter(t) == shape'[t].worker

(* What is promised of keys, said of the state after the step.               *)
LEMMA NamedAfter ==
    ASSUME \A w \in Workers, k \in Keys : idem'[w][k] # NoTask =>
              LET t == idem'[w][k] IN status'[t] # "none" /\ HomeAfter(t) = w /\ shape'[t].key = k,
           \A k \in Keys : claims'[k].owner # NoTask => claims'[k].owner \in After(k)
    PROVE  Named'
BY DEF Named, Admitted, AdmittedFor, After, Home, HomeAfter

(* ... of claims,                                                            *)
LEMMA ClaimStandsAfter ==
    ASSUME "claim" \notin Outages =>
              /\ \A k \in Keys : After(k) # {} =>
                    /\ claims'[k].owner # NoTask
                    /\ claims'[k].expires = born'[claims'[k].owner] + ClaimTTL
              /\ \A q \in Requests : pc'[q] = "reading" => After(shape'[q].key) # {}
    PROVE  ClaimStands'
BY DEF ClaimStands, AdmittedFor, After

(* ... of the tasks of a key,                                                *)
LEMMA OneTaskAfter ==
    ASSUME "claim" \notin Outages =>
              \A k \in Keys : \A t, u \in After(k) : (t # u /\ born'[t] <= born'[u]) =>
                  \E v \in After(k) : born'[v] + ClaimTTL <= born'[u]
    PROVE  OneTaskPerKey'
BY DEF OneTaskPerKey, AdmittedFor, After

(* ... and of where the key leads.                                           *)
LEMMA KeyFindsAfter ==
    ASSUME \A t \in table' :
              (shape'[t].key # NoKey /\ idem'[HomeAfter(t)][shape'[t].key] # t) =>
                  \E u \in After(shape'[t].key) \ {t} :
                      HomeAfter(u) = HomeAfter(t) /\ (u \in table' => born'[u] >= born'[t])
    PROVE  KeyFindsItsTask'
BY DEF KeyFindsItsTask, AdmittedFor, After, Home, HomeAfter

\* Nothing about keys changes but that tasks may leave the table.
KeysRest ==
    /\ UNCHANGED <<shape, born, idem, claims>> /\ table' \subseteq table
    /\ \A q \in Requests : status'[q] # "none" <=> Admitted(q)

(* Then the tasks of a key are the same.                                     *)
LEMMA SameTasks ==
    ASSUME KeysRest, NEW k
    PROVE  After(k) = AdmittedFor(k)
BY DEF KeysRest, AdmittedFor, After, Admitted

(* ... and what is promised of keys stays true; a request may begin to read  *)
(* the claim of a key that has a task.                                       *)
LEMMA KeysRestOK ==
    ASSUME TaskTypes, Keyed, KeysRest,
           \A q \in Requests : pc'[q] = "reading" =>
               pc[q] = "reading" \/ AdmittedFor(shape[q].key) # {}
    PROVE  Keyed'
<1>1. \A k : After(k) = AdmittedFor(k) BY SameTasks
<1>h. \A t : HomeAfter(t) = Home(t) BY DEF KeysRest, Home, HomeAfter
<1>2. Named'
  <2>1. \A w \in Workers, k \in Keys : idem[w][k] # NoTask =>
            status'[idem[w][k]] # "none" /\ Home(idem[w][k]) = w /\ shape[idem[w][k]].key = k
    <3>1. \A w \in Workers, k \in Keys : idem[w][k] \in Requests \cup {NoTask}
      BY DEF TaskTypes, TableTypes
    <3> QED BY <3>1 DEF Keyed, Named, KeysRest
  <2>2. \A k \in Keys : claims[k].owner # NoTask => claims[k].owner \in AdmittedFor(k)
    BY DEF Keyed, Named
  <2> QED BY <1>1, <1>h, <2>1, <2>2, NamedAfter DEF KeysRest
<1>3. ClaimStands'
  <2>1. ClaimStands /\ UNCHANGED <<claims, born, shape>> BY DEF Keyed, KeysRest
  <2> QED BY <1>1, <2>1, ClaimStandsAfter DEF ClaimStands
<1>4. OneTaskPerKey'
  <2>1. OneTaskPerKey /\ UNCHANGED born BY DEF Keyed, KeysRest
  <2> QED BY <1>1, <2>1, OneTaskAfter DEF OneTaskPerKey
<1>5. KeyFindsItsTask'
  <2>1. KeyFindsItsTask /\ UNCHANGED <<shape, idem, born>> /\ table' \subseteq table
    BY DEF Keyed, KeysRest
  <2> QED BY <1>1, <1>h, <2>1, KeyFindsAfter DEF KeyFindsItsTask
<1> QED BY <1>2, <1>3, <1>4, <1>5 DEF Keyed

(* A sweep takes tasks and unmaps their keys.                                *)
LEMMA SubmitKeyed ==
    ASSUME TaskTypes, Life, Keyed, NEW r \in Requests, NEW s \in Shapes, Submit(r, s)
    PROVE  Keyed'
<1> USE DEF TaskTypes, RequestTypes, TableTypes, ClockTypes
<1>1. /\ pc[r] = "idle" /\ shape' = [shape EXCEPT ![r] = s] /\ Sweep(s.worker)
      /\ UNCHANGED <<born, status, claims>>
      /\ \A q \in Requests : pc'[q] = "reading" => q # r /\ pc[q] = "reading"
  BY DEF Submit, Answer, Goto
<1>2. ~ Admitted(r) BY <1>1 DEF Life, Fresh, Before
<1>3. \A q \in Requests : Admitted(q) => q # r /\ shape'[q] = shape[q] /\ HomeAfter(q) = Home(q)
  BY <1>1, <1>2 DEF Home, HomeAfter
<1>4. \A k : After(k) = AdmittedFor(k) BY <1>1, <1>3 DEF AdmittedFor, After, Admitted
<1>5. \A q \in table : q \in Requests /\ Admitted(q) BY DEF Life, Fresh
<1>6. s.worker \in Workers BY TaskAssumption DEF ShapeOK
<1> DEFINE gone == ExpiredOn(s.worker)
<1>7. /\ table' = table \ gone
      /\ \A w \in Workers, k \in Keys :
            \/ idem'[w][k] = idem[w][k]
            \/ idem'[w][k] = NoTask /\ w = s.worker /\ \E g \in gone : shape[g].key = k
      /\ \A g \in gone : g \in table /\ Home(g) = s.worker
  BY <1>1, <1>6 DEF Sweep, ExpiredOn
<1> HIDE DEF gone
<1>8. Named'
  <2>1. \A w \in Workers, k \in Keys : idem'[w][k] # NoTask =>
            /\ idem'[w][k] = idem[w][k] /\ idem[w][k] \in Requests
            /\ Admitted(idem[w][k]) /\ Home(idem[w][k]) = w /\ shape[idem[w][k]].key = k
    BY <1>7 DEF Keyed, Named
  <2>2. \A w \in Workers, k \in Keys : idem'[w][k] # NoTask =>
            LET t == idem'[w][k] IN status'[t] # "none" /\ HomeAfter(t) = w /\ shape'[t].key = k
    <3>1. SUFFICES ASSUME NEW w \in Workers, NEW k \in Keys, idem'[w][k] # NoTask
                   PROVE  LET t == idem'[w][k] IN status'[t] # "none" /\ HomeAfter(t) = w /\ shape'[t].key = k
      OBVIOUS
    <3>2. PICK t \in Requests : /\ t = idem'[w][k] /\ Admitted(t) /\ Home(t) = w
                                /\ shape[t].key = k
      BY <2>1, <3>1
    <3>3. status'[t] # "none" BY <1>1, <3>2 DEF Admitted
    <3>4. HomeAfter(t) = w /\ shape'[t].key = k BY <1>3, <3>2
    <3> QED BY <3>2, <3>3, <3>4
  <2>3. \A k \in Keys : claims'[k].owner # NoTask => claims'[k].owner \in After(k)
    BY <1>1, <1>4 DEF Keyed, Named
  <2> QED BY <2>2, <2>3, NamedAfter
<1>9. ClaimStands'
  <2>1. \A q \in Requests : pc'[q] = "reading" => shape'[q] = shape[q] /\ pc[q] = "reading"
    BY <1>1
  <2>2. ClaimStands BY DEF Keyed
  <2> QED BY <1>1, <1>4, <2>1, <2>2, ClaimStandsAfter DEF ClaimStands
<1>10. OneTaskPerKey'
  <2>1. OneTaskPerKey BY DEF Keyed
  <2> QED BY <1>1, <1>4, <2>1, OneTaskAfter DEF OneTaskPerKey
<1>11. KeyFindsItsTask'
  <2>1. SUFFICES ASSUME NEW t \in table', shape'[t].key # NoKey,
                        idem'[HomeAfter(t)][shape'[t].key] # t
                 PROVE  \E u \in After(shape'[t].key) \ {t} :
                          HomeAfter(u) = HomeAfter(t) /\ (u \in table' => born'[u] >= born'[t])
    BY KeyFindsAfter
  <2>2. t \in table /\ t \notin gone /\ t \in Requests /\ Admitted(t) BY <1>5, <1>7
  <2>3. shape'[t] = shape[t] /\ HomeAfter(t) = Home(t) BY <1>3, <2>2
  <2>4. Home(t) \in Workers /\ shape[t].key \in Keys BY <2>1, <2>2, <2>3, ShapesAreOK
  <2>5. CASE idem[Home(t)][shape[t].key] = t
    <3>1. PICK g \in gone : shape[g].key = shape[t].key /\ Home(t) = s.worker
      <4>1. idem'[Home(t)][shape[t].key] # t BY <2>1, <2>3
      <4> QED BY <1>7, <2>4, <2>5, <4>1
    <3>2. g \in Requests /\ Admitted(g) /\ Home(g) = Home(t) /\ g # t /\ g \notin table'
      BY <1>5, <1>7, <2>2, <3>1
    <3>3. g \in After(shape[t].key) BY <1>4, <3>1, <3>2 DEF AdmittedFor, Admitted
    <3>4. HomeAfter(g) = HomeAfter(t) BY <1>3, <2>3, <3>2
    <3> QED BY <2>3, <3>2, <3>3, <3>4
  <2>6. CASE idem[Home(t)][shape[t].key] # t
    <3>1. PICK u \in AdmittedFor(shape[t].key) \ {t} :
              Home(u) = Home(t) /\ (u \in table => born[u] >= born[t])
      BY <2>1, <2>2, <2>3, <2>6 DEF Keyed, KeyFindsItsTask
    <3>2. u \in After(shape[t].key) /\ HomeAfter(u) = Home(u)
      BY <1>3, <1>4, <3>1 DEF AdmittedFor, Admitted
    <3>3. u \in table' => u \in table BY <1>7
    <3> QED BY <1>1, <2>3, <3>1, <3>2, <3>3
  <2> QED BY <2>5, <2>6
<1> QED BY <1>8, <1>9, <1>10, <1>11 DEF Keyed

\* How a request may come to _admit: without a key, past a dead claim, or past an outage.
Entitled(r) ==
    LET k == shape[r].key IN
    \/ k = NoKey /\ UNCHANGED claims
    \/ /\ k \in Keys /\ ~ Live(k)
       /\ claims' = [claims EXCEPT ![k] = [owner |-> r, expires |-> clock + ClaimTTL]]
    \/ k \in Keys /\ ~ Live(k) /\ pc[r] = "reading" /\ UNCHANGED claims
    \/ k \in Keys /\ "claim" \in Outages /\ UNCHANGED claims

(* A new task takes its key; while the store answers, the claim that let it  *)
(* in has just begun or the last one has run its life.                       *)
LEMMA AdmitKeyed ==
    ASSUME TaskTypes, Life, Keyed, NEW r \in Requests,
           pc[r] \in {"reserving", "claiming", "reading"}, Admit(r), Entitled(r), UNCHANGED shape
    PROVE  Keyed'
<1> USE DEF TaskTypes, RequestTypes, TableTypes, ClockTypes, StoreTypes
<1> DEFINE k0 == shape[r].key
<1>1. /\ pc' = [pc EXCEPT ![r] = "mirror_get"] /\ table' = table \cup {r}
      /\ status' = [status EXCEPT ![r] = "processing"]
      /\ born' = [born EXCEPT ![r] = clock]
      /\ idem' = IF k0 = NoKey THEN idem ELSE [idem EXCEPT ![Home(r)][k0] = r]
  BY DEF Admit, Goto
<1>2. ~ Admitted(r) /\ r \notin table BY DEF Life, Fresh, Before
<1>3. Home(r) \in Workers /\ k0 \in Keys \cup {NoKey} /\ NoKey \notin Keys
  BY ShapesAreOK, TaskAssumption
<1>4. \A q \in Requests : status'[q] # "none" <=> (Admitted(q) \/ q = r) BY <1>1 DEF Admitted
<1>5. \A k : After(k) = AdmittedFor(k) \cup {q \in {r} : k0 = k}
  BY <1>1, <1>2, <1>4 DEF AdmittedFor, After, Admitted
<1>6. \A q : HomeAfter(q) = Home(q) BY DEF Home, HomeAfter
<1>7. \A q \in Requests : Admitted(q) => q # r /\ born'[q] = born[q] /\ born[q] <= clock
  BY <1>1, <1>2 DEF Life, Leaves
<1>8. \A q \in table : q \in Requests /\ Admitted(q) /\ q # r BY <1>2 DEF Life, Fresh
<1>9. \A k, q : q \in AdmittedFor(k) => q \in Requests /\ Admitted(q) BY DEF AdmittedFor, Admitted
<1>10. Named'
  <2>1. ASSUME NEW w \in Workers, NEW k \in Keys, idem'[w][k] # NoTask
        PROVE  LET t == idem'[w][k] IN status'[t] # "none" /\ HomeAfter(t) = w /\ shape'[t].key = k
    <3>1. CASE idem'[w][k] = idem[w][k]
      <4>1. PICK t \in Requests : /\ t = idem'[w][k] /\ Admitted(t) /\ Home(t) = w
                                  /\ shape[t].key = k
        BY <2>1, <3>1 DEF Keyed, Named
      <4>2. status'[t] # "none" BY <1>4, <4>1
      <4> QED BY <1>6, <4>1, <4>2 DEF Home
    <3>2. CASE idem'[w][k] # idem[w][k]
      <4>1. idem'[w][k] = r /\ w = Home(r) /\ k = k0 BY <1>1, <1>3, <3>2
      <4>2. status'[r] # "none" BY <1>4
      <4> QED BY <1>6, <4>1, <4>2 DEF Home
    <3> QED BY <3>1, <3>2
  <2>2. ASSUME NEW k \in Keys, claims'[k].owner # NoTask
        PROVE  claims'[k].owner \in After(k)
    <3>1. \/ claims'[k] = claims[k]
          \/ claims'[k] = [owner |-> r, expires |-> clock + ClaimTTL] /\ k = k0
      BY DEF Entitled
    <3> QED BY <1>5, <2>2, <3>1 DEF Keyed, Named
  <2> QED BY <2>1, <2>2, NamedAfter
<1>11. ClaimStands'
  <2>0. SUFFICES ASSUME "claim" \notin Outages
                 PROVE  /\ \A k \in Keys : After(k) # {} =>
                               /\ claims'[k].owner # NoTask
                               /\ claims'[k].expires = born'[claims'[k].owner] + ClaimTTL
                        /\ \A q \in Requests : pc'[q] = "reading" => After(shape[q].key) # {}
    BY ClaimStandsAfter
  <2>1. ASSUME NEW k \in Keys, After(k) # {}
        PROVE  claims'[k].owner # NoTask /\ claims'[k].expires = born'[claims'[k].owner] + ClaimTTL
    <3>1. CASE claims'[k] = [owner |-> r, expires |-> clock + ClaimTTL]
      BY <1>1, <3>1, TaskAssumption
    <3>2. CASE claims'[k] = claims[k] /\ AdmittedFor(k) # {}
      <4>1. /\ claims[k].owner \in AdmittedFor(k)
            /\ claims[k].expires = born[claims[k].owner] + ClaimTTL
            /\ claims[k].owner # NoTask
        BY <2>0, <3>2 DEF Keyed, ClaimStands, Named
      <4> QED BY <1>7, <1>9, <3>2, <4>1
    <3>3. AdmittedFor(k) = {} => k = k0 BY <1>5, <2>1
    <3>4. pc[r] = "reading" => AdmittedFor(k0) # {} BY <2>0 DEF Keyed, ClaimStands
    <3> QED BY <1>3, <2>0, <3>1, <3>2, <3>3, <3>4 DEF Entitled
  <2>2. ASSUME NEW q \in Requests, pc'[q] = "reading" PROVE After(shape[q].key) # {}
    <3>1. pc[q] = "reading" BY <1>1, <2>2
    <3> QED BY <1>5, <2>0, <3>1 DEF Keyed, ClaimStands
  <2> QED BY <2>1, <2>2
<1>12. OneTaskPerKey'
  <2>0. SUFFICES ASSUME "claim" \notin Outages, NEW k \in Keys,
                        NEW t \in After(k), NEW u \in After(k),
                        t # u, born'[t] <= born'[u]
                 PROVE  \E v \in After(k) : born'[v] + ClaimTTL <= born'[u]
    BY OneTaskAfter
  <2>1. CASE t \in AdmittedFor(k) /\ u \in AdmittedFor(k)
    <3>1. PICK v \in AdmittedFor(k) : born[v] + ClaimTTL <= born[u]
      BY <1>7, <1>9, <2>0, <2>1 DEF Keyed, OneTaskPerKey
    <3> QED BY <1>5, <1>7, <1>9, <2>1, <3>1
  <2>2. CASE ~ (t \in AdmittedFor(k) /\ u \in AdmittedFor(k))
    <3>1. k = k0 /\ (t = r \/ u = r) /\ AdmittedFor(k) # {} /\ k \in Keys
      BY <1>5, <2>0, <2>2
    <3>2. born'[u] = clock
      <4>1. born'[r] = clock BY <1>1
      <4>2. CASE t = r
        <5>1. u \in AdmittedFor(k) BY <1>5, <2>0, <4>2
        <5>2. born'[u] \in Int /\ clock \in Int /\ born'[u] <= clock
          BY <1>7, <1>9, <5>1, TaskAssumption
        <5>3. clock <= born'[u] BY <2>0, <4>1, <4>2
        <5>4. PICK n \in Int, m \in Int : n = born'[u] /\ m = clock BY <5>2
        <5>5. n <= m BY <5>2, <5>4
        <5>6. m <= n BY <5>3, <5>4
        <5>7. n = m BY <5>5, <5>6
        <5> QED BY <5>4, <5>7
      <4> QED BY <3>1, <4>1, <4>2
    <3>3. ~ Live(k) BY <1>3, <2>0, <3>1 DEF Entitled
    <3>4. /\ claims[k].owner \in AdmittedFor(k) /\ claims[k].owner # NoTask
          /\ claims[k].expires = born[claims[k].owner] + ClaimTTL
      BY <2>0, <3>1 DEF Keyed, ClaimStands, Named
    <3>5. PICK v \in AdmittedFor(k) : claims[k].expires = born[v] + ClaimTTL BY <3>4
    <3>6. born'[v] = born[v] /\ v \in After(k) BY <1>5, <1>7, <1>9
    <3>7. born[v] + ClaimTTL <= clock
      <4>1. ~ (clock < born[v] + ClaimTTL) BY <3>3, <3>4, <3>5 DEF Live
      <4>2. clock \in Int /\ born[v] + ClaimTTL \in Int BY <1>9, TaskAssumption
      <4> QED BY <4>1, <4>2
    <3> QED BY <3>2, <3>6, <3>7
  <2> QED BY <2>1, <2>2
<1>13. KeyFindsItsTask'
  <2>1. SUFFICES ASSUME NEW t \in table', shape[t].key # NoKey,
                        idem'[Home(t)][shape[t].key] # t
                 PROVE  \E u \in After(shape[t].key) \ {t} :
                          Home(u) = Home(t) /\ (u \in table' => born'[u] >= born'[t])
    BY <1>6, KeyFindsAfter
  <2>2. t # r
    <3>1. CASE k0 # NoKey
      <4>1. idem'[Home(r)][k0] = r BY <1>1, <1>3, <3>1
      <4> QED BY <2>1, <4>1
    <3> QED BY <2>1, <3>1
  <2>3. t \in table /\ t \in Requests /\ Admitted(t) BY <1>1, <1>8, <2>2
  <2>4. Home(t) \in Workers /\ shape[t].key \in Keys BY <2>1, <2>3, ShapesAreOK
  <2>5. CASE idem[Home(t)][shape[t].key] = t
    <3>1. Home(r) = Home(t) /\ k0 = shape[t].key BY <1>1, <1>3, <2>1, <2>4, <2>5
    <3>2. r \in After(shape[t].key) \ {t} BY <1>5, <2>2, <3>1
    <3>3. born'[r] = clock /\ born'[t] <= clock /\ clock \in Int /\ born'[t] \in Int
      BY <1>1, <1>7, <2>3, TaskAssumption
    <3> QED BY <3>1, <3>2, <3>3
  <2>6. CASE idem[Home(t)][shape[t].key] # t
    <3>1. PICK u \in AdmittedFor(shape[t].key) \ {t} :
              Home(u) = Home(t) /\ (u \in table => born[u] >= born[t])
      BY <2>1, <2>3, <2>6 DEF Keyed, KeyFindsItsTask
    <3>2. u \in After(shape[t].key) /\ born'[u] = born[u] /\ born'[t] = born[t] /\ u # r
      BY <1>5, <1>7, <1>9, <2>3, <3>1
    <3> QED BY <1>1, <3>1, <3>2
  <2> QED BY <2>5, <2>6
<1> QED BY <1>10, <1>11, <1>12, <1>13 DEF Keyed

(* Past the reservation: without a key, or on to the claim.                  *)
LEMMA ProceedKeyed ==
    ASSUME TaskTypes, Life, Keyed, NEW r \in Requests, pc[r] = "reserving", Proceed(r)
    PROVE  Keyed'
<1>1. CASE shape[r].key = NoKey /\ Admit(r) /\ UNCHANGED <<shape, claims>>
  BY <1>1, AdmitKeyed DEF Entitled
<1>2. CASE Goto(r, "claiming") /\ UNCHANGED <<shape, taskVars, claims>>
  <2>1. KeysRest BY <1>2 DEF KeysRest, taskVars, Admitted
  <2>2. \A q \in Requests : pc'[q] = "reading" => pc[q] = "reading"
    BY <1>2 DEF Goto, TaskTypes, RequestTypes
  <2> QED BY <2>1, <2>2, KeysRestOK
<1> QED BY <1>1, <1>2 DEF Proceed

(* Every step of a request.                                                  *)
LEMMA RequestKeyed ==
    ASSUME TaskTypes, Life, Keyed, NEW r \in Requests, RequestStep(r) \/ DeleteRecord(r)
    PROVE  Keyed'
<1> USE DEF redisVars
<1> DEFINE NoneReads == \A q \in Requests : pc'[q] = "reading" => pc[q] = "reading"
<1>r. KeysRest /\ NoneReads => Keyed' BY KeysRestOK
<1>k. pc[r] \in {"claiming", "reading"} => shape[r].key \in Keys BY DEF Life, Fresh
<1>1. CASE ReserveBudget(r)
  <2>1. CASE UNCHANGED <<shape, taskVars, claims>> /\ (UNCHANGED pc \/ Answer(r, "overbudget"))
    <3>1. KeysRest BY <2>1 DEF KeysRest, taskVars, Admitted
    <3>2. NoneReads BY <2>1 DEF Answer, TaskTypes, RequestTypes
    <3> QED BY <1>r, <3>1, <3>2
  <2>2. CASE Proceed(r) BY <1>1, <2>2, ProceedKeyed DEF ReserveBudget
  <2> QED BY <1>1, <2>1, <2>2 DEF ReserveBudget
<1>2. CASE ReserveFails(r) BY <1>2, ProceedKeyed DEF ReserveFails
<1>3. CASE ClaimKey(r)
  <2>0. pc[r] = "claiming" /\ UNCHANGED shape BY <1>3 DEF ClaimKey
  <2>1. CASE /\ ~ Live(shape[r].key) /\ Admit(r)
             /\ claims' = [claims EXCEPT ![shape[r].key] =
                               [owner |-> r, expires |-> clock + ClaimTTL]]
    <3>1. Entitled(r) BY <1>k, <2>0, <2>1 DEF Entitled
    <3> QED BY <2>0, <2>1, <3>1, AdmitKeyed
  <2>2. CASE Live(shape[r].key) /\ Goto(r, "reading") /\ UNCHANGED <<taskVars, claims>>
    <3>1. KeysRest BY <2>0, <2>2 DEF KeysRest, taskVars, Admitted
    <3>2. claims[shape[r].key].owner \in AdmittedFor(shape[r].key)
      BY <1>k, <2>0, <2>2 DEF Keyed, Named, Live
    <3>3. \A q \in Requests : pc'[q] = "reading" => pc[q] = "reading" \/ q = r
      BY <2>2 DEF Goto, TaskTypes, RequestTypes
    <3> QED BY <3>1, <3>2, <3>3, KeysRestOK
  <2> QED BY <1>3, <2>1, <2>2 DEF ClaimKey
<1>4. CASE ReadClaim(r)
  <2>0. pc[r] = "reading" /\ UNCHANGED <<shape, claims>> BY <1>4 DEF ReadClaim
  <2>1. CASE pc' = [pc EXCEPT ![r] = "releasing"] /\ UNCHANGED taskVars
    <3>1. KeysRest BY <2>0, <2>1 DEF KeysRest, taskVars, Admitted
    <3>2. NoneReads BY <2>1 DEF TaskTypes, RequestTypes
    <3> QED BY <1>r, <3>1, <3>2
  <2>2. CASE ~ Live(shape[r].key) /\ Admit(r)
    <3>1. Entitled(r) BY <1>k, <2>0, <2>2 DEF Entitled
    <3> QED BY <2>0, <2>2, <3>1, AdmitKeyed
  <2> QED BY <1>4, <2>1, <2>2 DEF ReadClaim
<1>5. CASE ClaimFails(r)
  <2>1. Entitled(r) BY <1>5, <1>k DEF ClaimFails, Fails, Entitled
  <2> QED BY <1>5, <2>1, AdmitKeyed DEF ClaimFails
<1>6. CASE ReleaseHold(r) \/ MirrorRead(r) \/ MirrorWrite(r) \/ MirrorFails(r) \/ DeleteRecord(r)
  <2>1. UNCHANGED <<shape, taskVars, claims>>
    BY <1>6 DEF ReleaseHold, MirrorRead, MirrorWrite, MirrorFails, DeleteRecord
  <2>2. \/ UNCHANGED pc \/ Goto(r, "answered") \/ Goto(r, "mirror_set") \/ Answer(r, r)
    BY <1>6 DEF ReleaseHold, MirrorRead, MirrorWrite, MirrorFails, DeleteRecord
  <2>3. NoneReads BY <2>2 DEF Goto, Answer, TaskTypes, RequestTypes
  <2>4. KeysRest BY <2>1 DEF KeysRest, taskVars, Admitted
  <2> QED BY <1>r, <2>3, <2>4
<1> QED BY <1>1, <1>2, <1>3, <1>4, <1>5, <1>6 DEF RequestStep

(* Runners, shutdown and the clock know nothing of keys.                     *)
LEMMA AsideKeyed ==
    ASSUME TaskTypes, Keyed, Aside, table' \subseteq table,
           \A q \in Requests : Admitted(q)' <=> Admitted(q)
    PROVE  Keyed'
<1>1. KeysRest BY DEF KeysRest, Aside, Admitted
<1>2. \A q \in Requests : pc'[q] = "reading" => pc[q] = "reading" BY DEF Aside
<1> QED BY <1>1, <1>2, KeysRestOK

-----------------------------------------------------------------------------
(* The budget *)

\* What callers do to the guard: a flow reserves before it spends, and spends
\* while its hold is open, or has reserved nothing.
ReserveStep(r) ==
    /\ recorded[r] = 0
    /\ \/ \E c \in Clients, est \in Nat : ReserveFree(r, c, est) \/ CheckGlobal(r, c, est)
       \/ CheckClient(r)
       \/ ReserveRaises(r)
SpendStep(t) ==
    /\ Open(t) \/ hold[t].est = 0
    /\ \E a \in Nat : RecordSpend(t, a)
GuardStep ==
    \/ UNCHANGED budgetVars
    \/ \E r \in Requests : ReserveStep(r) \/ SpendStep(r) \/ \E a \in Nat : Settle(r, a)

(* The steps of the task manager are such.                                   *)
LEMMA EveryStepGuards ==
    ASSUME TaskTypes, BudgetTypes, Flows, [Next]_vars
    PROVE  GuardStep
<1> USE DEF GuardStep
<1>1. ASSUME NEW r \in Requests, RequestStep(r) PROVE GuardStep
  <2>0. shape[r].client \in Clients /\ Estimate \in Nat
    BY ShapesAreOK, TaskAssumption
  <2>1. CASE ReserveBudget(r)
    <3>1. ReserveStep(r) BY <2>0, <2>1 DEF ReserveBudget, ReserveStep, Flows
    <3> QED BY <3>1
  <2>2. CASE ReserveFails(r)
    <3>1. ReserveStep(r) BY <2>2 DEF ReserveFails, ReserveStep, Flows
    <3> QED BY <3>1
  <2>3. CASE ReleaseHold(r)
    <3>1. Settle(r, 0) /\ 0 \in Nat BY <2>3 DEF ReleaseHold
    <3> QED BY <3>1
  <2>4. UNCHANGED budgetVars \/ ReserveBudget(r) \/ ReserveFails(r) \/ ReleaseHold(r)
    BY <1>1 DEF RequestStep, ClaimKey, ReadClaim, ClaimFails, MirrorRead, MirrorWrite, MirrorFails
  <2> QED BY <2>1, <2>2, <2>3, <2>4
<1>2. ASSUME NEW t \in Requests, RunnerStep(t) PROVE GuardStep
  <2>1. CASE SettleTask(t)
    <3>1. Settle(t, recorded[t]) \/ Settle(t, 0) BY <2>1 DEF SettleTask
    <3>2. recorded[t] \in Nat /\ 0 \in Nat BY DEF BudgetTypes
    <3> QED BY <3>1, <3>2
  <2>2. UNCHANGED budgetVars \/ SettleTask(t)
    BY <1>2 DEF RunnerStep, StartRunner, TakeSlot, FinishSolve, CancelSolve, CutShort, FinalRead,
               FinalWrite, FinalFails
  <2> QED BY <2>1, <2>2
<1>3. ASSUME NEW t \in Requests, SpendWhileSolving(t) PROVE GuardStep
  <2>1. Open(t) \/ hold[t].est = 0 BY <1>3 DEF SpendWhileSolving, Flows, Open
  <2>2. RecordSpend(t, 1) /\ 1 \in Nat BY <1>3 DEF SpendWhileSolving
  <2>3. SpendStep(t) BY <2>1, <2>2 DEF SpendStep
  <2> QED BY <2>3
<1>4. ASSUME NEW t \in Requests, DeleteRecord(t) PROVE GuardStep BY <1>4 DEF DeleteRecord
<1>5. ASSUME NEW r \in Requests, NEW s \in Shapes, Submit(r, s) PROVE GuardStep
  BY <1>5 DEF Submit
<1>6. ProcessStep \/ UNCHANGED vars => GuardStep BY ProcessTyped
<1> QED BY <1>1, <1>2, <1>3, <1>4, <1>5, <1>6 DEF Next, ProcessStep

(* The guard keeps its types.                                                *)
LEMMA GuardTypes ==
    ASSUME BudgetTypes, GuardStep
    PROVE  BudgetTypes'
<1> USE DEF BudgetTypes, budgetVars, accountVars
<1>1. CASE UNCHANGED budgetVars BY <1>1
<1>2. ASSUME NEW r \in Requests, NEW x \in HoldState, NEW c \in Clients, NEW e \in Nat,
             Issue(r, x, c, e)
      PROVE  hold' \in [Requests -> Holds]
  <2>1. [state |-> x, client |-> c, est |-> e] \in Holds BY DEF Holds
  <2> QED BY <1>2, <2>1 DEF Issue
<1>3. ASSUME NEW r \in Requests, ReserveStep(r) PROVE BudgetTypes'
  <2>0. /\ 0 \in Nat /\ hold[r].client \in Clients /\ hold[r].est \in Nat
        /\ {"none", "open", "checking", "denied"} \subseteq HoldState
    BY DEF Holds, HoldState
  <2>1. ASSUME NEW c \in Clients, NEW est \in Nat, ReserveFree(r, c, est) PROVE BudgetTypes'
    <3>1. hold' \in [Requests -> Holds] BY <1>2, <2>0, <2>1 DEF ReserveFree
    <3> QED BY <2>1, <3>1 DEF ReserveFree
  <2>2. ASSUME NEW c \in Clients, NEW est \in Nat, CheckGlobal(r, c, est) PROVE BudgetTypes'
    <3>1. hold' \in [Requests -> Holds]
      BY <1>2, <2>0, <2>2 DEF CheckGlobal, CheckGlobalAt
    <3> QED BY <2>2, <3>1 DEF CheckGlobal, CheckGlobalAt
  <2>3. CASE CheckClient(r)
    <3>1. hold' \in [Requests -> Holds]
      BY <1>2, <2>0, <2>3 DEF CheckClient, CheckClientAt
    <3>2. PICK e \in Nat : /\ inflightGlobal' = inflightGlobal + e
                           /\ inflightBy' = [inflightBy EXCEPT ![hold[r].client] = @ + e]
      BY <2>0, <2>3 DEF CheckClient, CheckClientAt
    <3> QED BY <2>0, <2>3, <3>1, <3>2 DEF CheckClient, CheckClientAt
  <2>4. CASE ReserveRaises(r)
    <3>1. hold' \in [Requests -> Holds] BY <1>2, <2>0, <2>4 DEF ReserveRaises
    <3> QED BY <2>4, <3>1 DEF ReserveRaises
  <2> QED BY <1>3, <2>1, <2>2, <2>3, <2>4 DEF ReserveStep
<1>4. ASSUME NEW r \in Requests, SpendStep(r) PROVE BudgetTypes'
  BY <1>4 DEF SpendStep, RecordSpend
<1>5. ASSUME NEW r \in Requests, NEW a \in Nat, Settle(r, a) PROVE BudgetTypes'
  <2>1. CASE ~ Open(r) BY <1>1, <1>5, <2>1 DEF Settle
  <2>2. CASE Open(r)
    <3>0. hold[r].client \in Clients /\ hold[r].est \in Nat BY DEF Holds
    <3>1. \A n \in Nat : Released(n, hold[r].est) \in Nat BY <3>0 DEF Released, Larger
    <3>2. hold' \in [Requests -> Holds] BY <1>5, <2>2 DEF Settle, Holds, HoldState
    <3> QED BY <1>5, <2>2, <3>0, <3>1, <3>2 DEF Settle
  <2> QED BY <2>1, <2>2
<1> QED BY <1>1, <1>3, <1>4, <1>5 DEF GuardStep

\* The in-flight totals g and b are sums over all requests of the open estimates in H.
InflightIs(H, g, b) ==
    /\ g = SumOf(OpenEst(H), Requests)
    /\ \A c \in Clients : b[c] = SumOf(PartOf(c, H, OpenEst(H)), Requests)

(* The estimates that are open are natural numbers, and so is what is        *)
(* recorded of a client.                                                     *)
LEMMA PartsAreNat ==
    ASSUME NEW H \in [Requests -> Holds], NEW c
    PROVE  /\ \A h \in Requests : OpenEst(H)[h] \in Nat /\ PartOf(c, H, OpenEst(H))[h] \in Nat
           /\ \A R \in [Requests -> Nat], h \in Requests :
                 PartOf(c, H, R)[h] \in Nat /\ WeightIn(H, R)[h] \in Nat
                 /\ PartOf(c, H, WeightIn(H, R))[h] \in Nat
BY DEF OpenEst, PartOf, WeightIn, Holds

(* So their sums are of integers.                                            *)
LEMMA WeightsAreWhole ==
    ASSUME NEW H \in [Requests -> Holds], NEW R \in [Requests -> Nat], NEW c
    PROVE  /\ Whole(WeightIn(H, R), Requests)
           /\ Whole(PartOf(c, H, WeightIn(H, R)), Requests)
<1>1. \A h \in Requests : WeightIn(H, R)[h] \in Nat /\ PartOf(c, H, WeightIn(H, R))[h] \in Nat
  BY PartsAreNat
<1> QED BY <1>1 DEF Whole

(* The sums of the guard, over a part of the requests, are sums over all.    *)
LEMMA WholeSums ==
    ASSUME NEW H \in [Requests -> Holds]
    PROVE  /\ SumFunctionOnSet([h \in Requests |-> H[h].est], {h \in Requests : H[h].state = "open"})
                 = SumOf(OpenEst(H), Requests)
           /\ \A c : SumFunctionOnSet([h \in Requests |-> H[h].est],
                         {h \in {g \in Requests : H[g].client = c} : H[h].state = "open"})
                 = SumOf(PartOf(c, H, OpenEst(H)), Requests)
           /\ \A c : \A R \in [Requests -> Nat] :
                 SumFunctionOnSet(R, {h \in Requests : H[h].client = c})
                 = SumOf(PartOf(c, H, R), Requests)
<1> DEFINE E == [h \in Requests |-> H[h].est]
           Opens == {h \in Requests : H[h].state = "open"}
           OpensOf(c) == {h \in {g \in Requests : H[g].client = c} : H[h].state = "open"}
           Of(c) == {h \in Requests : H[h].client = c}
<1>1. IsFiniteSet(Requests) BY CapsAssumption
<1>2. Whole(E, Requests) BY DEF Whole, Holds
<1>3. SumOf(E, Opens) = SumOf(OpenEst(H), Requests)
  <2>1. [h \in Requests |-> IF h \in Opens THEN E[h] ELSE 0] = OpenEst(H) BY DEF OpenEst
  <2>2. Opens \in SUBSET Requests OBVIOUS
  <2>3. SumOf(E, Opens) = SumOf([h \in Requests |-> IF h \in Opens THEN E[h] ELSE 0], Requests)
    <3> HIDE DEF E, Opens
    <3> QED BY <1>1, <1>2, <2>2, SumFilter
  <2> QED BY <2>1, <2>3
<1>4. ASSUME NEW c PROVE SumOf(E, OpensOf(c)) = SumOf(PartOf(c, H, OpenEst(H)), Requests)
  <2>1. [h \in Requests |-> IF h \in OpensOf(c) THEN E[h] ELSE 0] = PartOf(c, H, OpenEst(H))
    BY DEF OpenEst, PartOf
  <2>2. OpensOf(c) \in SUBSET Requests OBVIOUS
  <2>3. SumOf(E, OpensOf(c)) = SumOf([h \in Requests |-> IF h \in OpensOf(c) THEN E[h] ELSE 0], Requests)
    <3> HIDE DEF E, OpensOf
    <3> QED BY <1>1, <1>2, <2>2, SumFilter
  <2> QED BY <2>1, <2>3
<1>5. ASSUME NEW c, NEW R \in [Requests -> Nat]
      PROVE  SumOf(R, Of(c)) = SumOf(PartOf(c, H, R), Requests)
  <2>1. [h \in Requests |-> IF h \in Of(c) THEN R[h] ELSE 0] = PartOf(c, H, R) BY DEF PartOf
  <2>2. Of(c) \in SUBSET Requests OBVIOUS
  <2>3. Whole(R, Requests) BY DEF Whole
  <2>4. SumOf(R, Of(c)) = SumOf([h \in Requests |-> IF h \in Of(c) THEN R[h] ELSE 0], Requests)
    <3> HIDE DEF Of
    <3> QED BY <1>1, <2>2, <2>3, SumFilter
  <2> QED BY <2>1, <2>4
<1> QED BY <1>3, <1>4, <1>5 DEF SumOf

(* The invariant of the guard says just that,                                *)
LEMMA InflightForm ==
    ASSUME BudgetTypes, InflightIsOpenHolds
    PROVE  InflightIs(hold, inflightGlobal, inflightBy)
<1>1. hold \in [Requests -> Holds] BY DEF BudgetTypes
<1> QED BY <1>1, WholeSums DEF InflightIsOpenHolds, InflightIs, Held, Open, HoldsOf

(* ... and said of the state after the step.                                 *)
LEMMA InflightAfter ==
    ASSUME BudgetTypes', InflightIs(hold', inflightGlobal', inflightBy')
    PROVE  InflightIsOpenHolds'
<1>1. hold' \in [Requests -> Holds] BY DEF BudgetTypes
<1> QED BY <1>1, WholeSums DEF InflightIsOpenHolds, InflightIs, Held, Open, HoldsOf

(* When one hold moves, the sums move with it.                               *)
LEMMA OneHoldMoves ==
    ASSUME NEW H \in [Requests -> Holds], NEW K \in [Requests -> Holds], NEW r \in Requests,
           \A g \in Requests \ {r} : K[g] = H[g]
    PROVE  /\ SumOf(OpenEst(K), Requests)
                 = SumOf(OpenEst(H), Requests) - OpenEst(H)[r] + OpenEst(K)[r]
           /\ \A c : SumOf(PartOf(c, K, OpenEst(K)), Requests)
                 = SumOf(PartOf(c, H, OpenEst(H)), Requests)
                   - PartOf(c, H, OpenEst(H))[r] + PartOf(c, K, OpenEst(K))[r]
<1>1. IsFiniteSet(Requests) BY CapsAssumption
<1>2. \A c : /\ Whole(OpenEst(H), Requests) /\ Whole(OpenEst(K), Requests)
             /\ Whole(PartOf(c, H, OpenEst(H)), Requests)
             /\ Whole(PartOf(c, K, OpenEst(K)), Requests)
  BY PartsAreNat DEF Whole
<1>3. \A c : \A g \in Requests : g # r =>
          OpenEst(H)[g] = OpenEst(K)[g]
          /\ PartOf(c, H, OpenEst(H))[g] = PartOf(c, K, OpenEst(K))[g]
  BY DEF OpenEst, PartOf
<1> QED BY <1>1, <1>2, <1>3, SumChange

(* The guard's totals stay the sum of the open holds.                        *)
LEMMA GuardInflight ==
    ASSUME BudgetTypes, BudgetTypes', InflightIsOpenHolds, GuardStep
    PROVE  InflightIsOpenHolds'
<1>0. /\ hold \in [Requests -> Holds] /\ hold' \in [Requests -> Holds]
      /\ inflightGlobal \in Nat /\ inflightBy \in [Clients -> Nat]
  BY DEF BudgetTypes
<1>i. InflightIs(hold, inflightGlobal, inflightBy) BY InflightForm
<1>1. CASE UNCHANGED <<hold, inflightGlobal, inflightBy>>
  BY <1>1, <1>i, InflightAfter
<1>2. ASSUME NEW r \in Requests, OnlyHoldOf(r), OpenEst(hold)[r] = 0, OpenEst(hold')[r] = 0,
             UNCHANGED <<inflightGlobal, inflightBy>>
      PROVE  InflightIsOpenHolds'
  <2>1. OpenEst(hold') = OpenEst(hold) BY <1>0, <1>2 DEF OpenEst, OnlyHoldOf
  <2>2. \A c : PartOf(c, hold', OpenEst(hold')) = PartOf(c, hold, OpenEst(hold))
    <3>1. ASSUME NEW c PROVE PartOf(c, hold', OpenEst(hold')) = PartOf(c, hold, OpenEst(hold))
      BY <1>0, <1>2 DEF OpenEst, OnlyHoldOf, PartOf
    <3> QED BY <3>1
  <2>3. InflightIs(hold', inflightGlobal', inflightBy') BY <1>2, <1>i, <2>1, <2>2 DEF InflightIs
  <2> QED BY <2>3, InflightAfter
<1>3. ASSUME NEW r \in Requests, NEW e \in Int, OnlyHoldOf(r),
             hold'[r].client = hold[r].client,
             OpenEst(hold')[r] = OpenEst(hold)[r] + e,
             inflightGlobal' = inflightGlobal + e,
             inflightBy' = [inflightBy EXCEPT ![hold[r].client] = @ + e]
      PROVE  InflightIsOpenHolds'
  <2> DEFINE c0 == hold[r].client
  <2>0. \A g \in Requests \ {r} : hold'[g] = hold[g] BY <1>3 DEF OnlyHoldOf
  <2>n. OpenEst(hold)[r] \in Nat BY <1>0, PartsAreNat
  <2>1. PICK n \in Int : n = OpenEst(hold)[r] BY <2>n
  <2>2. OpenEst(hold')[r] = n + e BY <1>3, <2>1
  <2>3. inflightGlobal = SumOf(OpenEst(hold), Requests) BY <1>i DEF InflightIs
  <2>4. inflightGlobal' = SumOf(OpenEst(hold'), Requests)
    <3>1. SumOf(OpenEst(hold'), Requests)
              = SumOf(OpenEst(hold), Requests) - OpenEst(hold)[r] + OpenEst(hold')[r]
      BY <1>0, <2>0, OneHoldMoves
    <3>2. SumOf(OpenEst(hold'), Requests) = inflightGlobal - n + (n + e)
      BY <2>1, <2>2, <2>3, <3>1
    <3> QED BY <1>0, <1>3, <3>2
  <2>5. ASSUME NEW c \in Clients
        PROVE  inflightBy'[c] = SumOf(PartOf(c, hold', OpenEst(hold')), Requests)
    <3>1. SumOf(PartOf(c, hold', OpenEst(hold')), Requests)
              = SumOf(PartOf(c, hold, OpenEst(hold)), Requests)
                - PartOf(c, hold, OpenEst(hold))[r] + PartOf(c, hold', OpenEst(hold'))[r]
      BY <1>0, <2>0, OneHoldMoves
    <3>2. SumOf(PartOf(c, hold, OpenEst(hold)), Requests) = inflightBy[c]
      BY <1>i DEF InflightIs
    <3>3. /\ PartOf(c, hold, OpenEst(hold))[r] = IF c0 = c THEN n ELSE 0
          /\ PartOf(c, hold', OpenEst(hold'))[r] = IF c0 = c THEN n + e ELSE 0
      BY <1>3, <2>1, <2>2 DEF PartOf
    <3>4. PICK m \in Int : m = inflightBy[c] BY <1>0
    <3>5. CASE c0 = c
      <4>1. inflightBy'[c] = m + e BY <1>0, <1>3, <3>4, <3>5
      <4>2. SumOf(PartOf(c, hold', OpenEst(hold')), Requests) = m - n + (n + e)
        BY <3>1, <3>2, <3>3, <3>4, <3>5
      <4> QED BY <4>1, <4>2
    <3>6. CASE c0 # c
      <4>1. inflightBy'[c] = m BY <1>0, <1>3, <3>4, <3>6
      <4>2. SumOf(PartOf(c, hold', OpenEst(hold')), Requests) = m - 0 + 0
        BY <3>1, <3>2, <3>3, <3>4, <3>6
      <4> QED BY <4>1, <4>2
    <3> QED BY <3>5, <3>6
  <2>6. InflightIs(hold', inflightGlobal', inflightBy') BY <2>4, <2>5 DEF InflightIs
  <2> QED BY <2>6, InflightAfter
<1>4. ASSUME NEW r \in Requests, ReserveStep(r) PROVE InflightIsOpenHolds'
  <2> USE DEF accountVars
  <2>1. ASSUME NEW c \in Clients, NEW est \in Nat, ReserveFree(r, c, est)
        PROVE  InflightIsOpenHolds'
    <3>1. OnlyHoldOf(r) /\ OpenEst(hold)[r] = 0 /\ OpenEst(hold')[r] = 0
      BY <1>0, <2>1 DEF ReserveFree, Issue, OnlyHoldOf, OpenEst
    <3> QED BY <1>2, <2>1, <3>1 DEF ReserveFree
  <2>2. ASSUME NEW c \in Clients, NEW est \in Nat, CheckGlobal(r, c, est)
        PROVE  InflightIsOpenHolds'
    <3>1. OnlyHoldOf(r) /\ OpenEst(hold)[r] = 0 /\ OpenEst(hold')[r] = 0
      BY <1>0, <2>2 DEF CheckGlobal, CheckGlobalAt, Issue, OnlyHoldOf, OpenEst
    <3> QED BY <1>2, <2>2, <3>1 DEF CheckGlobal, CheckGlobalAt
  <2>3. CASE ReserveRaises(r)
    <3>1. OnlyHoldOf(r) /\ OpenEst(hold)[r] = 0 /\ OpenEst(hold')[r] = 0
      BY <1>0, <2>3 DEF ReserveRaises, Issue, OnlyHoldOf, OpenEst
    <3> QED BY <1>2, <2>3, <3>1 DEF ReserveRaises
  <2>4. CASE CheckClient(r)
    <3>1. OnlyHoldOf(r) /\ OpenEst(hold)[r] = 0 /\ hold[r].est \in Nat
          /\ hold'[r].client = hold[r].client
      BY <1>0, <2>4 DEF CheckClient, CheckClientAt, Issue, OnlyHoldOf, OpenEst, Holds
    <3>2. PICK e \in Nat : /\ OpenEst(hold')[r] = e
                           /\ inflightGlobal' = inflightGlobal + e
                           /\ inflightBy' = [inflightBy EXCEPT ![hold[r].client] = @ + e]
      BY <1>0, <2>4, <3>1 DEF CheckClient, CheckClientAt, Issue, OpenEst
    <3>3. e \in Int /\ OpenEst(hold')[r] = OpenEst(hold)[r] + e BY <3>1, <3>2
    <3> QED BY <1>3, <3>1, <3>2, <3>3
  <2> QED BY <1>4, <2>1, <2>2, <2>3, <2>4 DEF ReserveStep
<1>5. ASSUME NEW r \in Requests, NEW a \in Nat, Settle(r, a), Open(r) PROVE InflightIsOpenHolds'
  <2>0. hold[r].client \in Clients /\ hold[r].est \in Nat BY <1>0 DEF Holds
  <2> DEFINE e == hold[r].est
  <2>1. /\ OnlyHoldOf(r) /\ hold'[r].client = hold[r].client
        /\ OpenEst(hold)[r] = e /\ OpenEst(hold')[r] = 0
    BY <1>0, <1>5 DEF Settle, OnlyHoldOf, OpenEst, Open, Holds
  <2>2. IsFiniteSet(Requests) BY CapsAssumption
  <2>3. e <= inflightGlobal
    <3>1. OpenEst(hold)[r] <= SumOf(OpenEst(hold), Requests)
      BY <1>0, <2>2, PartsAreNat, SumAtLeast
    <3> QED BY <1>i, <2>1, <3>1 DEF InflightIs
  <2>4. e <= inflightBy[hold[r].client]
    <3> DEFINE c == hold[r].client
    <3>1. PartOf(c, hold, OpenEst(hold))[r] <= SumOf(PartOf(c, hold, OpenEst(hold)), Requests)
      BY <1>0, <2>2, PartsAreNat, SumAtLeast
    <3>2. PartOf(c, hold, OpenEst(hold))[r] = e BY <2>1 DEF PartOf
    <3> QED BY <1>i, <2>0, <3>1, <3>2 DEF InflightIs
  <2>5. \A n \in Nat : e <= n => Released(n, e) = n + (-e) BY <2>0 DEF Released, Larger
  <2>6. inflightGlobal' = inflightGlobal + (-e)
    BY <1>0, <1>5, <2>3, <2>5 DEF Settle
  <2>7. inflightBy' = [inflightBy EXCEPT ![hold[r].client] = @ + (-e)]
    BY <1>0, <1>5, <2>0, <2>4, <2>5 DEF Settle
  <2>8. OpenEst(hold')[r] = OpenEst(hold)[r] + (-e) /\ -e \in Int BY <2>0, <2>1
  <2> QED BY <1>3, <2>1, <2>6, <2>7, <2>8
<1>6. ASSUME NEW r \in Requests, NEW a \in Nat, Settle(r, a), ~ Open(r) PROVE InflightIsOpenHolds'
  BY <1>1, <1>6 DEF Settle, budgetVars, accountVars
<1>7. ASSUME NEW r \in Requests, SpendStep(r) PROVE InflightIsOpenHolds'
  BY <1>1, <1>7 DEF SpendStep, RecordSpend
<1> QED BY <1>1, <1>4, <1>5, <1>6, <1>7 DEF GuardStep, budgetVars, accountVars

\* One flow moves, to where its hold may be.
FlowMoves(r) ==
    /\ OnlyHoldOf(r)
    /\ \A q \in Requests \ {r} : pc'[q] = pc[q] /\ runner'[q] = runner[q] /\ recorded'[q] = recorded[q]
    /\ pc'[r] \in {"idle", "reserving"} => recorded'[r] = 0
    /\ pc'[r] \in {"claiming", "reading"} => hold'[r].state \in {"none", "open"}
    /\ hold'[r].state = "checking" =>
          pc'[r] = "reserving" /\ (hold[r].state = "checking" \/ ~ Locked)
    /\ hold'[r].state = "none" => hold'[r].est = 0
    /\ runner'[r] \in {"spawned", "queued", "solving"} => hold'[r].state \in {"none", "open"}

(* Then every flow is where its hold may be.                                 *)
LEMMA FlowsMove ==
    ASSUME Flows, NEW r \in Requests, FlowMoves(r)
    PROVE  Flows'
<1>1. ASSUME NEW g \in Requests, NEW h \in Requests,
             hold'[g].state = "checking", hold'[h].state = "checking"
      PROVE  g = h
  <2>1. CASE g # r /\ h # r BY <1>1, <2>1 DEF FlowMoves, OnlyHoldOf, Flows
  <2>2. CASE g = r \/ h = r
    <3>1. \A q \in Requests \ {r} : hold'[q].state = "checking" => hold[q].state = "checking"
      BY DEF FlowMoves, OnlyHoldOf
    <3>2. hold'[r].state = "checking" => hold[r].state = "checking" \/ ~ Locked
      BY DEF FlowMoves
    <3> QED BY <1>1, <2>2, <3>1, <3>2 DEF Flows, Locked
  <2> QED BY <2>1, <2>2
<1>2. ASSUME NEW h \in Requests
      PROVE  /\ pc'[h] \in {"idle", "reserving"} => recorded'[h] = 0
             /\ pc'[h] \in {"claiming", "reading"} => hold'[h].state \in {"none", "open"}
             /\ hold'[h].state = "checking" => pc'[h] = "reserving"
             /\ hold'[h].state = "none" => hold'[h].est = 0
             /\ runner'[h] \in {"spawned", "queued", "solving"} => hold'[h].state \in {"none", "open"}
  <2>1. CASE h = r BY <2>1 DEF FlowMoves
  <2>2. CASE h # r BY <1>2, <2>2 DEF FlowMoves, OnlyHoldOf, Flows
  <2> QED BY <2>1, <2>2
<1> QED BY <1>1, <1>2 DEF Flows

(* _admit starts a runner whose hold is open, or was never taken.            *)
LEMMA AdmitMovesFlow ==
    ASSUME TaskTypes, Flows, NEW r \in Requests, Admit(r), OnlyHoldOf(r), UNCHANGED recorded,
           hold'[r].state \in {"none", "open"}, hold'[r].state = "none" => hold'[r].est = 0
    PROVE  FlowMoves(r)
<1>1. /\ pc' = [pc EXCEPT ![r] = "mirror_get"] /\ runner' = [runner EXCEPT ![r] = "spawned"]
  BY DEF Admit, Goto
<1> QED BY <1>1 DEF FlowMoves, TaskTypes, RequestTypes, TableTypes

(* The steps of a request, on its flow.                                      *)
LEMMA RequestFlows ==
    ASSUME TaskTypes, BudgetTypes, Fresh, Flows, NEW r \in Requests, RequestStep(r)
    PROVE  Flows'
<1> USE DEF TaskTypes, RequestTypes, TableTypes
<1>h. UNCHANGED hold => OnlyHoldOf(r) BY DEF OnlyHoldOf
<1>r. pc[r] \in Before => runner[r] = "none" BY DEF Fresh
<1>a. ASSUME Goto(r, "claiming"), UNCHANGED <<taskVars, recorded>>, OnlyHoldOf(r),
             pc[r] = "reserving",
             hold'[r].state \in {"none", "open"}, hold'[r].state = "none" => hold'[r].est = 0
      PROVE  FlowMoves(r)
  <2>1. pc' = [pc EXCEPT ![r] = "claiming"] /\ runner' = runner BY <1>a DEF Goto, taskVars
  <2> QED BY <1>a, <1>r, <2>1 DEF FlowMoves, Before
<1>b. ASSUME Proceed(r), UNCHANGED recorded, OnlyHoldOf(r), pc[r] = "reserving",
             hold'[r].state \in {"none", "open"}, hold'[r].state = "none" => hold'[r].est = 0
      PROVE  FlowMoves(r)
  BY <1>a, <1>b, AdmitMovesFlow DEF Proceed
<1>1. CASE ReserveBudget(r)
  <2>0. /\ OnlyHoldOf(r) /\ UNCHANGED recorded /\ pc[r] = "reserving"
        /\ hold[r].state \in {"none", "checking"}
    BY <1>1, ReserveMovesOne
  <2>1. CASE hold'[r].state = "checking" /\ UNCHANGED <<pc, taskVars>>
    <3>1. hold[r].state = "checking" \/ ~ Locked
      <4>1. ~ ReserveFree(r, shape[r].client, Estimate) /\ ~ (hold[r].state = "none" /\ CheckClient(r))
        BY <2>1 DEF ReserveFree, Issue, CheckClient, CheckClientAt, BudgetTypes
      <4> QED BY <1>1, <2>0, <4>1 DEF ReserveBudget, CheckGlobal, CheckGlobalAt
    <3>2. UNCHANGED <<pc, runner>> /\ recorded'[r] = 0 BY <2>0, <2>1 DEF taskVars, Flows
    <3>3. FlowMoves(r) BY <1>r, <2>0, <2>1, <3>1, <3>2 DEF FlowMoves, Before
    <3> QED BY <3>3, FlowsMove
  <2>2. CASE hold'[r].state = "denied" /\ Answer(r, "overbudget") /\ UNCHANGED taskVars
    <3>1. pc' = [pc EXCEPT ![r] = "answered"] /\ UNCHANGED runner BY <2>2 DEF Answer, taskVars
    <3>2. FlowMoves(r) BY <1>r, <2>0, <2>2, <3>1 DEF FlowMoves, Before
    <3> QED BY <3>2, FlowsMove
  <2>3. CASE hold'[r].state = "open" /\ Proceed(r)
    BY <1>b, <2>0, <2>3, FlowsMove
  <2> QED BY <1>1, <2>1, <2>2, <2>3 DEF ReserveBudget
<1>2. CASE ReserveFails(r)
  <2>0. OnlyHoldOf(r) /\ UNCHANGED recorded /\ pc[r] = "reserving" /\ Proceed(r)
    BY <1>2, ReserveMovesOne DEF ReserveFails
  <2>1. hold'[r].state = "none" /\ hold'[r].est = 0
    BY <1>2 DEF ReserveFails, ReserveRaises, Issue, BudgetTypes
  <2> QED BY <1>b, <2>0, <2>1, FlowsMove
<1>3. CASE ClaimKey(r) \/ ReadClaim(r) \/ ClaimFails(r)
  <2>0. /\ pc[r] \in {"claiming", "reading"} /\ OnlyHoldOf(r) /\ UNCHANGED <<hold, recorded>>
        /\ \/ Admit(r)
           \/ UNCHANGED runner /\ (pc' = [pc EXCEPT ![r] = "reading"] \/ pc' = [pc EXCEPT ![r] = "releasing"])
    BY <1>3, <1>h DEF ClaimKey, ReadClaim, ClaimFails, budgetVars, accountVars, taskVars, Goto
  <2>1. hold[r].state \in {"none", "open"} /\ (hold[r].state = "none" => hold[r].est = 0)
    BY <2>0 DEF Flows
  <2>2. CASE Admit(r) BY <2>0, <2>1, <2>2, AdmitMovesFlow, FlowsMove
  <2>3. CASE UNCHANGED runner /\ (pc' = [pc EXCEPT ![r] = "reading"] \/ pc' = [pc EXCEPT ![r] = "releasing"])
    <3>1. FlowMoves(r) BY <1>r, <2>0, <2>1, <2>3 DEF FlowMoves, Before
    <3> QED BY <3>1, FlowsMove
  <2> QED BY <2>0, <2>2, <2>3
<1>4. CASE ReleaseHold(r)
  <2>1. /\ pc[r] = "releasing" /\ pc' = [pc EXCEPT ![r] = "answered"] /\ UNCHANGED runner
        /\ Settle(r, 0)
    BY <1>4 DEF ReleaseHold, Goto, taskVars
  <2>2. OnlyHoldOf(r) /\ UNCHANGED recorded BY <2>1, SettleCloses
  <2>3. /\ hold'[r].state # "checking"
        /\ hold'[r].state = "none" => hold'[r].est = 0
    BY <2>1 DEF Settle, BudgetTypes, Holds, budgetVars, Flows
  <2>4. FlowMoves(r) BY <1>r, <2>1, <2>2, <2>3 DEF FlowMoves, Before
  <2> QED BY <2>4, FlowsMove
<1>5. CASE MirrorRead(r) \/ MirrorWrite(r) \/ MirrorFails(r)
  <2>1. /\ pc[r] \in {"mirror_get", "mirror_set"} /\ OnlyHoldOf(r)
        /\ UNCHANGED <<hold, recorded, runner>>
        /\ pc' = [pc EXCEPT ![r] = "answered"] \/ pc' = [pc EXCEPT ![r] = "mirror_set"]
    BY <1>5, <1>h DEF MirrorRead, MirrorWrite, MirrorFails, Answer, Goto, taskVars, budgetVars, accountVars
  <2>2. FlowMoves(r) BY <2>1 DEF FlowMoves, Flows
  <2> QED BY <2>2, FlowsMove
<1> QED BY <1>1, <1>2, <1>3, <1>4, <1>5 DEF RequestStep

(* The steps of a runner, on its flow.                                       *)
LEMMA RunnerFlows ==
    ASSUME TaskTypes, BudgetTypes, Fresh, Flows, NEW t \in Requests,
           RunnerStep(t) \/ SpendWhileSolving(t)
    PROVE  Flows'
<1> USE DEF TaskTypes, RequestTypes, TableTypes
<1>0. /\ UNCHANGED pc /\ runner[t] # "none" /\ pc[t] \notin Before
      /\ \A q \in Requests \ {t} : runner'[q] = runner[q]
  <2>1. UNCHANGED pc BY RunnerTyped DEF Aside
  <2>2. runner[t] # "none"
    BY DEF RunnerStep, StartRunner, TakeSlot, FinishSolve, CancelSolve, CutShort, SettleTask,
           FinalRead, FinalWrite, FinalFails, SpendWhileSolving, Resumes
  <2>3. UNCHANGED runner \/ \E step : RunnerTo(t, step)
    BY DEF RunnerStep, StartRunner, TakeSlot, FinishSolve, CancelSolve, CutShort, SettleTask,
           FinalRead, FinalWrite, FinalFails, SpendWhileSolving
  <2>4. \A q \in Requests \ {t} : runner'[q] = runner[q] BY <2>3 DEF RunnerTo
  <2> QED BY <2>1, <2>2, <2>4 DEF Fresh
<1>1. CASE SettleTask(t)
  <2>1. runner'[t] = "final_get" BY <1>1 DEF SettleTask, RunnerTo
  <2>2. PICK a : Settle(t, a) BY <1>1 DEF SettleTask
  <2>3. OnlyHoldOf(t) /\ UNCHANGED recorded BY <2>2, SettleCloses
  <2>4. hold'[t].state # "checking" /\ (hold'[t].state = "none" => hold'[t].est = 0)
    BY <1>0, <2>2 DEF Settle, BudgetTypes, Holds, budgetVars, Flows, Before
  <2>5. FlowMoves(t) BY <1>0, <2>1, <2>3, <2>4 DEF FlowMoves, Before
  <2> QED BY <2>5, FlowsMove
<1>2. CASE SpendWhileSolving(t)
  <2>1. /\ UNCHANGED <<hold, runner>> /\ recorded' = [recorded EXCEPT ![t] = @ + 1]
        /\ OnlyHoldOf(t)
    BY <1>2 DEF SpendWhileSolving, RecordSpend, OnlyHoldOf
  <2>2. FlowMoves(t) BY <1>0, <2>1 DEF FlowMoves, Flows, Before, BudgetTypes
  <2> QED BY <2>2, FlowsMove
<1>3. CASE ~ SettleTask(t) /\ ~ SpendWhileSolving(t)
  <2>1. UNCHANGED <<hold, recorded>>
    BY <1>3 DEF RunnerStep, StartRunner, TakeSlot, FinishSolve, CancelSolve, CutShort,
                FinalRead, FinalWrite, FinalFails, budgetVars, accountVars
  <2>2. runner'[t] \in {"queued", "solving"} => runner[t] \in {"spawned", "queued"}
    BY <1>3 DEF RunnerStep, StartRunner, TakeSlot, FinishSolve, CancelSolve, CutShort,
                FinalRead, FinalWrite, FinalFails, RunnerTo, Resumes
  <2>3. runner'[t] # "spawned"
    BY <1>3 DEF RunnerStep, StartRunner, TakeSlot, FinishSolve, CancelSolve, CutShort,
                FinalRead, FinalWrite, FinalFails, RunnerTo, Resumes
  <2>4. FlowMoves(t) BY <1>0, <2>1, <2>2, <2>3 DEF FlowMoves, Flows, OnlyHoldOf, Before
  <2> QED BY <2>4, FlowsMove
<1> QED BY <1>1, <1>2, <1>3

(* A submission, on its flow.                                                *)
LEMMA SubmitFlows ==
    ASSUME TaskTypes, Fresh, Flows, NEW r \in Requests, NEW s \in Shapes, Submit(r, s)
    PROVE  Flows'
<1> USE DEF TaskTypes, RequestTypes
<1>1. /\ pc[r] = "idle" /\ UNCHANGED <<runner, hold, recorded>>
      /\ pc' = [pc EXCEPT ![r] = "answered"] \/ pc' = [pc EXCEPT ![r] = "reserving"]
  BY DEF Submit, Answer, Goto, budgetVars, accountVars
<1>2. FlowMoves(r) BY <1>1 DEF FlowMoves, Flows, OnlyHoldOf
<1> QED BY <1>2, FlowsMove

(* Every step, on the flows.                                                 *)
LEMMA EveryStepFlows ==
    ASSUME TaskTypes, BudgetTypes, Fresh, Flows, [Next]_vars
    PROVE  Flows'
<1>1. ASSUME NEW t \in Requests, DeleteRecord(t) PROVE Flows'
  <2>1. UNCHANGED <<pc, runner, hold, recorded>>
    BY <1>1 DEF DeleteRecord, taskVars, budgetVars, accountVars
  <2> QED BY <2>1 DEF Flows
<1>2. CASE ProcessStep \/ UNCHANGED vars
  <2>1. UNCHANGED <<pc, runner, hold, recorded>>
    BY <1>2, ProcessTyped DEF Aside, budgetVars, accountVars
  <2> QED BY <2>1 DEF Flows
<1> QED BY <1>1, <1>2, RequestFlows, RunnerFlows, SubmitFlows DEF Next, ProcessStep

\* One flow at a time is between the two checks.
OneChecks ==
    \A h, g \in Requests : hold[h].state = "checking" /\ hold[g].state = "checking" => g = h

\* What the flows weigh together, and those of one client.
TotalWeight(H, R) == SumOf(WeightIn(H, R), Requests)
ClientWeight(c, H, R) == SumOf(PartOf(c, H, WeightIn(H, R)), Requests)

(* No more than what is recorded and what is open.                           *)
LEMMA WeightBounds ==
    ASSUME NEW H \in [Requests -> Holds], NEW R \in [Requests -> Nat]
    PROVE  /\ TotalWeight(H, R) \in Nat
           /\ SumOf(R, Requests) \in Nat /\ SumOf(OpenEst(H), Requests) \in Nat
           /\ TotalWeight(H, R) <= SumOf(R, Requests) + SumOf(OpenEst(H), Requests)
           /\ \A c : /\ ClientWeight(c, H, R) \in Nat
                     /\ SumOf(PartOf(c, H, R), Requests) \in Nat
                     /\ SumOf(PartOf(c, H, OpenEst(H)), Requests) \in Nat
                     /\ ClientWeight(c, H, R)
                           <= SumOf(PartOf(c, H, R), Requests)
                              + SumOf(PartOf(c, H, OpenEst(H)), Requests)
<1>1. IsFiniteSet(Requests) BY CapsAssumption
<1>2. ASSUME NEW g, NEW o, NEW w,
             \A h \in Requests : g[h] \in Nat /\ o[h] \in Nat /\ w[h] \in Nat
                                 /\ w[h] <= g[h] + o[h]
      PROVE  /\ SumOf(w, Requests) \in Nat /\ SumOf(g, Requests) \in Nat
             /\ SumOf(o, Requests) \in Nat
             /\ SumOf(w, Requests) <= SumOf(g, Requests) + SumOf(o, Requests)
  <2> DEFINE b == [x \in Requests |-> g[x] + o[x]]
  <2>1. Whole(g, Requests) /\ Whole(o, Requests) /\ Whole(w, Requests) BY <1>2 DEF Whole
  <2>2. SumOf(b, Requests) = SumOf(g, Requests) + SumOf(o, Requests) BY <1>1, <2>1, SumPlus
  <2>3. Whole(b, Requests) /\ \A x \in Requests : w[x] <= b[x] BY <1>2 DEF Whole
  <2>4. SumOf(w, Requests) <= SumOf(b, Requests)
    <3> HIDE DEF b
    <3> QED BY <1>1, <2>1, <2>3, SumBelow
  <2>5. SumOf(w, Requests) \in Nat /\ SumOf(g, Requests) \in Nat /\ SumOf(o, Requests) \in Nat
    BY <1>1, <1>2, SumAtLeast
  <2> HIDE DEF b
  <2> QED BY <2>2, <2>4, <2>5
<1>3. \A h \in Requests : WeightIn(H, R)[h] \in Nat /\ R[h] \in Nat /\ OpenEst(H)[h] \in Nat
                          /\ WeightIn(H, R)[h] <= R[h] + OpenEst(H)[h]
  BY DEF WeightIn, OpenEst, Holds
<1>4. /\ TotalWeight(H, R) \in Nat
      /\ SumOf(R, Requests) \in Nat /\ SumOf(OpenEst(H), Requests) \in Nat
      /\ TotalWeight(H, R) <= SumOf(R, Requests) + SumOf(OpenEst(H), Requests)
  BY <1>2, <1>3 DEF TotalWeight
<1>5. ASSUME NEW c
      PROVE  /\ ClientWeight(c, H, R) \in Nat
             /\ SumOf(PartOf(c, H, R), Requests) \in Nat
             /\ SumOf(PartOf(c, H, OpenEst(H)), Requests) \in Nat
             /\ ClientWeight(c, H, R)
                   <= SumOf(PartOf(c, H, R), Requests)
                      + SumOf(PartOf(c, H, OpenEst(H)), Requests)
  <2>1. \A h \in Requests : /\ PartOf(c, H, R)[h] \in Nat
                            /\ PartOf(c, H, OpenEst(H))[h] \in Nat
                            /\ PartOf(c, H, WeightIn(H, R))[h] \in Nat
                            /\ PartOf(c, H, WeightIn(H, R))[h]
                                  <= PartOf(c, H, R)[h] + PartOf(c, H, OpenEst(H))[h]
    BY <1>3 DEF PartOf
  <2> QED BY <1>2, <2>1 DEF ClientWeight
<1> QED BY <1>4, <1>5

(* When no flow weighs more than it did, the weights do not grow.            *)
LEMMA WeightFalls ==
    ASSUME NEW H \in [Requests -> Holds], NEW R \in [Requests -> Nat],
           NEW K \in [Requests -> Holds], NEW Q \in [Requests -> Nat],
           \A h \in Requests : /\ WeightIn(K, Q)[h] <= WeightIn(H, R)[h]
                               /\ K[h].client = H[h].client \/ WeightIn(K, Q)[h] = 0
    PROVE  /\ TotalWeight(K, Q) <= TotalWeight(H, R)
           /\ \A c : ClientWeight(c, K, Q) <= ClientWeight(c, H, R)
<1>1. IsFiniteSet(Requests) BY CapsAssumption
<1>2. \A c : /\ Whole(WeightIn(H, R), Requests) /\ Whole(WeightIn(K, Q), Requests)
             /\ Whole(PartOf(c, H, WeightIn(H, R)), Requests)
             /\ Whole(PartOf(c, K, WeightIn(K, Q)), Requests)
  BY WeightsAreWhole
<1>3. \A h \in Requests : WeightIn(H, R)[h] \in Nat /\ WeightIn(K, Q)[h] \in Nat
  BY PartsAreNat
<1>4. \A c : \A h \in Requests : PartOf(c, K, WeightIn(K, Q))[h] <= PartOf(c, H, WeightIn(H, R))[h]
  BY <1>3 DEF PartOf
<1>5. TotalWeight(K, Q) <= TotalWeight(H, R) BY <1>1, <1>2, SumBelow DEF TotalWeight
<1>6. ASSUME NEW c PROVE ClientWeight(c, K, Q) <= ClientWeight(c, H, R)
  BY <1>1, <1>2, <1>4, SumBelow DEF ClientWeight
<1> QED BY <1>5, <1>6

(* When one flow that weighed nothing opens, they grow by its estimate.      *)
LEMMA WeightOpens ==
    ASSUME NEW H \in [Requests -> Holds], NEW R \in [Requests -> Nat],
           NEW K \in [Requests -> Holds], NEW r \in Requests,
           \A g \in Requests \ {r} : K[g] = H[g], K[r].client = H[r].client,
           WeightIn(H, R)[r] = 0
    PROVE  /\ TotalWeight(K, R) = TotalWeight(H, R) + WeightIn(K, R)[r]
           /\ \A c : ClientWeight(c, K, R) = ClientWeight(c, H, R)
                                 + (IF H[r].client = c THEN WeightIn(K, R)[r] ELSE 0)
<1>1. IsFiniteSet(Requests) BY CapsAssumption
<1>2. \A c : /\ Whole(WeightIn(H, R), Requests) /\ Whole(WeightIn(K, R), Requests)
             /\ Whole(PartOf(c, H, WeightIn(H, R)), Requests)
             /\ Whole(PartOf(c, K, WeightIn(K, R)), Requests)
  BY WeightsAreWhole
<1>3. \A c : \A g \in Requests : g # r =>
          WeightIn(H, R)[g] = WeightIn(K, R)[g]
          /\ PartOf(c, H, WeightIn(H, R))[g] = PartOf(c, K, WeightIn(K, R))[g]
  BY DEF WeightIn, PartOf
<1>4. PICK n \in Nat : n = WeightIn(K, R)[r]
  <2>1. WeightIn(K, R)[r] \in Nat BY PartsAreNat
  <2> QED BY <2>1
<1>5. TotalWeight(K, R) = TotalWeight(H, R) + WeightIn(K, R)[r]
  <2>0. /\ Whole(WeightIn(H, R), Requests) /\ Whole(WeightIn(K, R), Requests)
        /\ \A g \in Requests : g # r => WeightIn(H, R)[g] = WeightIn(K, R)[g]
    BY <1>2, <1>3
  <2>1. TotalWeight(K, R) = TotalWeight(H, R) - WeightIn(H, R)[r] + WeightIn(K, R)[r]
    BY <1>1, <2>0, SumChange DEF TotalWeight
  <2>2. TotalWeight(H, R) \in Nat BY WeightBounds
  <2> QED BY <1>4, <2>1, <2>2
<1>6. ASSUME NEW c
      PROVE  ClientWeight(c, K, R) = ClientWeight(c, H, R)
                                     + (IF H[r].client = c THEN WeightIn(K, R)[r] ELSE 0)
  <2>1. ClientWeight(c, K, R) = ClientWeight(c, H, R) - PartOf(c, H, WeightIn(H, R))[r]
                                + PartOf(c, K, WeightIn(K, R))[r]
    BY <1>1, <1>2, <1>3, SumChange DEF ClientWeight
  <2>2. ClientWeight(c, H, R) \in Nat BY WeightBounds
  <2>3. /\ PartOf(c, H, WeightIn(H, R))[r] = 0
        /\ PartOf(c, K, WeightIn(K, R))[r] = IF H[r].client = c THEN n ELSE 0
    BY <1>4 DEF PartOf
  <2> QED BY <1>4, <2>1, <2>2, <2>3
<1> QED BY <1>5, <1>6

\* What is capped, said of holds H and spend R.
WithinIn(H, R) == \A h \in Requests : R[h] <= H[h].est
CappedIn(H, R) ==
    WithinIn(H, R) =>
        /\ TotalWeight(H, R) <= GlobalCap
        /\ \A h \in Requests : H[h].state = "checking" =>
              TotalWeight(H, R) + H[h].est <= GlobalCap
        /\ \A c \in Clients : ClientWeight(c, H, R) <= ClientCap

(* It is what the invariant says,                                            *)
LEMMA CappedForm ==
    ASSUME Capped
    PROVE  CappedIn(hold, recorded)
BY DEF Capped, CappedIn, Within, WithinIn, TotalWeight, ClientWeight, Weight, WeightOf

(* ... also of the state after the step.                                     *)
LEMMA CappedAfter ==
    ASSUME CappedIn(hold', recorded')
    PROVE  Capped'
BY DEF Capped, CappedIn, Within, WithinIn, TotalWeight, ClientWeight, Weight, WeightOf

(* Weights that do not grow stay under the caps, when no check begins.       *)
LEMMA CappedFalls ==
    ASSUME NEW H \in [Requests -> Holds], NEW R \in [Requests -> Nat],
           NEW K \in [Requests -> Holds], NEW Q \in [Requests -> Nat],
           CappedIn(H, R), WithinIn(K, Q) => WithinIn(H, R),
           WithinIn(K, Q) =>
              \A h \in Requests : /\ WeightIn(K, Q)[h] <= WeightIn(H, R)[h]
                                  /\ K[h].client = H[h].client \/ WeightIn(K, Q)[h] = 0,
           \A h \in Requests : K[h].state = "checking" =>
                  \/ H[h].state = "checking" /\ K[h].est = H[h].est
                  \/ TotalWeight(H, R) + K[h].est <= GlobalCap
    PROVE  CappedIn(K, Q)
<1>1. SUFFICES ASSUME WithinIn(K, Q)
               PROVE  /\ TotalWeight(K, Q) <= GlobalCap
                      /\ \A h \in Requests : K[h].state = "checking" =>
                            TotalWeight(K, Q) + K[h].est <= GlobalCap
                      /\ \A c \in Clients : ClientWeight(c, K, Q) <= ClientCap
  BY DEF CappedIn
<1>2. /\ TotalWeight(K, Q) <= TotalWeight(H, R)
      /\ \A c : ClientWeight(c, K, Q) <= ClientWeight(c, H, R)
  BY <1>1, WeightFalls
<1>3. /\ TotalWeight(K, Q) \in Nat /\ TotalWeight(H, R) \in Nat
      /\ GlobalCap \in Nat /\ ClientCap \in Nat
      /\ \A c : ClientWeight(c, K, Q) \in Nat /\ ClientWeight(c, H, R) \in Nat
  BY WeightBounds, CapsAssumption
<1>4. /\ TotalWeight(H, R) <= GlobalCap
      /\ \A h \in Requests : H[h].state = "checking" => TotalWeight(H, R) + H[h].est <= GlobalCap
      /\ \A c \in Clients : ClientWeight(c, H, R) <= ClientCap
  BY <1>1 DEF CappedIn
<1>5. ASSUME NEW h \in Requests, K[h].state = "checking"
      PROVE  TotalWeight(K, Q) + K[h].est <= GlobalCap
  <2>1. TotalWeight(H, R) + K[h].est <= GlobalCap BY <1>4, <1>5
  <2>2. K[h].est \in Nat BY DEF Holds
  <2> QED BY <1>2, <1>3, <2>1, <2>2
<1>6. ASSUME NEW c \in Clients PROVE ClientWeight(c, K, Q) <= ClientCap
  <2>1. ClientWeight(c, H, R) <= ClientCap /\ ClientWeight(c, K, Q) <= ClientWeight(c, H, R)
    BY <1>2, <1>4
  <2> QED BY <1>3, <2>1
<1>7. TotalWeight(K, Q) <= GlobalCap BY <1>2, <1>3, <1>4
<1> QED BY <1>5, <1>6, <1>7

(* No step of the guard takes the weights over a cap.                        *)
LEMMA GuardCapped ==
    ASSUME BudgetTypes, BudgetTypes', OneChecks, InflightIsOpenHolds, Capped, GuardStep
    PROVE  Capped'
<1> USE DEF accountVars
<1>0. /\ hold \in [Requests -> Holds] /\ hold' \in [Requests -> Holds]
      /\ recorded \in [Requests -> Nat] /\ recorded' \in [Requests -> Nat]
      /\ inflightGlobal \in Nat /\ inflightBy \in [Clients -> Nat]
      /\ settledGlobal \in Nat /\ settledBy \in [Clients -> Nat]
  BY DEF BudgetTypes
<1>i. InflightIs(hold, inflightGlobal, inflightBy) BY InflightForm
<1>c. CappedIn(hold, recorded) BY CappedForm
<1>g. GlobalCap \in Nat /\ ClientCap \in Nat BY CapsAssumption
<1>z. \A r \in Requests : recorded[r] = 0 /\ hold[r].state # "open" =>
          WeightIn(hold, recorded)[r] = 0
  BY DEF WeightIn
<1>1. CASE UNCHANGED <<hold, recorded>> BY <1>1, <1>c, CappedAfter
<1>2. ASSUME NEW r \in Requests, OnlyHoldOf(r), recorded[r] = 0, UNCHANGED recorded,
             hold[r].state # "open", WeightIn(hold', recorded)[r] = 0,
             hold'[r].state = "checking" =>
                 TotalWeight(hold, recorded) + hold'[r].est <= GlobalCap
      PROVE  Capped'
  <2>1. \A h \in Requests : /\ WeightIn(hold', recorded')[h] <= WeightIn(hold, recorded)[h]
                            /\ hold'[h].client = hold[h].client \/ WeightIn(hold', recorded')[h] = 0
    <3>1. ASSUME NEW h \in Requests \ {r}
          PROVE  hold'[h] = hold[h] /\ WeightIn(hold', recorded')[h] = WeightIn(hold, recorded)[h]
                 /\ WeightIn(hold, recorded)[h] \in Nat
      <4>1. hold'[h] = hold[h] BY <1>2 DEF OnlyHoldOf
      <4>2. WeightIn(hold, recorded)[h] \in Nat BY <1>0, PartsAreNat
      <4> QED BY <1>2, <4>1, <4>2 DEF WeightIn
    <3>2. WeightIn(hold, recorded)[r] = 0 /\ WeightIn(hold', recorded')[r] = 0 BY <1>2, <1>z
    <3>3. ASSUME NEW h \in Requests
          PROVE  /\ WeightIn(hold', recorded')[h] <= WeightIn(hold, recorded)[h]
                 /\ hold'[h].client = hold[h].client \/ WeightIn(hold', recorded')[h] = 0
      <4>1. CASE h = r BY <3>2, <4>1
      <4>2. CASE h # r BY <3>1, <4>2
      <4> QED BY <4>1, <4>2
    <3> QED BY <3>3
  <2>3. WithinIn(hold', recorded') => WithinIn(hold, recorded)
    <3>1. recorded[r] = 0 /\ hold[r].est \in Nat BY <1>0, <1>2, <1>z DEF Holds
    <3> QED BY <1>2, <3>1 DEF WithinIn, OnlyHoldOf
  <2>4. \A h \in Requests : hold'[h].state = "checking" =>
            \/ hold[h].state = "checking" /\ hold'[h].est = hold[h].est
            \/ TotalWeight(hold, recorded) + hold'[h].est <= GlobalCap
    BY <1>2 DEF OnlyHoldOf
  <2>5. CappedIn(hold', recorded') BY <1>0, <1>c, <2>1, <2>3, <2>4, CappedFalls
  <2> QED BY <2>5, CappedAfter
<1>3. ASSUME NEW r \in Requests, recorded[r] = 0, NEW c, NEW e,
             ReserveFree(r, c, e) \/ ReserveRaises(r)
      PROVE  Capped'
  <2>1. /\ OnlyHoldOf(r) /\ UNCHANGED recorded /\ hold[r].state # "open"
        /\ hold'[r].state # "checking" /\ hold'[r].est = 0
    BY <1>0, <1>3 DEF ReserveFree, ReserveRaises, Issue, OnlyHoldOf
  <2>2. WeightIn(hold', recorded)[r] = 0 BY <1>3, <1>z, <2>1 DEF WeightIn
  <2> QED BY <1>2, <1>3, <2>1, <2>2
<1>4. ASSUME NEW r \in Requests, recorded[r] = 0, NEW c \in Clients, NEW est \in Nat,
             CheckGlobal(r, c, est)
      PROVE  Capped'
  <2>1. /\ OnlyHoldOf(r) /\ UNCHANGED recorded /\ hold[r].state # "open"
        /\ hold'[r].state \in {"checking", "denied"} /\ hold'[r].est = est
        /\ hold'[r].state = "checking" => GlobalRoom(est, LedgerTotal)
    BY <1>0, <1>4 DEF CheckGlobal, CheckGlobalAt, Issue, OnlyHoldOf
  <2>2. WeightIn(hold', recorded)[r] = 0 BY <1>4, <1>z, <2>1 DEF WeightIn
  <2>3. ASSUME GlobalRoom(est, LedgerTotal)
        PROVE  TotalWeight(hold, recorded) + est <= GlobalCap
    <3>1. LedgerTotal = SumOf(recorded, Requests) BY DEF LedgerTotal, SumOf
    <3>2. inflightGlobal = SumOf(OpenEst(hold), Requests) BY <1>i DEF InflightIs
    <3>3. /\ TotalWeight(hold, recorded) <= LedgerTotal + inflightGlobal
          /\ TotalWeight(hold, recorded) \in Nat /\ LedgerTotal \in Nat /\ est \in Nat
      BY <1>0, <3>1, <3>2, WeightBounds
    <3>4. LedgerTotal <= Larger(LedgerTotal, settledGlobal)
          /\ Larger(LedgerTotal, settledGlobal) \in Nat
      BY <1>0, <3>3 DEF Larger
    <3>5. Larger(LedgerTotal, settledGlobal) + inflightGlobal + est <= GlobalCap
      BY <2>3 DEF GlobalRoom
    <3> QED BY <1>0, <1>g, <3>3, <3>4, <3>5
  <2> QED BY <1>2, <1>4, <2>1, <2>2, <2>3
<1>5. ASSUME NEW r \in Requests, recorded[r] = 0, CheckClient(r)
      PROVE  Capped'
  <2> DEFINE c0 == hold[r].client
             est == hold[r].est
  <2>1. /\ OnlyHoldOf(r) /\ UNCHANGED recorded /\ hold[r].state = "checking"
        /\ hold'[r].state \in {"open", "denied"} /\ hold'[r].est = est
        /\ hold'[r].client = c0
        /\ hold'[r].state = "open" => ClientRoom(c0, est, LedgerTotalOf(c0))
    BY <1>0, <1>5 DEF CheckClient, CheckClientAt, Issue, OnlyHoldOf
  <2>0. est \in Nat /\ c0 \in Clients BY <1>0 DEF Holds
  <2>2. CASE hold'[r].state = "denied"
    <3>1. WeightIn(hold', recorded)[r] = 0 BY <1>5, <1>z, <2>2 DEF WeightIn
    <3> QED BY <1>2, <1>5, <2>1, <2>2, <3>1
  <2>3. CASE hold'[r].state = "open"
    <3>1. WeightIn(hold, recorded)[r] = 0 BY <1>5, <1>z, <2>1
    <3>2. WeightIn(hold', recorded)[r] = est BY <2>1, <2>3 DEF WeightIn
    <3>3. /\ TotalWeight(hold', recorded) = TotalWeight(hold, recorded) + est
          /\ \A c : ClientWeight(c, hold', recorded) = ClientWeight(c, hold, recorded)
                                               + (IF c0 = c THEN est ELSE 0)
      BY <1>0, <2>1, <3>1, <3>2, WeightOpens DEF OnlyHoldOf
    <3>4. SUFFICES ASSUME WithinIn(hold', recorded)
                   PROVE  /\ TotalWeight(hold', recorded) <= GlobalCap
                          /\ \A h \in Requests : hold'[h].state # "checking"
                          /\ \A c \in Clients : ClientWeight(c, hold', recorded) <= ClientCap
      BY <2>1, CappedAfter DEF CappedIn
    <3>5. WithinIn(hold, recorded) BY <2>1, <3>4 DEF WithinIn, OnlyHoldOf
    <3>6. TotalWeight(hold', recorded) <= GlobalCap BY <1>c, <2>1, <3>3, <3>5 DEF CappedIn
    <3>7. \A h \in Requests : hold'[h].state # "checking"
      BY <2>1, <2>3 DEF OnlyHoldOf, OneChecks
    <3>8. ASSUME NEW c \in Clients PROVE ClientWeight(c, hold', recorded) <= ClientCap
      <4>0. ClientWeight(c, hold, recorded) \in Nat /\ ClientWeight(c, hold, recorded) <= ClientCap
        BY <1>0, <1>c, <3>5, WeightBounds DEF CappedIn
      <4>1. CASE c # c0 BY <3>3, <4>0, <4>1
      <4>2. CASE c = c0
        <5>1. LedgerTotalOf(c) = SumOf(PartOf(c, hold, recorded), Requests)
          BY <1>0, WholeSums DEF LedgerTotalOf, HoldsOf
        <5>2. inflightBy[c] = SumOf(PartOf(c, hold, OpenEst(hold)), Requests)
          BY <1>i DEF InflightIs
        <5>3. /\ ClientWeight(c, hold, recorded) <= LedgerTotalOf(c) + inflightBy[c]
              /\ LedgerTotalOf(c) \in Nat /\ inflightBy[c] \in Nat /\ settledBy[c] \in Nat
          BY <1>0, <5>1, <5>2, WeightBounds
        <5>4. LedgerTotalOf(c) <= Larger(LedgerTotalOf(c), settledBy[c])
              /\ Larger(LedgerTotalOf(c), settledBy[c]) \in Nat
          BY <5>3 DEF Larger
        <5>5. Larger(LedgerTotalOf(c), settledBy[c]) + inflightBy[c] + est <= ClientCap
          BY <2>1, <2>3, <4>2 DEF ClientRoom
        <5>6. ClientWeight(c, hold', recorded) = ClientWeight(c, hold, recorded) + est
          BY <3>3, <4>2
        <5> QED BY <1>g, <2>0, <4>0, <5>3, <5>4, <5>5, <5>6
      <4> QED BY <4>1, <4>2
    <3> QED BY <3>6, <3>7, <3>8
  <2> QED BY <2>1, <2>2, <2>3
<1>6. ASSUME NEW r \in Requests, SpendStep(r) PROVE Capped'
  <2>1. PICK a \in Nat : UNCHANGED hold /\ recorded' = [recorded EXCEPT ![r] = @ + a]
    BY <1>6 DEF SpendStep, RecordSpend
  <2>2. WithinIn(hold', recorded') => WithinIn(hold, recorded)
    <3>1. \A h \in Requests : recorded[h] \in Nat /\ hold[h].est \in Nat BY <1>0 DEF Holds
    <3>2. \A h \in Requests : recorded[h] <= recorded'[h] BY <1>0, <2>1
    <3> QED BY <1>0, <2>1, <3>1, <3>2 DEF WithinIn
  <2>3. ASSUME WithinIn(hold', recorded'), NEW h \in Requests
        PROVE  WeightIn(hold', recorded')[h] <= WeightIn(hold, recorded)[h]
    <3>0. WeightIn(hold, recorded)[h] \in Nat BY <1>0, PartsAreNat
    <3>1. CASE h # r
      <4>1. WeightIn(hold', recorded')[h] = WeightIn(hold, recorded)[h]
        BY <1>0, <2>1, <3>1 DEF WeightIn
      <4> QED BY <3>0, <4>1
    <3>2. CASE h = r /\ hold[r].state = "open"
      <4>1. WeightIn(hold', recorded')[h] = WeightIn(hold, recorded)[h]
        BY <2>1, <3>2 DEF WeightIn
      <4> QED BY <3>0, <4>1
    <3>3. CASE h = r /\ hold[r].state # "open"
      <4>1. hold[r].est = 0 BY <1>6, <3>3 DEF SpendStep, Open
      <4>2. recorded'[r] = recorded[r] + a /\ recorded[r] \in Nat BY <1>0, <2>1
      <4>3. recorded'[r] <= 0 BY <2>1, <2>3, <4>1 DEF WithinIn
      <4>4. recorded'[r] = 0 /\ recorded[r] = 0 BY <4>2, <4>3
      <4> QED BY <2>1, <3>3, <4>4 DEF WeightIn
    <3> QED BY <3>1, <3>2, <3>3
  <2>4. CappedIn(hold', recorded') BY <1>0, <1>c, <2>1, <2>2, <2>3, CappedFalls
  <2> QED BY <2>4, CappedAfter
<1>7. ASSUME NEW r \in Requests, NEW a \in Nat, Settle(r, a), Open(r) PROVE Capped'
  <2>1. /\ OnlyHoldOf(r) /\ UNCHANGED recorded /\ hold[r].state = "open"
        /\ hold'[r].state = "settled" /\ hold'[r].est = hold[r].est
        /\ hold'[r].client = hold[r].client
    BY <1>0, <1>7 DEF Settle, Open, OnlyHoldOf, Holds
  <2>2. WithinIn(hold', recorded') => WithinIn(hold, recorded)
    BY <2>1 DEF WithinIn, OnlyHoldOf
  <2>3. ASSUME WithinIn(hold', recorded'), NEW h \in Requests
        PROVE  WeightIn(hold', recorded')[h] <= WeightIn(hold, recorded)[h]
               /\ hold'[h].client = hold[h].client
    <3>1. CASE h # r
      <4>1. hold'[h] = hold[h] BY <2>1, <3>1 DEF OnlyHoldOf
      <4>2. WeightIn(hold', recorded')[h] = WeightIn(hold, recorded)[h]
        BY <2>1, <4>1 DEF WeightIn
      <4>3. WeightIn(hold, recorded)[h] \in Nat BY <1>0, PartsAreNat
      <4> QED BY <4>1, <4>2, <4>3
    <3>2. CASE h = r
      <4>1. WeightIn(hold', recorded')[r] = recorded[r] /\ WeightIn(hold, recorded)[r] = hold[r].est
        BY <2>1 DEF WeightIn
      <4>2. recorded[r] <= hold[r].est BY <2>2, <2>3 DEF WithinIn
      <4> QED BY <2>1, <3>2, <4>1, <4>2
    <3> QED BY <3>1, <3>2
  <2>4. \A h \in Requests : hold'[h].state = "checking" =>
            hold[h].state = "checking" /\ hold'[h].est = hold[h].est
    BY <2>1 DEF OnlyHoldOf
  <2>5. CappedIn(hold', recorded') BY <1>0, <1>c, <2>2, <2>3, <2>4, CappedFalls
  <2> QED BY <2>5, CappedAfter
<1>8. ASSUME NEW r \in Requests, NEW a \in Nat, Settle(r, a), ~ Open(r) PROVE Capped'
  BY <1>1, <1>8 DEF Settle, budgetVars
<1>9. ASSUME NEW r \in Requests, ReserveStep(r) PROVE Capped'
  BY <1>3, <1>4, <1>5, <1>9 DEF ReserveStep
<1> QED BY <1>1, <1>6, <1>7, <1>8, <1>9 DEF GuardStep, budgetVars

(* With the weights under the caps, so is what is recorded, when no flow     *)
(* spends more than it reserved.                                             *)
LEMMA CapsAreKept ==
    ASSUME BudgetTypes, Capped
    PROVE  SpendWithinCaps
<1>1. SUFFICES ASSUME \A h \in Requests : recorded[h] <= hold[h].est
               PROVE  LedgerTotal <= GlobalCap /\ \A c \in Clients : LedgerTotalOf(c) <= ClientCap
  BY DEF SpendWithinCaps
<1>2. /\ hold \in [Requests -> Holds] /\ recorded \in [Requests -> Nat]
      /\ IsFiniteSet(Requests) /\ GlobalCap \in Nat /\ ClientCap \in Nat
  BY CapsAssumption DEF BudgetTypes
<1>3. /\ TotalWeight(hold, recorded) <= GlobalCap
      /\ \A c \in Clients : ClientWeight(c, hold, recorded) <= ClientCap
  BY <1>1 DEF Capped, Within, TotalWeight, ClientWeight, Weight, WeightOf
<1>4. \A h \in Requests : recorded[h] <= WeightIn(hold, recorded)[h]
  BY <1>1, <1>2 DEF WeightIn
<1>5. ASSUME NEW c
      PROVE  /\ Whole(recorded, Requests) /\ Whole(WeightIn(hold, recorded), Requests)
             /\ Whole(PartOf(c, hold, recorded), Requests)
             /\ Whole(PartOf(c, hold, WeightIn(hold, recorded)), Requests)
             /\ \A h \in Requests : PartOf(c, hold, recorded)[h]
                                       <= PartOf(c, hold, WeightIn(hold, recorded))[h]
  <2>1. Whole(recorded, Requests) /\ Whole(PartOf(c, hold, recorded), Requests)
    BY <1>2 DEF Whole, PartOf
  <2>2. \A h \in Requests : PartOf(c, hold, recorded)[h]
                               <= PartOf(c, hold, WeightIn(hold, recorded))[h]
    BY <1>2, <1>4 DEF PartOf
  <2> QED BY <1>2, <2>1, <2>2, WeightsAreWhole
<1>6. LedgerTotal <= GlobalCap
  <2>1. SumOf(recorded, Requests) <= TotalWeight(hold, recorded)
    BY <1>2, <1>4, <1>5, SumBelow DEF TotalWeight
  <2>2. SumOf(recorded, Requests) \in Nat /\ TotalWeight(hold, recorded) \in Nat
    BY <1>2, WeightBounds
  <2>3. LedgerTotal = SumOf(recorded, Requests) BY DEF LedgerTotal, SumOf
  <2> QED BY <1>2, <1>3, <2>1, <2>2, <2>3
<1>7. ASSUME NEW c \in Clients PROVE LedgerTotalOf(c) <= ClientCap
  <2>1. SumOf(PartOf(c, hold, recorded), Requests) <= ClientWeight(c, hold, recorded)
    BY <1>2, <1>5, SumBelow DEF ClientWeight
  <2>2. SumOf(PartOf(c, hold, recorded), Requests) \in Nat
        /\ ClientWeight(c, hold, recorded) \in Nat
        /\ ClientWeight(c, hold, recorded) <= ClientCap
    BY <1>2, <1>3, WeightBounds
  <2>3. LedgerTotalOf(c) = SumOf(PartOf(c, hold, recorded), Requests)
    BY <1>2, WholeSums DEF LedgerTotalOf, HoldsOf
  <2> QED BY <1>2, <2>1, <2>2, <2>3
<1> QED BY <1>6, <1>7

-----------------------------------------------------------------------------
(* The invariant *)

(* The tasks and their keys, over every step.                                *)
LEMMA EveryStepTasks ==
    ASSUME TaskTypes, BudgetTypes, Life, Keyed, [Next]_vars
    PROVE  TaskTypes' /\ Life' /\ Keyed'
<1>0. Fresh /\ Named BY DEF Life, Keyed
<1>1. ASSUME NEW r \in Requests, RequestStep(r) PROVE TaskTypes' /\ Life' /\ Keyed'
  BY <1>0, <1>1, RequestTyped, RequestLife, RequestKeyed
<1>2. ASSUME NEW r \in Requests, DeleteRecord(r) PROVE TaskTypes' /\ Life' /\ Keyed'
  BY <1>0, <1>2, RequestTyped, DeleteLife, RequestKeyed
<1>3. ASSUME NEW r \in Requests, NEW s \in Shapes, Submit(r, s)
      PROVE  TaskTypes' /\ Life' /\ Keyed'
  BY <1>0, <1>3, RequestTyped, SubmitLife, SubmitKeyed
<1>4. ASSUME NEW t \in Requests, RunnerStep(t) \/ SpendWhileSolving(t)
      PROVE  TaskTypes' /\ Life' /\ Keyed'
  <2>1. TaskTypes' /\ Aside /\ UNCHANGED table BY <1>4, RunnerTyped
  <2>2. Life' /\ \A q \in Requests : Admitted(q)' <=> Admitted(q) BY <1>4, RunnerLife
  <2> QED BY <2>1, <2>2, AsideKeyed
<1>5. CASE ProcessStep \/ UNCHANGED vars
  <2>1. TaskTypes' /\ Aside /\ UNCHANGED status BY <1>5, ProcessTyped
  <2>2. Life' /\ table' \subseteq table BY <1>5, ProcessLife
  <2>3. \A q \in Requests : Admitted(q)' <=> Admitted(q) BY <2>1 DEF Admitted
  <2> QED BY <2>1, <2>2, <2>3, AsideKeyed
<1> QED BY <1>1, <1>2, <1>3, <1>4, <1>5 DEF Next, ProcessStep

(* In the first state there are no tasks and no holds.                       *)
LEMMA InitOK ==
    ASSUME Init
    PROVE  IInv
<1>1. TaskTypes /\ BudgetTypes BY InitTypes
<1>n. Requests \cap {"none", "full", "overbudget", "conflict"} = {} BY TaskAssumption
<1>2. \A r \in Requests : /\ pc[r] = "idle" /\ answer[r] = "none" /\ answer[r] \notin Requests
                          /\ status[r] = "none" /\ runner[r] = "none"
                          /\ hold[r].state = "none" /\ hold[r].est = 0 /\ recorded[r] = 0
  BY <1>n DEF Init, BudgetInit
<1>3. table = {} /\ cancelled = {} /\ deleting = {} BY DEF Init
<1>4. \A r \in Requests : ~ Admitted(r) /\ ~ Open(r) BY <1>2 DEF Admitted, Open
<1>5. Life
  <2>1. Fresh BY <1>2, <1>3, <1>4 DEF Fresh
  <2>2. Answers BY <1>2 DEF Answers
  <2>3. Leaves BY <1>3, <1>4 DEF Leaves
  <2>4. HoldEnds BY <1>4 DEF HoldEnds
  <2>5. Stored BY <1>3 DEF Stored
  <2> QED BY <2>1, <2>2, <2>3, <2>4, <2>5 DEF Life
<1>6. Keyed
  <2>1. \A k : AdmittedFor(k) = {} BY <1>2 DEF AdmittedFor
  <2>2. Named BY DEF Named, Init, NoClaim
  <2>3. ClaimStands BY <1>2, <2>1 DEF ClaimStands
  <2>4. OneTaskPerKey BY <2>1 DEF OneTaskPerKey
  <2>5. KeyFindsItsTask BY <1>3 DEF KeyFindsItsTask
  <2> QED BY <2>2, <2>3, <2>4, <2>5 DEF Keyed
<1>7. Budget
  <2>0. /\ hold \in [Requests -> Holds] /\ recorded \in [Requests -> Nat]
        /\ GlobalCap \in Nat /\ ClientCap \in Nat
    BY <1>1, CapsAssumption DEF BudgetTypes
  <2>1. Flows BY <1>2 DEF Flows
  <2> DEFINE none == [h \in Requests |-> 0]
  <2>2. SumOf(none, Requests) = 0
    <3>1. IsFiniteSet(Requests) /\ IsFiniteSet({}) BY CapsAssumption, FS_EmptySet
    <3>2. {} \in SUBSET Requests /\ Whole(none, Requests) /\ Whole(none, {}) BY DEF Whole
    <3>3. [x \in Requests |-> IF x \in {} THEN none[x] ELSE 0] = none OBVIOUS
    <3>4. SumOf(none, {}) = SumOf([x \in Requests |-> IF x \in {} THEN none[x] ELSE 0], Requests)
      <4> HIDE DEF none
      <4> QED BY <3>1, <3>2, SumFilter
    <3>5. SumOf(none, {}) = 0 BY <3>1, SumUnfolds DEF SumOf
    <3> QED BY <3>3, <3>4, <3>5
  <2>3. OpenEst(hold) = none /\ WeightIn(hold, recorded) = none
    BY <1>2 DEF OpenEst, WeightIn
  <2>4. ASSUME NEW c
        PROVE  PartOf(c, hold, OpenEst(hold)) = none /\ PartOf(c, hold, WeightIn(hold, recorded)) = none
    BY <2>3 DEF PartOf
  <2> HIDE DEF none
  <2>5. InflightIsOpenHolds
    <3>1. inflightGlobal = 0 /\ \A c \in Clients : inflightBy[c] = 0 BY DEF Init, BudgetInit
    <3>2. InflightIs(hold, inflightGlobal, inflightBy)
      BY <2>2, <2>3, <2>4, <3>1 DEF InflightIs
    <3> QED BY <2>0, <3>2, WholeSums DEF InflightIsOpenHolds, InflightIs, Held, Open, HoldsOf
  <2>6. Capped
    <3>1. SumOf(Weight, Requests) = 0 BY <2>2, <2>3 DEF Weight
    <3>2. \A c \in Clients : SumOf(WeightOf(c), Requests) = 0 BY <2>2, <2>4 DEF WeightOf, Weight
    <3> QED BY <1>2, <2>0, <3>1, <3>2 DEF Capped
  <2> QED BY <2>1, <2>5, <2>6 DEF Budget
<1> QED BY <1>1, <1>5, <1>6, <1>7 DEF IInv

(* The whole invariant, of every reachable state: who knows of a task, what  *)
(* answers it, which keys and claims name it, where its hold and its record  *)
(* stand, and what the guard has in flight and under its caps.               *)
THEOREM TaskInvariant == Spec => []IInv
<1>1. Init => IInv BY InitOK
<1>2. IInv /\ [Next]_vars => IInv'
  <2>1. SUFFICES ASSUME IInv, [Next]_vars PROVE IInv' OBVIOUS
  <2>2. TaskTypes /\ BudgetTypes /\ Life /\ Keyed /\ Flows /\ InflightIsOpenHolds /\ Capped
    BY <2>1 DEF IInv, Budget
  <2>3. TaskTypes' /\ Life' /\ Keyed' BY <2>1, <2>2, EveryStepTasks
  <2>4. GuardStep /\ OneChecks BY <2>1, <2>2, EveryStepGuards DEF Flows, OneChecks
  <2>5. BudgetTypes' BY <2>2, <2>4, GuardTypes
  <2>6. Flows' BY <2>1, <2>2, EveryStepFlows DEF Life
  <2>7. InflightIsOpenHolds' BY <2>2, <2>4, <2>5, GuardInflight
  <2>8. Capped' BY <2>2, <2>4, <2>5, GuardCapped
  <2> QED BY <2>3, <2>5, <2>6, <2>7, <2>8 DEF IInv, Budget
<1> QED BY <1>1, <1>2, PTL DEF Spec

(* The guard's in-flight totals are exactly its open holds, whatever is      *)
(* admitted, coalesced, cancelled, swept or shut down in between: _book and  *)
(* _release_inflight are never out of step.                                  *)
THEOREM InflightIsAlwaysOpenHolds == Spec => []InflightIsOpenHolds
<1>1. IInv => InflightIsOpenHolds BY DEF IInv, Budget
<1> QED BY <1>1, TaskInvariant, PTL

(* When no flow spends more than it reserved, neither cap is ever passed,    *)
(* for every number of requests, clients and workers, and every schedule of  *)
(* reserve, record and settle.                                               *)
THEOREM SpendStaysWithinCaps == Spec => []SpendWithinCaps
<1>1. IInv => SpendWithinCaps BY CapsAreKept DEF IInv, Budget
<1> QED BY <1>1, TaskInvariant, PTL

(* A hold outlives its flow only when a cancellation landed in the runner's  *)
(* cleanup ahead of the settle, or before its first step, and only an expiry *)
(* or a shutdown does that: every other end settles it.                      *)
THEOREM HoldsEnd == Spec => []HoldOutlivesOnlyCutShort
<1>1. ASSUME IInv PROVE HoldOutlivesOnlyCutShort
  <2>1. SUFFICES ASSUME NEW r \in Requests, Open(r), pc[r] = "answered", ~ RunnerLive(r)
                 PROVE  runner[r] = "cut" /\ (r \notin table \/ up[Home(r)] # "up")
    BY DEF HoldOutlivesOnlyCutShort
  <2>2. Admitted(r) BY <1>1, <2>1 DEF IInv, Life, HoldEnds
  <2>3. runner[r] \in {"done", "cut"} BY <1>1, <2>1, <2>2 DEF IInv, Life, Fresh, RunnerLive
  <2> QED BY <1>1, <2>1, <2>3 DEF IInv, Life, HoldEnds
<1>2. IInv => HoldOutlivesOnlyCutShort BY <1>1
<1> QED BY <1>2, TaskInvariant, PTL

(* A key has a second task only after one of its claims has run its life,    *)
(* while the claim store answers, for any number of workers and retries.     *)
THEOREM KeysAdmitOneTask == Spec => []OneTaskPerKey
<1>1. IInv => OneTaskPerKey BY DEF IInv, Keyed
<1> QED BY <1>1, TaskInvariant, PTL

(* A key leads its worker to the newest of its tasks in the table, unless    *)
(* the sweep of an earlier one has unmapped it.                              *)
THEOREM KeysFindTheirTask == Spec => []KeyFindsItsTask
<1>1. IInv => KeyFindsItsTask BY DEF IInv, Keyed
<1> QED BY <1>1, TaskInvariant, PTL

(* No retry is answered with the task of another payload, on any worker,     *)
(* through the map or through the claim.                                     *)
THEOREM RetriesAgree == Spec => []CoalescedPayloadAgrees
<1>1. IInv => CoalescedPayloadAgrees BY DEF IInv, Life, Answers, CoalescedPayloadAgrees
<1> QED BY <1>1, TaskInvariant, PTL

(* A task whose id a client has is in the store until it is swept, while the *)
(* store takes writes.                                                       *)
THEOREM AnsweredTasksAreStored == Spec => []AnsweredTaskIsStored
<1>1. IInv => AnsweredTaskIsStored BY DEF IInv, Life, Stored, AnsweredTaskIsStored
<1> QED BY <1>1, TaskInvariant, PTL


-----------------------------------------------------------------------------
(* The guard over the in-memory ledger *)

\* The sequence b lists the set S of numbers in increasing order.
Lists(b, S) ==
    /\ b \in Seq(Nat) /\ Range(b) = S
    /\ \A i, j \in DOMAIN b : i < j => b[i] < b[j]

(* A later number goes to the end;                                           *)
LEMMA ListsGrows ==
    ASSUME NEW b, NEW S, Lists(b, S), NEW n \in Nat, \A m \in S : m < n
    PROVE  Lists(Append(b, n), S \cup {n})
<1> DEFINE e == Append(b, n)
<1>0. b \in Seq(Nat) /\ Range(b) = S BY DEF Lists
<1>1. /\ e \in Seq(Nat) /\ Len(e) = Len(b) + 1 /\ Len(b) \in Nat
      /\ DOMAIN b = 1..Len(b) /\ DOMAIN e = 1..(Len(b) + 1)
      /\ \A i \in 1..Len(b) : e[i] = b[i] /\ b[i] \in Nat
      /\ e[Len(b) + 1] = n
  BY <1>0
<1> HIDE DEF e
<1>2. \A i \in 1..Len(b) : b[i] \in S BY <1>0, <1>1 DEF Range
<1>3. \A m \in S : \E i \in 1..Len(b) : b[i] = m BY <1>0, <1>1 DEF Range
<1>4. Range(e) = S \cup {n}
  <2>1. ASSUME NEW m \in Range(e) PROVE m \in S \cup {n}
    <3>1. PICK i \in 1..(Len(b) + 1) : m = e[i] BY <1>1, <2>1 DEF Range
    <3>2. CASE i \in 1..Len(b) BY <1>1, <1>2, <3>1, <3>2
    <3>3. CASE i = Len(b) + 1 BY <1>1, <3>1, <3>3
    <3>4. i \in 1..Len(b) \/ i = Len(b) + 1 BY <1>1
    <3> QED BY <3>2, <3>3, <3>4
  <2>2. ASSUME NEW m \in S PROVE m \in Range(e)
    <3>1. PICK i \in 1..Len(b) : b[i] = m BY <1>3
    <3>2. i \in DOMAIN e /\ e[i] = m BY <1>1, <3>1
    <3> QED BY <3>2 DEF Range
  <2>3. n \in Range(e)
    <3>1. Len(b) + 1 \in DOMAIN e BY <1>1
    <3> QED BY <1>1, <3>1 DEF Range
  <2> QED BY <2>1, <2>2, <2>3
<1>5. ASSUME NEW i \in DOMAIN e, NEW j \in DOMAIN e, i < j PROVE e[i] < e[j]
  <2>1. i \in 1..Len(b) /\ (j \in 1..Len(b) \/ j = Len(b) + 1) BY <1>1, <1>5
  <2>2. CASE j \in 1..Len(b)
    <3>1. b[i] < b[j] BY <1>1, <1>5, <2>1, <2>2 DEF Lists
    <3> QED BY <1>1, <2>1, <2>2, <3>1
  <2>3. CASE j = Len(b) + 1 BY <1>1, <1>2, <2>1, <2>3
  <2> QED BY <2>1, <2>2, <2>3
<1>6. Lists(e, S \cup {n}) BY <1>1, <1>4, <1>5 DEF Lists
<1> QED BY <1>6 DEF e

(* and the least number is the first, which a scan for it finds at once.     *)
LEMMA ListsDrops ==
    ASSUME NEW b, NEW S, Lists(b, S), NEW n \in S, \A m \in S : n <= m
    PROVE  Lists(RemoveAt(b, Min({i \in DOMAIN b : b[i] = n})), S \ {n})
<1>0. /\ b \in Seq(Nat) /\ Range(b) = S /\ Len(b) \in Nat /\ DOMAIN b = 1..Len(b)
      /\ \A i \in 1..Len(b) : b[i] \in Nat /\ b[i] \in S
      /\ \A i, j \in 1..Len(b) : i < j => b[i] < b[j]
  BY DEF Lists, Range
<1>1. PICK k \in 1..Len(b) : b[k] = n BY <1>0 DEF Range
<1>2. k = 1
  <2>1. 1 \in 1..Len(b) BY <1>0, <1>1
  <2>2. ~ (1 < k) BY <1>0, <1>1, <2>1
  <2> QED BY <1>0, <1>1, <2>2
<1>3. b[1] = n /\ 1 \in 1..Len(b) BY <1>1, <1>2
<1>4. {i \in DOMAIN b : b[i] = n} = {1}
  <2>1. ASSUME NEW i \in 1..Len(b), b[i] = n PROVE i = 1
    <3>1. ~ (1 < i) BY <1>0, <1>3, <2>1
    <3> QED BY <1>0, <3>1
  <2> QED BY <1>0, <1>3, <2>1
<1>5. Min({1}) = 1 BY DEF Min
<1> DEFINE e == RemoveAt(b, 1)
<1>6. /\ e \in Seq(Nat) /\ Len(e) = Len(b) - 1 /\ DOMAIN e = 1..(Len(b) - 1)
      /\ \A i \in 1..(Len(b) - 1) : e[i] = b[i + 1]
  <2> DEFINE u == SubSeq(b, 1, 0)
             v == SubSeq(b, 2, Len(b))
  <2>1. u \in Seq(Nat) /\ Len(u) = 0 BY <1>0
  <2>2. v \in Seq(Nat) /\ Len(v) = Len(b) - 1 /\ \A i \in 1..(Len(b) - 1) : v[i] = b[i + 1]
    BY <1>0, <1>3
  <2>3. e = u \o v
    <3>1. 1 - 1 = 0 /\ 1 + 1 = 2 OBVIOUS
    <3> QED BY <3>1 DEF RemoveAt
  <2> HIDE DEF u, v, e
  <2>4. e \in Seq(Nat) /\ Len(e) = Len(u) + Len(v) BY <2>1, <2>2, <2>3
  <2>5. Len(e) = Len(b) - 1 BY <1>0, <2>1, <2>2, <2>4
  <2>6. DOMAIN e = 1..(Len(b) - 1) BY <2>4, <2>5
  <2>7. ASSUME NEW i \in 1..(Len(b) - 1) PROVE e[i] = v[i]
    <3>1. i \in 1..(Len(u) + Len(v)) /\ ~ (i <= Len(u)) /\ i - Len(u) = i
      BY <1>0, <2>1, <2>2
    <3>2. (u \o v)[i] = v[i - Len(u)] BY <2>1, <2>2, <3>1
    <3> QED BY <2>3, <3>1, <3>2
  <2> QED BY <2>2, <2>4, <2>5, <2>6, <2>7
<1> HIDE DEF e
<1>7. \A i \in 1..(Len(b) - 1) : i + 1 \in 1..Len(b) /\ e[i] \in S \ {n}
  <2>1. ASSUME NEW i \in 1..(Len(b) - 1)
        PROVE  i + 1 \in 1..Len(b) /\ e[i] \in S \ {n}
    <3>1. i + 1 \in 1..Len(b) /\ 1 < i + 1 BY <1>0
    <3>2. b[1] < b[i + 1] /\ b[i + 1] \in S BY <1>0, <1>3, <3>1
    <3> QED BY <1>0, <1>3, <1>6, <3>1, <3>2
  <2> QED BY <2>1
<1>8. Range(e) = S \ {n}
  <2>1. ASSUME NEW m \in S \ {n} PROVE m \in Range(e)
    <3>1. PICK i \in 1..Len(b) : b[i] = m BY <1>0 DEF Range
    <3>2. i # 1 BY <1>3, <3>1
    <3>3. PICK j \in 1..(Len(b) - 1) : i = j + 1
      <4>1. i - 1 \in 1..(Len(b) - 1) /\ i = (i - 1) + 1 BY <1>0, <3>2
      <4> QED BY <4>1
    <3> QED BY <1>6, <3>1, <3>3 DEF Range
  <2>2. ASSUME NEW m \in Range(e) PROVE m \in S \ {n} BY <1>6, <1>7, <2>2 DEF Range
  <2> QED BY <2>1, <2>2
<1>9. ASSUME NEW i \in DOMAIN e, NEW j \in DOMAIN e, i < j PROVE e[i] < e[j]
  <2>0. i \in 1..(Len(b) - 1) /\ j \in 1..(Len(b) - 1) BY <1>6, <1>9
  <2>1. i + 1 \in 1..Len(b) /\ j + 1 \in 1..Len(b) /\ i + 1 < j + 1 BY <1>0, <1>9, <2>0
  <2>2. b[i + 1] < b[j + 1] BY <1>0, <2>1
  <2> QED BY <1>6, <2>0, <2>2
<1>10. Lists(e, S \ {n}) BY <1>6, <1>8, <1>9 DEF Lists
<1> QED BY <1>4, <1>5, <1>10 DEF e

(* Over a smaller set, a sum of what is not negative is no larger.           *)
LEMMA SumOfPart ==
    ASSUME NEW g, NEW S, IsFiniteSet(S), \A x \in S : g[x] \in Nat, NEW U \in SUBSET S
    PROVE  SumOf(g, U) \in Nat /\ SumOf(g, S) \in Nat /\ SumOf(g, U) <= SumOf(g, S)
<1> DEFINE e == [x \in S |-> IF x \in U THEN g[x] ELSE 0]
<1>1. Whole(g, S) /\ Whole(e, S) /\ \A x \in S : e[x] <= g[x] BY DEF Whole
<1>2. SumOf(g, U) = SumOf(e, S) BY <1>1, SumFilter
<1> HIDE DEF e
<1>3. SumOf(e, S) <= SumOf(g, S) BY <1>1, SumBelow
<1>4. SumOf(g, S) \in Nat /\ SumOf(g, U) \in Nat BY FS_Subset, SumAtLeast
<1> QED BY <1>2, <1>3, <1>4

(* To sum g along the list of a set is to sum it over the set.               *)
LEMMA SumListed ==
    ASSUME NEW b, NEW S, Lists(b, S), NEW g, \A n \in S : g[n] \in Nat
    PROVE  /\ IsFiniteSet(S)
           /\ SumFunction([i \in DOMAIN b |-> g[b[i]]]) = SumOf(g, S)
<1> DEFINE D == DOMAIN b
           e == [i \in D |-> g[b[i]]]
           At(T) == {b[i] : i \in T}
           P == {T \in SUBSET D : IsFiniteSet(At(T)) /\ SumOf(e, T) = SumOf(g, At(T))}
<1>1. /\ D = 1..Len(b) /\ Len(b) \in Nat /\ At(D) = S
      /\ \A i, j \in D : i # j => b[i] # b[j]
  <2>1. D = 1..Len(b) /\ Len(b) \in Nat /\ At(D) = S /\ \A i \in D : b[i] \in Nat
    BY DEF Lists, Range
  <2>2. ASSUME NEW i \in D, NEW j \in D, i # j PROVE b[i] # b[j]
    <3>1. i < j \/ j < i BY <2>1, <2>2
    <3>2. b[i] < b[j] \/ b[j] < b[i] BY <3>1 DEF Lists
    <3> QED BY <2>1, <3>2
  <2> QED BY <2>1, <2>2
<1>2. IsFiniteSet(D) BY <1>1, FS_Interval
<1>3. ASSUME NEW T \in SUBSET D PROVE IsFiniteSet(T) /\ At(T) \subseteq S
  <2>1. IsFiniteSet(T) BY <1>2, FS_Subset
  <2> QED BY <1>1, <2>1
<1>4. \A i \in D : e[i] = g[b[i]] /\ g[b[i]] \in Int
  <2>1. \A i \in D : b[i] \in S BY <1>1
  <2> QED BY <2>1
<1>5. ASSUME NEW T \in SUBSET D, \A V \in SUBSET T : V # T => V \in P PROVE T \in P
  <2>1. CASE T = {}
    <3>1. At(T) = {} BY <2>1
    <3> HIDE DEF e, At
    <3>2. SumOf(e, T) = 0 /\ SumOf(g, At(T)) = 0 BY <2>1, <3>1, FS_EmptySet, SumUnfolds DEF SumOf
    <3> QED BY <3>1, <3>2, FS_EmptySet
  <2>2. CASE T # {}
    <3> HIDE DEF e
    <3>1. PICK i \in T : SumOf(e, T) = e[i] + SumOf(e, T \ {i})
      BY <1>3, <2>2, SumUnfolds DEF SumOf
    <3>2. SumOf(e, T \ {i}) = SumOf(g, At(T \ {i})) /\ IsFiniteSet(At(T \ {i})) BY <1>5
    <3>3. At(T \ {i}) = At(T) \ {b[i]} /\ b[i] \in At(T)
      <4>1. \A j \in T \ {i} : b[j] # b[i] BY <1>1
      <4> QED BY <4>1
    <3>4. At(T) \subseteq S BY <1>3
    <3> HIDE DEF At
    <3>5. Whole(g, At(T)) BY <3>4 DEF Whole
    <3>6. IsFiniteSet(At(T))
      <4>1. PICK U : IsFiniteSet(U) /\ At(T) = U \cup {b[i]} BY <3>2, <3>3
      <4>2. IsFiniteSet(U \cup {b[i]}) BY <4>1, FS_AddElement
      <4> QED BY <4>1, <4>2
    <3>7. SumOf(g, At(T)) = g[b[i]] + SumOf(g, At(T) \ {b[i]}) BY <3>3, <3>5, <3>6, SumPick
    <3> QED BY <1>4, <3>1, <3>2, <3>3, <3>6, <3>7
  <2> QED BY <2>1, <2>2
<1>6. \A T \in SUBSET D : T \in P
  <2> HIDE DEF P
  <2> QED BY <1>2, <1>5, SubsetInduction
<1>7. D \in P BY <1>6
<1>8. SumOf(e, D) = SumOf(g, S) /\ IsFiniteSet(S) BY <1>1, <1>7
<1>9. SumFunction(e) = SumOf(e, D) BY DEF SumFunction, SumOf
<1> QED BY <1>8, <1>9


\* What the ledger keeps of an attempt.
Entries == [task : Requests, client : Clients, cost : Nat, reported : BOOLEAN]
LedgerTypes ==
    /\ book \in Seq(Entries) /\ ring \in Seq(Nat)
    /\ byTask \in [Requests -> Seq(Nat)]
    /\ totalGlobal \in Nat /\ totalBy \in [Clients -> Nat]

\* The ring is the end of the book.
RingIsLatest ==
    /\ Len(ring) <= Len(book) /\ Len(ring) <= MaxRecords
    /\ \A i \in 1..Len(ring) : ring[i] = Len(book) - Len(ring) + i

Retained(t) == {n \in Range(ring) : book[n].task = t}
LedgerInv == LedgerTypes /\ RingIsLatest /\ IndexMatchesRing

\* What the attempts of a book cost.
Costs(B) == [n \in DOMAIN B |-> B[n].cost]

(* The ring holds the records from the oldest retained one to the last.      *)
LEMMA RingRange ==
    ASSUME LedgerTypes, RingIsLatest
    PROVE  /\ Len(book) \in Nat /\ Len(ring) \in Nat /\ DOMAIN book = 1..Len(book)
           /\ Range(ring) = (Len(book) - Len(ring) + 1)..Len(book)
           /\ \A n \in Range(ring) : n \in 1..Len(book) /\ n \in Nat /\ book[n] \in Entries
<1>1. Len(book) \in Nat /\ Len(ring) \in Nat /\ DOMAIN ring = 1..Len(ring)
      /\ DOMAIN book = 1..Len(book) /\ \A n \in 1..Len(book) : book[n] \in Entries
  BY DEF LedgerTypes
<1>2. ASSUME NEW n \in Range(ring)
      PROVE  n \in (Len(book) - Len(ring) + 1)..Len(book) /\ n \in 1..Len(book) /\ n \in Nat
  <2>1. PICK i \in 1..Len(ring) : n = Len(book) - Len(ring) + i
    BY <1>1 DEF Range, RingIsLatest
  <2> QED BY <1>1, <2>1 DEF RingIsLatest
<1>3. ASSUME NEW n \in (Len(book) - Len(ring) + 1)..Len(book) PROVE n \in Range(ring)
  <2>1. PICK i \in 1..Len(ring) : n = Len(book) - Len(ring) + i
    <3>1. n - (Len(book) - Len(ring)) \in 1..Len(ring) BY <1>1
    <3>2. n = Len(book) - Len(ring) + (n - (Len(book) - Len(ring))) BY <1>1
    <3> QED BY <3>1, <3>2
  <2>2. ring[i] = n BY <2>1 DEF RingIsLatest
  <2> QED BY <1>1, <2>2 DEF Range
<1>4. Range(ring) = (Len(book) - Len(ring) + 1)..Len(book) BY <1>2, <1>3
<1> QED BY <1>1, <1>2, <1>4

(* Each bucket lists what the ring retains of its task.                      *)
LEMMA BucketsList ==
    ASSUME LedgerInv
    PROVE  \A t \in Requests : Lists(byTask[t], Retained(t))
<1>1. SUFFICES ASSUME NEW t \in Requests PROVE Lists(byTask[t], Retained(t)) OBVIOUS
<1>2. byTask[t] \in Seq(Nat) BY DEF LedgerInv, LedgerTypes
<1>3. /\ Range(byTask[t]) = Retained(t)
      /\ \A i, j \in DOMAIN byTask[t] : i < j => byTask[t][i] < byTask[t][j]
  BY FlowAssumption DEF LedgerInv, IndexMatchesRing, Retained
<1> QED BY <1>2, <1>3 DEF Lists

(* ... said of the state after the step.                                     *)
LEMMA BucketsListAfter ==
    ASSUME \A t \in Requests : Lists(byTask'[t], Retained(t)')
    PROVE  IndexMatchesRing'
<1>1. SUFFICES ASSUME NEW t \in Requests
               PROVE  /\ Range(byTask'[t]) = {n \in Range(ring') : book'[n].task = t}
                      /\ \A i, j \in DOMAIN byTask'[t] : i < j => byTask'[t][i] < byTask'[t][j]
  BY FlowAssumption DEF IndexMatchesRing
<1>2. Lists(byTask'[t], Retained(t)') OBVIOUS
<1> QED BY <1>2 DEF Lists, Retained

\* What a task has cost is the sum over what the ring retains of it.
CostIs(t) ==
    /\ IsFiniteSet(Retained(t)) /\ \A n \in Retained(t) : Costs(book)[n] \in Nat
    /\ TaskCost(t) = SumOf(Costs(book), Retained(t))
    /\ TaskCost(t) \in Nat

(* It is,                                                                    *)
LEMMA TaskCostIs == LedgerInv => \A t \in Requests : CostIs(t)
<1> SUFFICES ASSUME LedgerInv, NEW t \in Requests PROVE CostIs(t) OBVIOUS
<1>1. Lists(byTask[t], Retained(t)) BY BucketsList
<1>2. \A n \in Retained(t) : Costs(book)[n] = book[n].cost /\ Costs(book)[n] \in Nat
  BY RingRange DEF LedgerInv, Retained, Costs, Entries
<1>3. /\ IsFiniteSet(Retained(t))
      /\ SumFunction([i \in DOMAIN byTask[t] |-> Costs(book)[byTask[t][i]]])
            = SumOf(Costs(book), Retained(t))
  BY <1>1, <1>2, SumListed
<1>4. \A i \in DOMAIN byTask[t] : byTask[t][i] \in Retained(t) BY <1>1 DEF Lists, Range
<1>5. [i \in DOMAIN byTask[t] |-> Costs(book)[byTask[t][i]]]
         = [i \in DOMAIN byTask[t] |-> book[byTask[t][i]].cost]
  BY <1>2, <1>4
<1>6. TaskCost(t) = SumOf(Costs(book), Retained(t)) BY <1>3, <1>5 DEF TaskCost
<1>7. SumOf(Costs(book), Retained(t)) \in Nat BY <1>2, <1>3, SumAtLeast
<1> QED BY <1>2, <1>3, <1>6, <1>7 DEF CostIs

(* also after the step.                                                      *)
LEMMA TaskCostAfter ==
    ASSUME LedgerInv'
    PROVE  (\A t \in Requests : CostIs(t))'
BY TaskCostIs, PTL

\* What the next record evicts.
Evicted == IF Full THEN {Head(ring)} ELSE {}

(* A new record goes to the end of the ring, and the oldest leaves it when   *)
(* it is full.                                                               *)
LEMMA RecordMovesRing ==
    ASSUME LedgerTypes, RingIsLatest, NEW h \in Requests, NEW c \in Clients, NEW cost \in Nat,
           Record(h, c, cost)
    PROVE  /\ book' \in Seq(Entries) /\ Len(book') = Len(book) + 1
           /\ \A n \in 1..Len(book) : book'[n] = book[n]
           /\ book'[Len(book) + 1] = [task |-> h, client |-> c, cost |-> cost, reported |-> FALSE]
           /\ ring' \in Seq(Nat) /\ RingIsLatest'
           /\ Range(ring') = (Range(ring) \ Evicted) \cup {Len(book) + 1}
           /\ Full => /\ Head(ring) \in Range(ring)
                      /\ \A m \in Range(ring) : Head(ring) <= m
<1> DEFINE N == Len(book) + 1
           new == [task |-> h, client |-> c, cost |-> cost, reported |-> FALSE]
           rest == IF Full THEN Tail(ring) ELSE ring
<1>0. /\ book \in Seq(Entries) /\ ring \in Seq(Nat)
      /\ Len(book) \in Nat /\ Len(ring) \in Nat /\ MaxRecords \in Nat \ {0}
      /\ Len(ring) <= Len(book) /\ Len(ring) <= MaxRecords
      /\ \A i \in 1..Len(ring) : ring[i] = Len(book) - Len(ring) + i
  BY LedgerAssumption DEF LedgerTypes, RingIsLatest
<1>n. /\ Len(book) \in Nat /\ Len(ring) \in Nat /\ N \in Nat /\ N = Len(book) + 1
      /\ Len(ring) <= Len(book)
  BY <1>0
<1>1. /\ book' \in Seq(Entries) /\ Len(book') = N
      /\ \A n \in 1..Len(book) : book'[n] = book[n]
      /\ book'[N] = new
  <2>1. new \in Entries BY DEF Entries
  <2>2. book' = Append(book, new) BY DEF Record
  <2> HIDE DEF new
  <2> QED BY <1>0, <2>1, <2>2
<1>2. /\ rest \in Seq(Nat) /\ Len(rest) \in Nat /\ Len(rest) < MaxRecords
      /\ Len(rest) = Len(ring) - (IF Full THEN 1 ELSE 0)
      /\ \A i \in 1..Len(rest) : rest[i] = Len(book) - Len(rest) + i
  <2>1. CASE ~ Full BY <1>0, <2>1 DEF Full
  <2>2. CASE Full
    <3>1. ring # <<>> /\ Len(ring) > 0 BY <1>0, <2>2 DEF Full
    <3>2. rest = Tail(ring) BY <2>2
    <3> HIDE DEF rest
    <3>3. rest \in Seq(Nat) /\ Len(rest) = Len(ring) - 1
          /\ \A i \in 1..Len(rest) : rest[i] = ring[i + 1]
      BY <1>0, <3>1, <3>2
    <3>4. ASSUME NEW i \in 1..Len(rest) PROVE rest[i] = Len(book) - Len(rest) + i
      <4>1. i + 1 \in 1..Len(ring) BY <1>0, <3>3
      <4>2. ring[i + 1] = Len(book) - Len(ring) + (i + 1) BY <1>0, <4>1
      <4> QED BY <1>0, <3>3, <4>2
    <3> QED BY <1>0, <2>2, <3>1, <3>3, <3>4 DEF Full
  <2> QED BY <2>1, <2>2
<1>3. /\ ring' \in Seq(Nat) /\ Len(ring') = Len(rest) + 1
      /\ \A i \in 1..Len(rest) : ring'[i] = rest[i]
      /\ ring'[Len(rest) + 1] = N
  <2>1. ring' = Append(rest, N) BY DEF Record
  <2>2. N \in Nat BY <1>0
  <2> HIDE DEF rest, N
  <2> QED BY <1>2, <2>1, <2>2
<1> HIDE DEF rest, new, N
<1>l. Len(rest) \in Nat /\ Len(ring') = Len(rest) + 1 /\ Len(book') = N BY <1>1, <1>2, <1>3
<1>4. RingIsLatest'
  <2>1. Len(ring') <= Len(book') /\ Len(ring') <= MaxRecords
    <3>1. Len(rest) = Len(ring) \/ Len(rest) = Len(ring) - 1 BY <1>n, <1>2
    <3>2. Len(rest) < MaxRecords /\ MaxRecords \in Nat BY <1>0, <1>2
    <3>3. Len(ring') <= Len(book') BY <1>n, <1>l, <3>1
    <3>4. Len(ring') <= MaxRecords BY <1>l, <3>2
    <3> QED BY <3>3, <3>4
  <2>2. ASSUME NEW i \in 1..Len(ring') PROVE ring'[i] = Len(book') - Len(ring') + i
    <3>1. i \in 1..Len(rest) \/ i = Len(rest) + 1 BY <1>2, <1>3
    <3>2. CASE i \in 1..Len(rest)
      <4>1. ring'[i] = Len(book) - Len(rest) + i BY <1>2, <1>3, <3>2
      <4>2. Len(book') - Len(ring') = Len(book) - Len(rest) BY <1>n, <1>l
      <4> QED BY <4>1, <4>2
    <3>3. CASE i = Len(rest) + 1 BY <1>0, <1>1, <1>2, <1>3, <3>3
    <3> QED BY <3>1, <3>2, <3>3
  <2> QED BY <2>1, <2>2 DEF RingIsLatest
<1>5. Range(ring) = (Len(book) - Len(ring) + 1)..Len(book) BY RingRange
<1>6. Range(ring') = (N - Len(ring') + 1)..N
  <2>1. DOMAIN ring' = 1..Len(ring') /\ Len(ring') \in Nat BY <1>3
  <2>2. \A i \in 1..Len(ring') : ring'[i] = N - Len(ring') + i BY <1>1, <1>4 DEF RingIsLatest
  <2> USE <1>n
  <2>3. ASSUME NEW n \in Range(ring') PROVE n \in (N - Len(ring') + 1)..N
    <3>1. PICK i \in 1..Len(ring') : n = N - Len(ring') + i BY <2>1, <2>2 DEF Range
    <3> QED BY <1>0, <2>1, <3>1
  <2>4. ASSUME NEW n \in (N - Len(ring') + 1)..N PROVE n \in Range(ring')
    <3>1. PICK i \in 1..Len(ring') : n = N - Len(ring') + i
      <4>1. n - (N - Len(ring')) \in 1..Len(ring') BY <1>0, <2>1
      <4>2. n = N - Len(ring') + (n - (N - Len(ring'))) BY <1>0, <2>1
      <4> QED BY <4>1, <4>2
    <3>2. ring'[i] = n BY <2>2, <3>1
    <3> QED BY <2>1, <3>2 DEF Range
  <2> QED BY <2>3, <2>4
<1>7. Full => /\ Head(ring) = Len(book) - Len(ring) + 1
              /\ Head(ring) \in Range(ring) /\ \A m \in Range(ring) : Head(ring) <= m
  <2>1. SUFFICES ASSUME Full
                 PROVE  /\ Head(ring) = Len(book) - Len(ring) + 1
                        /\ Head(ring) \in Range(ring) /\ \A m \in Range(ring) : Head(ring) <= m
    OBVIOUS
  <2>2. 1 \in 1..Len(ring) BY <1>0, <2>1 DEF Full
  <2>3. Head(ring) = ring[1] BY <1>0, <2>2
  <2>4. Head(ring) = Len(book) - Len(ring) + 1 BY <1>0, <2>2, <2>3
  <2> QED BY <1>0, <1>5, <2>2, <2>4
<1>8. Range(ring') = (Range(ring) \ Evicted) \cup {N}
  <2>1. CASE Full
    <3>1. Len(ring') = Len(ring) BY <1>n, <1>2, <1>3, <2>1
    <3>2. Evicted = {Len(book) - Len(ring) + 1} BY <1>7, <2>1 DEF Evicted
    <3>3. \A lo \in Int : lo < N => (lo + 1)..N = ((lo..Len(book)) \ {lo}) \cup {N} BY <1>n
    <3>4. PICK lo \in Int : lo = Len(book) - Len(ring) + 1 BY <1>n
    <3>5. 0 < Len(ring) BY <1>0, <2>1 DEF Full
    <3>6. lo < N /\ N - Len(ring') + 1 = lo + 1 BY <1>n, <3>1, <3>4, <3>5
    <3> QED BY <1>5, <1>6, <3>2, <3>3, <3>4, <3>6
  <2>2. CASE ~ Full
    <3>1. Len(ring') = Len(ring) + 1 BY <1>n, <1>2, <1>3, <2>2
    <3>2. Evicted = {} BY <2>2 DEF Evicted
    <3>3. \A lo \in Int : lo <= N => lo..N = (lo..Len(book)) \cup {N} BY <1>n
    <3>4. PICK lo \in Int : lo = Len(book) - Len(ring) + 1 BY <1>n
    <3>5. lo <= N /\ N - Len(ring') + 1 = lo BY <1>n, <3>1, <3>4
    <3> QED BY <1>5, <1>6, <3>2, <3>3, <3>4, <3>5
  <2> QED BY <2>1, <2>2
<1> QED BY <1>1, <1>3, <1>4, <1>7, <1>8 DEF N, new

(* The index goes with it, and no task has cost more than it did, but for    *)
(* the new record.                                                           *)
LEMMA RecordKeepsIndex ==
    ASSUME LedgerInv, NEW h \in Requests, NEW c \in Clients, NEW cost \in Nat,
           Record(h, c, cost)
    PROVE  /\ LedgerInv'
           /\ \A t \in Requests : TaskCost(t)' <= TaskCost(t) + (IF t = h THEN cost ELSE 0)
<1> DEFINE N == Len(book) + 1
           kept == IF Full THEN Dropped(byTask, Head(ring)) ELSE byTask
           Stay(t) == Retained(t) \ Evicted
<1>0. LedgerTypes /\ RingIsLatest BY DEF LedgerInv
<1>1. /\ book' \in Seq(Entries) /\ Len(book') = N
      /\ \A n \in 1..Len(book) : book'[n] = book[n]
      /\ book'[N] = [task |-> h, client |-> c, cost |-> cost, reported |-> FALSE]
      /\ ring' \in Seq(Nat) /\ RingIsLatest'
      /\ Range(ring') = (Range(ring) \ Evicted) \cup {N}
      /\ Full => Head(ring) \in Range(ring) /\ \A m \in Range(ring) : Head(ring) <= m
  BY <1>0, RecordMovesRing
<1>2. /\ Len(book) \in Nat /\ DOMAIN book = 1..Len(book)
      /\ \A n \in Range(ring) : n \in 1..Len(book) /\ n \in Nat /\ book[n] \in Entries
  BY <1>0, RingRange
<1>3. byTask \in [Requests -> Seq(Nat)] /\ \A t \in Requests : Lists(byTask[t], Retained(t))
  BY <1>0, BucketsList DEF LedgerTypes
<1>4. kept \in [Requests -> Seq(Nat)] /\ \A t \in Requests : Lists(kept[t], Stay(t))
  <2>1. CASE ~ Full
    <3>1. kept = byTask /\ \A t : Stay(t) = Retained(t) BY <2>1 DEF Evicted
    <3> HIDE DEF kept, Stay
    <3> QED BY <1>3, <3>1
  <2>2. CASE Full
    <3> DEFINE n == Head(ring)
               T == book[n].task
               cut == RemoveAt(byTask[T], Min({i \in DOMAIN byTask[T] : byTask[T][i] = n}))
    <3>1. n \in Range(ring) /\ (\A m \in Range(ring) : n <= m) /\ T \in Requests
      BY <1>1, <1>2, <2>2 DEF Entries
    <3>2. n \in Retained(T) /\ n \in Range(byTask[T]) /\ \A m \in Retained(T) : n <= m
      BY <1>3, <3>1 DEF Retained, Lists
    <3>3. kept = [byTask EXCEPT ![T] = cut] BY <2>2, <3>2 DEF Dropped
    <3>4. Lists(cut, Retained(T) \ {n}) BY <1>3, <3>1, <3>2, ListsDrops
    <3>5. Evicted = {n} BY <2>2 DEF Evicted
    <3>6. \A t \in Requests : t # T => Stay(t) = Retained(t) BY <3>5 DEF Retained
    <3>7. cut \in Seq(Nat) BY <3>4 DEF Lists
    <3>8. Stay(T) = Retained(T) \ {n} BY <3>5
    <3> HIDE DEF cut, kept, Stay, T
    <3>9. kept \in [Requests -> Seq(Nat)] BY <1>3, <3>1, <3>3, <3>7
    <3>10. \A t \in Requests : kept[t] = IF t = T THEN cut ELSE byTask[t] BY <1>3, <3>1, <3>3
    <3> QED BY <1>3, <3>1, <3>4, <3>6, <3>8, <3>9, <3>10
  <2> QED BY <2>1, <2>2
<1>5. \A t \in Requests : Retained(t)' = IF t = h THEN Stay(t) \cup {N} ELSE Stay(t)
  <2>1. \A n \in Range(ring) : book'[n].task = book[n].task BY <1>1, <1>2
  <2>2. book'[N].task = h BY <1>1
  <2> QED BY <1>1, <2>1, <2>2 DEF Retained
<1>6. byTask' \in [Requests -> Seq(Nat)]
      /\ \A t \in Requests : byTask'[t] = IF t = h THEN Append(kept[t], N) ELSE kept[t]
  <2>1. byTask' = [kept EXCEPT ![h] = Append(@, N)] BY DEF Record
  <2>2. N \in Nat BY <1>2
  <2> HIDE DEF kept, N
  <2>3. Append(kept[h], N) \in Seq(Nat) BY <1>4, <2>2
  <2> QED BY <1>4, <2>1, <2>3
<1>7. \A t \in Requests : Lists(byTask'[t], Retained(t)')
  <2>1. N \in Nat /\ \A t : \A m \in Stay(t) : m < N BY <1>2 DEF Retained
  <2>2. Lists(Append(kept[h], N), Stay(h) \cup {N})
    <3> HIDE DEF N, kept, Stay
    <3> QED BY <1>4, <2>1, ListsGrows
  <2> HIDE DEF N, kept, Stay
  <2> QED BY <1>4, <1>5, <1>6, <2>2
<1>8. LedgerInv'
  <2>1. IndexMatchesRing' BY <1>7, BucketsListAfter
  <2>2. totalGlobal' \in Nat /\ totalBy' \in [Clients -> Nat]
    BY <1>0, FlowAssumption DEF LedgerTypes, Record
  <2> QED BY <1>1, <1>6, <2>1, <2>2 DEF LedgerInv, LedgerTypes
<1>9. ASSUME NEW t \in Requests
      PROVE  TaskCost(t)' <= TaskCost(t) + (IF t = h THEN cost ELSE 0)
  <2>0. /\ TaskCost(t) = SumOf(Costs(book), Retained(t)) /\ TaskCost(t) \in Nat
        /\ IsFiniteSet(Retained(t)) /\ \A n \in Retained(t) : Costs(book)[n] \in Nat
    BY TaskCostIs DEF CostIs
  <2>1. /\ TaskCost(t)' = SumOf(Costs(book'), Retained(t)') /\ TaskCost(t)' \in Nat
        /\ IsFiniteSet(Retained(t)') /\ \A n \in Retained(t)' : Costs(book')[n] \in Nat
    BY <1>8, TaskCostAfter DEF CostIs
  <2>2. /\ SumOf(Costs(book), Stay(t)) \in Nat
        /\ SumOf(Costs(book), Stay(t)) <= SumOf(Costs(book), Retained(t))
    BY <2>0, SumOfPart
  <2>3. SumOf(Costs(book'), Stay(t)) = SumOf(Costs(book), Stay(t))
    <3>1. \A n \in Stay(t) : Costs(book')[n] = Costs(book)[n]
      <4>1. DOMAIN book' = 1..N BY <1>1
      <4> QED BY <1>1, <1>2, <4>1 DEF Costs, Retained
    <3>2. IsFiniteSet(Stay(t)) /\ Whole(Costs(book'), Stay(t)) /\ Whole(Costs(book), Stay(t))
      BY <2>0, <3>1, FS_Subset DEF Whole
    <3> HIDE DEF Stay
    <3> QED BY <3>1, <3>2, SumSame
  <2>4. CASE t # h
    <3>1. Retained(t)' = Stay(t) BY <1>5, <2>4
    <3> HIDE DEF Stay
    <3>2. TaskCost(t)' <= TaskCost(t) BY <2>0, <2>1, <2>2, <2>3, <3>1
    <3> QED BY <2>0, <2>1, <2>4, <3>2
  <2>5. CASE t = h
    <3>1. Retained(t)' = Stay(t) \cup {N} BY <1>5, <2>5
    <3>2. N \in Retained(t)' /\ Retained(t)' \ {N} = Stay(t)
      <4>1. N \notin Stay(t) BY <1>2 DEF Retained
      <4> QED BY <3>1, <4>1
    <3>3. Costs(book')[N] = cost
      <4>1. N \in DOMAIN book' BY <1>1, <1>2
      <4> QED BY <1>1, <4>1 DEF Costs
    <3>4. Whole(Costs(book'), Retained(t)') BY <2>1 DEF Whole
    <3> HIDE DEF N, Stay
    <3>5. SumOf(Costs(book'), Retained(t)') = Costs(book')[N] + SumOf(Costs(book'), Stay(t))
      BY <2>1, <3>2, <3>4, SumPick
    <3> QED BY <2>0, <2>1, <2>2, <2>3, <2>5, <3>3, <3>5
  <2> QED BY <2>4, <2>5
<1> QED BY <1>8, <1>9


(* A claim marks a record, and changes neither its task nor its cost.        *)
LEMMA ClaimKeepsIndex ==
    ASSUME LedgerInv, NEW h \in Requests, Claim(h)
    PROVE  /\ LedgerInv' /\ UNCHANGED <<totalGlobal, totalBy>>
           /\ \A t \in Requests : TaskCost(t)' = TaskCost(t)
<1> DEFINE n == Latest(h)
<1>1. /\ LedgerTypes /\ RingIsLatest /\ book \in Seq(Entries)
      /\ UNCHANGED <<ring, byTask, totalGlobal, totalBy>>
      /\ book' = [book EXCEPT ![n].reported = TRUE]
  BY DEF LedgerInv, LedgerTypes, Claim
<1>2. /\ Len(book) \in Nat /\ DOMAIN book = 1..Len(book)
      /\ \A m \in Range(ring) : m \in 1..Len(book)
  BY <1>1, RingRange
<1>3. \A t \in Requests : Lists(byTask[t], Retained(t)) BY BucketsList
<1>4. n \in 1..Len(book)
  <2>1. byTask[h] \in Seq(Nat) /\ byTask[h] # <<>> /\ n = byTask[h][Len(byTask[h])]
    BY <1>1 DEF LedgerTypes, Claim, Latest, Last
  <2>2. Len(byTask[h]) \in DOMAIN byTask[h] BY <2>1
  <2>3. n \in Range(byTask[h]) BY <2>1, <2>2 DEF Range
  <2> QED BY <1>2, <1>3, <2>3 DEF Lists, Retained
<1>5. book[n] \in Entries BY <1>1, <1>2, <1>4
<1> HIDE DEF n
<1>6. book' = [book EXCEPT ![n] = [book[n] EXCEPT !.reported = TRUE]] BY <1>1
<1>7. /\ book' \in Seq(Entries) /\ Len(book') = Len(book)
      /\ \A m \in 1..Len(book) : book'[m].task = book[m].task /\ book'[m].cost = book[m].cost
  <2> DEFINE marked == [book[n] EXCEPT !.reported = TRUE]
  <2>1. marked \in Entries /\ marked.task = book[n].task /\ marked.cost = book[n].cost
    BY <1>5 DEF Entries
  <2> HIDE DEF marked
  <2>2. book' = [book EXCEPT ![n] = marked] BY <1>6 DEF marked
  <2>3. book' \in Seq(Entries) /\ Len(book') = Len(book)
    <3>1. book \in [1..Len(book) -> Entries] BY <1>1, <1>2
    <3>2. book' \in [1..Len(book) -> Entries] BY <2>1, <2>2, <3>1
    <3>3. book' \in Seq(Entries) BY <1>2, <3>2
    <3>4. DOMAIN book' = 1..Len(book) /\ DOMAIN book' = 1..Len(book') /\ Len(book') \in Nat
      BY <3>2, <3>3
    <3>5. Len(book') = Len(book) BY <1>2, <3>4
    <3> QED BY <3>3, <3>5
  <2>4. \A m \in 1..Len(book) : book'[m] = IF m = n THEN marked ELSE book[m]
    BY <1>2, <2>2
  <2> QED BY <2>1, <2>3, <2>4
<1>8. \A t : Retained(t)' = Retained(t) BY <1>1, <1>2, <1>7 DEF Retained
<1>9. IndexMatchesRing'
  <2>1. \A t \in Requests : Lists(byTask'[t], Retained(t)') BY <1>1, <1>3, <1>8
  <2> QED BY <2>1, BucketsListAfter
<1>10. LedgerInv' BY <1>1, <1>7, <1>9 DEF LedgerInv, LedgerTypes, RingIsLatest
<1>11. ASSUME NEW t \in Requests PROVE TaskCost(t)' = TaskCost(t)
  <2>1. \A i \in DOMAIN byTask[t] : byTask[t][i] \in 1..Len(book)
    BY <1>2, <1>3 DEF Lists, Range, Retained
  <2>2. [i \in DOMAIN byTask[t] |-> book'[byTask[t][i]].cost]
           = [i \in DOMAIN byTask[t] |-> book[byTask[t][i]].cost]
    BY <1>7, <2>1
  <2> QED BY <1>1, <2>2 DEF TaskCost
<1> QED BY <1>1, <1>10, <1>11

\* The ledger has the spend of every flow, and has no more of it to settle.
TotalsKept ==
    /\ totalGlobal = LedgerTotal
    /\ \A c \in Clients : totalBy[c] = LedgerTotalOf(c)
    /\ \A h \in Requests : TaskCost(h) <= recorded[h]

\* A flow spends under the hold it has, one at a time being decided.
FlowHolds ==
    /\ OneChecks
    /\ \A h \in Requests :
          /\ recorded[h] > 0 => hold[h].state \in {"open", "settled"}
          /\ hold[h].state = "none" => hold[h].est = 0

\* What is settled was spent by settled flows.
SettledSpend(H, R) == [h \in Requests |-> IF H[h].state = "settled" THEN R[h] ELSE 0]
SettledIn(H, R, g, b) ==
    /\ g <= SumOf(SettledSpend(H, R), Requests)
    /\ \A c \in Clients : b[c] <= SumOf(PartOf(c, H, SettledSpend(H, R)), Requests)
SettledWasSpent == SettledIn(hold, recorded, settledGlobal, settledBy)

FlowInv ==
    /\ BudgetTypes /\ FlowHolds /\ InflightIsOpenHolds /\ Capped
    /\ LedgerInv /\ TotalsKept /\ SettledWasSpent

(* The steps of the flows are steps of the guard.                            *)
LEMMA EveryFlowGuards ==
    ASSUME FlowInv, [FlowNext]_flowVars
    PROVE  GuardStep
<1>0. /\ hold \in [Requests -> Holds] /\ recorded \in [Requests -> Nat]
      /\ totalGlobal = LedgerTotal /\ \A c \in Clients : totalBy[c] = LedgerTotalOf(c)
      /\ Estimates \subseteq Nat
  BY FlowAssumption DEF FlowInv, BudgetTypes, TotalsKept
<1>1. ASSUME NEW h \in Requests, Reserve(h) PROVE GuardStep
  <2>1. hold[h].client \in Clients BY <1>0 DEF Holds
  <2>2. hold[h].state \in {"none", "checking"}
    BY <1>1 DEF Reserve, ReserveFree, CheckGlobalAt, CheckClientAt
  <2>3. recorded[h] = 0
    <3>1. recorded[h] \in Nat BY <1>0
    <3> QED BY <2>2, <3>1 DEF FlowInv, FlowHolds
  <2>4. ASSUME NEW c \in Clients, NEW est \in Estimates,
               ReserveFree(h, c, est) \/ CheckGlobalAt(h, c, est, Total)
        PROVE  ReserveStep(h)
    <3>1. ReserveFree(h, c, est) \/ CheckGlobal(h, c, est) BY <1>0, <2>4 DEF CheckGlobal, Total
    <3>2. est \in Nat BY <1>0
    <3> QED BY <2>3, <3>1, <3>2 DEF ReserveStep
  <2>5. ASSUME CheckClientAt(h, TotalOf(hold[h].client)) PROVE ReserveStep(h)
    <3>1. TotalOf(hold[h].client) = LedgerTotalOf(hold[h].client) BY <1>0, <2>1 DEF TotalOf
    <3>2. CheckClient(h) BY <2>5, <3>1 DEF CheckClient
    <3> QED BY <2>3, <3>2 DEF ReserveStep
  <2>6. ReserveRaises(h) => ReserveStep(h) BY <2>3 DEF ReserveStep
  <2>7. ReserveStep(h) BY <1>1, <2>4, <2>5, <2>6 DEF Reserve
  <2> QED BY <2>7 DEF GuardStep
<1>2. ASSUME NEW h \in Requests, Attempt(h) PROVE GuardStep
  <2>1. SpendStep(h) BY <1>2 DEF Attempt, SpendStep
  <2> QED BY <2>1 DEF GuardStep
<1>3. ASSUME NEW h \in Requests, SettleFlow(h) PROVE GuardStep
  <2>1. TaskCost(h) \in Nat /\ 0 \in Nat BY TaskCostIs DEF FlowInv, CostIs
  <2>2. \E a \in Nat : Settle(h, a) BY <1>3, <2>1 DEF SettleFlow
  <2> QED BY <2>2 DEF GuardStep
<1>4. UNCHANGED budgetVars => GuardStep BY DEF GuardStep
<1> QED BY <1>1, <1>2, <1>3, <1>4 DEF FlowNext, flowVars


(* Nothing is recorded of a flow until its hold is open, and only one flow   *)
(* at a time is between its two checks.                                      *)
LEMMA FlowHoldsKept ==
    ASSUME FlowInv, [FlowNext]_flowVars
    PROVE  FlowHolds'
<1>0. /\ hold \in [Requests -> Holds] /\ recorded \in [Requests -> Nat]
      /\ FlowHolds
  BY DEF FlowInv, BudgetTypes
<1> USE DEF accountVars
<1>1. CASE UNCHANGED <<hold, recorded>> BY <1>0, <1>1 DEF FlowHolds, OneChecks
<1>2. ASSUME NEW h \in Requests, UNCHANGED recorded, OnlyHoldOf(h),
             hold[h].state \in {"none", "checking"}, hold'[h].state = "none" => hold'[h].est = 0,
             hold'[h].state = "checking" => \A g \in Requests : hold[g].state # "checking"
      PROVE  FlowHolds'
  <2>1. recorded[h] = 0
    <3>1. recorded[h] \in Nat BY <1>0
    <3> QED BY <1>0, <1>2, <3>1 DEF FlowHolds
  <2>2. OneChecks' BY <1>0, <1>2 DEF OnlyHoldOf, OneChecks, FlowHolds
  <2>3. ASSUME NEW g \in Requests
        PROVE  /\ recorded'[g] > 0 => hold'[g].state \in {"open", "settled"}
               /\ hold'[g].state = "none" => hold'[g].est = 0
    <3>1. CASE g = h BY <1>2, <2>1, <3>1
    <3>2. CASE g # h BY <1>0, <1>2, <3>2 DEF OnlyHoldOf, FlowHolds
    <3> QED BY <3>1, <3>2
  <2> QED BY <2>2, <2>3 DEF FlowHolds
<1>3. ASSUME NEW h \in Requests, Reserve(h) PROVE FlowHolds'
  <2>1. ASSUME NEW c, NEW est, ReserveFree(h, c, est) PROVE FlowHolds'
    BY <1>0, <1>2, <2>1 DEF ReserveFree, Issue, OnlyHoldOf
  <2>2. ASSUME NEW c, NEW est, CheckGlobalAt(h, c, est, Total) PROVE FlowHolds'
    <3>1. /\ UNCHANGED recorded /\ OnlyHoldOf(h) /\ hold[h].state \in {"none", "checking"}
          /\ hold'[h].state \in {"checking", "denied"}
          /\ \A g \in Requests : hold[g].state # "checking"
      BY <1>0, <2>2 DEF CheckGlobalAt, Issue, OnlyHoldOf, Locked
    <3> QED BY <1>2, <3>1
  <2>3. ASSUME CheckClientAt(h, TotalOf(hold[h].client)) PROVE FlowHolds'
    <3>1. /\ UNCHANGED recorded /\ OnlyHoldOf(h) /\ hold[h].state \in {"none", "checking"}
          /\ hold'[h].state \in {"open", "denied"}
      BY <1>0, <2>3 DEF CheckClientAt, Issue, OnlyHoldOf
    <3> QED BY <1>2, <3>1
  <2>4. ASSUME ReserveRaises(h) PROVE FlowHolds'
    <3>1. /\ UNCHANGED recorded /\ OnlyHoldOf(h) /\ hold[h].state \in {"none", "checking"}
          /\ hold'[h].state = "none" /\ hold'[h].est = 0
      BY <1>0, <2>4 DEF ReserveRaises, Issue, OnlyHoldOf
    <3> QED BY <1>2, <3>1
  <2> QED BY <1>3, <2>1, <2>2, <2>3, <2>4 DEF Reserve
<1>4. ASSUME NEW h \in Requests, Attempt(h) PROVE FlowHolds'
  <2>1. PICK cost \in {0, 1} : RecordSpend(h, cost) BY <1>4 DEF Attempt
  <2>2. UNCHANGED hold /\ recorded' = [recorded EXCEPT ![h] = @ + cost] /\ Open(h)
    BY <1>4, <2>1 DEF RecordSpend, Attempt
  <2>3. ASSUME NEW g \in Requests, recorded'[g] > 0 PROVE hold[g].state \in {"open", "settled"}
    <3>1. CASE g = h BY <2>2, <3>1 DEF Open
    <3>2. CASE g # h BY <1>0, <2>2, <2>3, <3>2 DEF FlowHolds
    <3> QED BY <3>1, <3>2
  <2> QED BY <1>0, <2>2, <2>3 DEF FlowHolds, OneChecks
<1>5. ASSUME NEW h \in Requests, SettleFlow(h) PROVE FlowHolds'
  <2>1. PICK a : Settle(h, a) BY <1>5 DEF SettleFlow
  <2>2. CASE ~ Open(h) BY <1>1, <2>1, <2>2 DEF Settle, budgetVars
  <2>3. CASE Open(h)
    <3>1. UNCHANGED recorded /\ OnlyHoldOf(h) /\ hold'[h].state = "settled"
      BY <1>0, <2>1, <2>3 DEF Settle, OnlyHoldOf, Holds
    <3>2. OneChecks' BY <1>0, <3>1 DEF OnlyHoldOf, OneChecks, FlowHolds
    <3>3. ASSUME NEW g \in Requests
          PROVE  /\ recorded'[g] > 0 => hold'[g].state \in {"open", "settled"}
                 /\ hold'[g].state = "none" => hold'[g].est = 0
      <4>1. CASE g = h BY <3>1, <4>1
      <4>2. CASE g # h BY <1>0, <3>1, <4>2 DEF OnlyHoldOf, FlowHolds
      <4> QED BY <4>1, <4>2
    <3> QED BY <3>2, <3>3 DEF FlowHolds
  <2> QED BY <2>2, <2>3
<1>6. UNCHANGED budgetVars => FlowHolds' BY <1>1 DEF budgetVars
<1> QED BY <1>3, <1>4, <1>5, <1>6 DEF FlowNext, flowVars

(* The ledger stays in order through every step of the flows.                *)
LEMMA EveryFlowRecords ==
    ASSUME FlowInv, [FlowNext]_flowVars
    PROVE  /\ LedgerInv'
           /\ \/ UNCHANGED <<totalGlobal, totalBy>>
                 /\ \A t \in Requests : TaskCost(t)' = TaskCost(t)
              \/ \E h \in Requests : Attempt(h)
<1>1. ASSUME UNCHANGED ledgerVars
      PROVE  /\ LedgerInv' /\ UNCHANGED <<totalGlobal, totalBy>>
             /\ \A t \in Requests : TaskCost(t)' = TaskCost(t)
  BY <1>1 DEF FlowInv, ledgerVars, LedgerInv, LedgerTypes, RingIsLatest, IndexMatchesRing, TaskCost
<1>2. ASSUME NEW h \in Requests, Attempt(h) PROVE LedgerInv'
  <2>1. PICK cost \in {0, 1} : Record(h, hold[h].client, cost) BY <1>2 DEF Attempt
  <2>2. hold[h].client \in Clients /\ cost \in Nat BY DEF FlowInv, BudgetTypes, Holds
  <2> QED BY <2>1, <2>2, RecordKeepsIndex DEF FlowInv
<1>3. ASSUME NEW h \in Requests, Claim(h)
      PROVE  /\ LedgerInv' /\ UNCHANGED <<totalGlobal, totalBy>>
             /\ \A t \in Requests : TaskCost(t)' = TaskCost(t)
  BY <1>3, ClaimKeepsIndex DEF FlowInv
<1> QED BY <1>1, <1>2, <1>3 DEF FlowNext, flowVars


\* What a step does to the spend and to the holds: no flow moves that has spent
\* anything, or a flow settles for no more than it spent, or it spends.
NoSpenderMoves ==
    /\ UNCHANGED <<recorded, settledGlobal, settledBy>>
    /\ \A g \in Requests : hold'[g] = hold[g] \/ recorded[g] = 0
SettlesItsSpend(h, a) == Open(h) /\ a <= recorded[h] /\ Settle(h, a)

(* Every step is of one of these three kinds.                                *)
LEMMA EveryFlowSpends ==
    ASSUME FlowInv, [FlowNext]_flowVars
    PROVE  \/ NoSpenderMoves
           \/ \E h \in Requests, a \in Nat : SettlesItsSpend(h, a)
           \/ \E h \in Requests : Attempt(h)
<1>0. hold \in [Requests -> Holds] /\ recorded \in [Requests -> Nat]
  BY DEF FlowInv, BudgetTypes
<1>1. UNCHANGED budgetVars => NoSpenderMoves BY DEF NoSpenderMoves, budgetVars, accountVars
<1>2. ASSUME NEW h \in Requests, Reserve(h) PROVE NoSpenderMoves
  <2>1. hold[h].state \in {"none", "checking"}
    BY <1>2 DEF Reserve, ReserveFree, CheckGlobalAt, CheckClientAt
  <2>2. recorded[h] = 0
    <3>1. recorded[h] \in Nat BY <1>0
    <3> QED BY <2>1, <3>1 DEF FlowInv, FlowHolds
  <2>3. UNCHANGED <<recorded, settledGlobal, settledBy>>
    BY <1>2 DEF Reserve, ReserveFree, CheckGlobalAt, CheckClientAt, ReserveRaises, accountVars
  <2>4. \E x, c, e : Issue(h, x, c, e)
    BY <1>2 DEF Reserve, ReserveFree, CheckGlobalAt, CheckClientAt, ReserveRaises
  <2>5. \A g \in Requests : g # h => hold'[g] = hold[g] BY <1>0, <2>4 DEF Issue
  <2> QED BY <2>2, <2>3, <2>5 DEF NoSpenderMoves
<1>3. ASSUME NEW h \in Requests, SettleFlow(h)
      PROVE  NoSpenderMoves \/ \E a \in Nat : SettlesItsSpend(h, a)
  <2>1. /\ TaskCost(h) \in Nat /\ TaskCost(h) <= recorded[h]
        /\ 0 \in Nat /\ 0 <= recorded[h]
    BY <1>0, TaskCostIs DEF FlowInv, TotalsKept, CostIs
  <2>2. PICK a \in Nat : Settle(h, a) /\ a <= recorded[h] BY <1>3, <2>1 DEF SettleFlow
  <2>3. CASE Open(h) BY <2>2, <2>3 DEF SettlesItsSpend
  <2>4. CASE ~ Open(h) BY <1>1, <2>2, <2>4 DEF Settle
  <2> QED BY <2>3, <2>4
<1> QED BY <1>1, <1>2, <1>3 DEF FlowNext, flowVars

(* A flow's spend adds to the sum of all and to that of its client.          *)
LEMMA SpendAdds ==
    ASSUME NEW H \in [Requests -> Holds], NEW R \in [Requests -> Nat], NEW h \in Requests,
           NEW a \in Nat, NEW Q \in [Requests -> Nat], Q[h] = R[h] + a,
           \A x \in Requests : x # h => R[x] = Q[x]
    PROVE  /\ SumOf(Q, Requests) = SumOf(R, Requests) + a
           /\ \A c : SumOf(PartOf(c, H, Q), Requests)
                        = SumOf(PartOf(c, H, R), Requests) + (IF H[h].client = c THEN a ELSE 0)
<1>1. IsFiniteSet(Requests) BY CapsAssumption
<1>2. PICK n \in Nat : n = R[h] /\ Q[h] = n + a OBVIOUS
<1>3. Whole(R, Requests) /\ Whole(Q, Requests) BY DEF Whole
<1>4. SumOf(R, Requests) \in Int BY <1>1, <1>3, SumWhole
<1>5. SumOf(Q, Requests) = SumOf(R, Requests) - R[h] + Q[h] BY <1>1, <1>3, SumChange
<1>6. SumOf(Q, Requests) = SumOf(R, Requests) + a BY <1>2, <1>4, <1>5
<1>7. ASSUME NEW c
      PROVE  SumOf(PartOf(c, H, Q), Requests)
                = SumOf(PartOf(c, H, R), Requests) + (IF H[h].client = c THEN a ELSE 0)
  <2>1. /\ Whole(PartOf(c, H, R), Requests) /\ Whole(PartOf(c, H, Q), Requests)
        /\ \A x \in Requests : x # h => PartOf(c, H, R)[x] = PartOf(c, H, Q)[x]
        /\ PartOf(c, H, R)[h] = IF H[h].client = c THEN n ELSE 0
        /\ PartOf(c, H, Q)[h] = IF H[h].client = c THEN n + a ELSE 0
    BY <1>2 DEF Whole, PartOf
  <2>2. SumOf(PartOf(c, H, R), Requests) \in Int BY <1>1, <2>1, SumWhole
  <2>3. SumOf(PartOf(c, H, Q), Requests)
           = SumOf(PartOf(c, H, R), Requests) - PartOf(c, H, R)[h] + PartOf(c, H, Q)[h]
    BY <1>1, <2>1, SumChange
  <2> QED BY <2>1, <2>2, <2>3
<1> QED BY <1>6, <1>7

\* The totals g and b are the sums of the spend R of flows with holds H.
TotalsAre(H, R, g, b) ==
    /\ g = SumOf(R, Requests)
    /\ \A c \in Clients : b[c] = SumOf(PartOf(c, H, R), Requests)

(* That is what the invariant says of them, before the step and after.       *)
LEMMA TotalsForm ==
    ASSUME BudgetTypes, TotalsKept
    PROVE  TotalsAre(hold, recorded, totalGlobal, totalBy)
<1>1. hold \in [Requests -> Holds] /\ recorded \in [Requests -> Nat] BY DEF BudgetTypes
<1> QED BY <1>1, WholeSums DEF TotalsKept, TotalsAre, LedgerTotal, LedgerTotalOf, HoldsOf, SumOf

LEMMA TotalsAfter ==
    ASSUME BudgetTypes', TotalsAre(hold', recorded', totalGlobal', totalBy'),
           \A h \in Requests : TaskCost(h)' <= recorded'[h]
    PROVE  TotalsKept'
<1>1. hold' \in [Requests -> Holds] /\ recorded' \in [Requests -> Nat] BY DEF BudgetTypes
<1> QED BY <1>1, WholeSums DEF TotalsKept, TotalsAre, LedgerTotal, LedgerTotalOf, HoldsOf, SumOf

(* The ledger's totals stay the spend of the flows.                          *)
LEMMA TotalsStay ==
    ASSUME FlowInv, BudgetTypes', [FlowNext]_flowVars
    PROVE  TotalsKept'
<1>0. /\ hold \in [Requests -> Holds] /\ recorded \in [Requests -> Nat]
      /\ hold' \in [Requests -> Holds] /\ totalGlobal \in Nat /\ totalBy \in [Clients -> Nat]
      /\ TotalsAre(hold, recorded, totalGlobal, totalBy)
      /\ \A h \in Requests : TaskCost(h) <= recorded[h] /\ TaskCost(h) \in Nat
  BY TotalsForm, TaskCostIs DEF FlowInv, BudgetTypes, TotalsKept, CostIs, LedgerInv, LedgerTypes
<1>1. ASSUME UNCHANGED <<recorded, totalGlobal, totalBy>>,
             \A t \in Requests : TaskCost(t)' = TaskCost(t),
             \A g \in Requests : hold'[g].client = hold[g].client \/ recorded[g] = 0
      PROVE  TotalsKept'
  <2>1. \A c : PartOf(c, hold', recorded') = PartOf(c, hold, recorded)
    <3>1. ASSUME NEW c PROVE PartOf(c, hold', recorded') = PartOf(c, hold, recorded)
      BY <1>1 DEF PartOf
    <3> QED BY <3>1
  <2>2. TotalsAre(hold', recorded', totalGlobal', totalBy') BY <1>0, <1>1, <2>1 DEF TotalsAre
  <2> QED BY <1>0, <1>1, <2>2, TotalsAfter
<1>2. ASSUME NEW h \in Requests, Attempt(h) PROVE TotalsKept'
  <2>0. hold[h].client \in Clients BY <1>0 DEF Holds
  <2>1. PICK cost \in {0, 1} : RecordSpend(h, cost) /\ Record(h, hold[h].client, cost)
    BY <1>2 DEF Attempt
  <2>2. /\ UNCHANGED hold /\ recorded' = [recorded EXCEPT ![h] = @ + cost] /\ cost \in Nat
        /\ totalGlobal' = totalGlobal + cost
        /\ totalBy' = [totalBy EXCEPT ![hold[h].client] = @ + cost]
    BY <2>1 DEF RecordSpend, Record
  <2>3. TotalsAre(hold', recorded', totalGlobal', totalBy')
    <3>0. /\ hold \in [Requests -> Holds] /\ recorded \in [Requests -> Nat] /\ cost \in Nat
          /\ recorded' \in [Requests -> Nat] /\ recorded'[h] = recorded[h] + cost
          /\ \A x \in Requests : x # h => recorded[x] = recorded'[x]
      BY <1>0, <2>2
    <3>1. /\ SumOf(recorded', Requests) = SumOf(recorded, Requests) + cost
          /\ \A c : SumOf(PartOf(c, hold, recorded'), Requests)
                       = SumOf(PartOf(c, hold, recorded), Requests)
                         + (IF hold[h].client = c THEN cost ELSE 0)
      BY <3>0, SpendAdds
    <3>2. \A c \in Clients : totalBy'[c] = totalBy[c] + (IF hold[h].client = c THEN cost ELSE 0)
      BY <1>0, <2>0, <2>2
    <3>3. UNCHANGED hold /\ totalGlobal' = totalGlobal + cost BY <2>2
    <3>4. /\ totalGlobal = SumOf(recorded, Requests)
          /\ \A c \in Clients : totalBy[c] = SumOf(PartOf(c, hold, recorded), Requests)
      BY <1>0 DEF TotalsAre
    <3> QED BY <3>1, <3>2, <3>3, <3>4 DEF TotalsAre
  <2>4. ASSUME NEW t \in Requests PROVE TaskCost(t)' <= recorded'[t]
    <3>1. /\ TaskCost(t)' <= TaskCost(t) + (IF t = h THEN cost ELSE 0)
          /\ TaskCost(t)' \in Nat
      <4>1. LedgerInv' BY <2>0, <2>1, <2>2, RecordKeepsIndex DEF FlowInv
      <4> QED BY <2>0, <2>1, <2>2, <4>1, RecordKeepsIndex, TaskCostAfter DEF FlowInv, CostIs
    <3>2. recorded'[t] = recorded[t] + (IF t = h THEN cost ELSE 0) /\ recorded[t] \in Nat
      BY <1>0, <2>2
    <3> QED BY <1>0, <2>2, <3>1, <3>2
  <2> QED BY <2>3, <2>4, TotalsAfter
<1>3. CASE \E h \in Requests : Attempt(h) BY <1>2, <1>3
<1>4. CASE UNCHANGED <<totalGlobal, totalBy>>
           /\ \A t \in Requests : TaskCost(t)' = TaskCost(t)
  <2>1. NoSpenderMoves => TotalsKept' BY <1>1, <1>4 DEF NoSpenderMoves
  <2>2. ASSUME NEW h \in Requests, NEW a \in Nat, SettlesItsSpend(h, a) PROVE TotalsKept'
    <3>1. UNCHANGED recorded /\ \A g \in Requests : hold'[g].client = hold[g].client
      BY <1>0, <2>2 DEF SettlesItsSpend, Settle, Holds
    <3> QED BY <1>1, <1>4, <3>1
  <2> QED BY <1>3, <2>1, <2>2, EveryFlowSpends
<1> QED BY <1>3, <1>4, EveryFlowRecords

(* No step settles more than settled flows have spent.                       *)
LEMMA SettledStays ==
    ASSUME FlowInv, BudgetTypes', [FlowNext]_flowVars
    PROVE  SettledWasSpent'
<1>0. /\ hold \in [Requests -> Holds] /\ recorded \in [Requests -> Nat]
      /\ hold' \in [Requests -> Holds] /\ recorded' \in [Requests -> Nat]
      /\ settledGlobal \in Nat /\ settledBy \in [Clients -> Nat]
      /\ SettledIn(hold, recorded, settledGlobal, settledBy)
  BY DEF FlowInv, BudgetTypes, SettledWasSpent
<1>1. ASSUME UNCHANGED <<settledGlobal, settledBy>>,
             \A g \in Requests :
                /\ SettledSpend(hold', recorded')[g] = SettledSpend(hold, recorded)[g]
                /\ hold'[g].client = hold[g].client \/ SettledSpend(hold, recorded)[g] = 0
      PROVE  SettledWasSpent'
  <2>1. SettledSpend(hold', recorded') = SettledSpend(hold, recorded) BY <1>1 DEF SettledSpend
  <2>2. ASSUME NEW c
        PROVE  PartOf(c, hold', SettledSpend(hold, recorded))
                  = PartOf(c, hold, SettledSpend(hold, recorded))
    BY <1>1 DEF PartOf
  <2>3. SettledIn(hold', recorded', settledGlobal', settledBy')
    BY <1>0, <1>1, <2>1, <2>2 DEF SettledIn
  <2> QED BY <2>3 DEF SettledWasSpent
<1>2. CASE NoSpenderMoves
  <2>1. \A g \in Requests :
           /\ SettledSpend(hold', recorded')[g] = SettledSpend(hold, recorded)[g]
           /\ hold'[g].client = hold[g].client \/ SettledSpend(hold, recorded)[g] = 0
    BY <1>2 DEF NoSpenderMoves, SettledSpend
  <2> QED BY <1>1, <1>2, <2>1 DEF NoSpenderMoves
<1>3. ASSUME NEW h \in Requests, Attempt(h) PROVE SettledWasSpent'
  <2>1. PICK cost \in {0, 1} : RecordSpend(h, cost) BY <1>3 DEF Attempt
  <2>2. /\ UNCHANGED <<hold, settledGlobal, settledBy>> /\ Open(h)
        /\ recorded' = [recorded EXCEPT ![h] = @ + cost]
    BY <1>3, <2>1 DEF RecordSpend, Attempt
  <2>3. ASSUME NEW g \in Requests
        PROVE  SettledSpend(hold', recorded')[g] = SettledSpend(hold, recorded)[g]
    <3>1. CASE g = h BY <2>2, <3>1 DEF SettledSpend, Open
    <3>2. CASE g # h BY <1>0, <2>2, <3>2 DEF SettledSpend
    <3> QED BY <3>1, <3>2
  <2> QED BY <1>1, <2>2, <2>3
<1>4. ASSUME NEW h \in Requests, NEW a \in Nat, SettlesItsSpend(h, a) PROVE SettledWasSpent'
  <2> DEFINE g0 == SettledSpend(hold, recorded)
             g1 == SettledSpend(hold', recorded')
             c0 == hold[h].client
  <2>1. /\ UNCHANGED recorded /\ a <= recorded[h] /\ recorded[h] \in Nat /\ c0 \in Clients
        /\ hold[h].state = "open" /\ hold'[h].state = "settled"
        /\ \A g \in Requests : g # h => hold'[g] = hold[g]
        /\ \A g \in Requests : hold'[g].client = hold[g].client
        /\ settledGlobal' = settledGlobal + a
        /\ settledBy' = [settledBy EXCEPT ![c0] = @ + a]
    BY <1>0, <1>4 DEF SettlesItsSpend, Settle, Open, Holds
  <2>2. PICK n \in Nat : n = recorded[h] /\ a <= n BY <2>1
  <2>3. /\ hold \in [Requests -> Holds] /\ g0 \in [Requests -> Nat] /\ g1 \in [Requests -> Nat] /\ g1[h] = g0[h] + n
        /\ \A x \in Requests : x # h => g0[x] = g1[x]
    <3>1. g0 \in [Requests -> Nat] /\ g0[h] = 0 BY <1>0, <2>1 DEF SettledSpend
    <3>2. g1 \in [Requests -> Nat] /\ g1[h] = n /\ \A x \in Requests : x # h => g0[x] = g1[x]
      BY <1>0, <2>1, <2>2 DEF SettledSpend
    <3> HIDE DEF g0, g1
    <3> QED BY <1>0, <2>2, <3>1, <3>2
  <2>4. \A c : PartOf(c, hold', g1) = PartOf(c, hold, g1)
    <3>1. ASSUME NEW c PROVE PartOf(c, hold', g1) = PartOf(c, hold, g1) BY <2>1 DEF PartOf
    <3> QED BY <3>1
  <2>5. /\ settledGlobal <= SumOf(g0, Requests)
        /\ \A c \in Clients : settledBy[c] <= SumOf(PartOf(c, hold, g0), Requests)
    BY <1>0 DEF SettledIn
  <2> HIDE DEF g0, g1
  <2>6. /\ SumOf(g1, Requests) = SumOf(g0, Requests) + n
        /\ \A c : SumOf(PartOf(c, hold, g1), Requests)
                     = SumOf(PartOf(c, hold, g0), Requests) + (IF c0 = c THEN n ELSE 0)
    BY <2>3, SpendAdds
  <2>7. SumOf(g0, Requests) \in Nat /\ \A c : SumOf(PartOf(c, hold, g0), Requests) \in Nat
    <3>1. IsFiniteSet(Requests) /\ \A c : \A g \in Requests : PartOf(c, hold, g0)[g] \in Nat
      BY <2>3, CapsAssumption DEF PartOf
    <3> QED BY <2>3, <3>1, SumAtLeast
  <2>8. settledGlobal' <= SumOf(g1, Requests) BY <1>0, <2>1, <2>2, <2>5, <2>6, <2>7
  <2>9. ASSUME NEW c \in Clients PROVE settledBy'[c] <= SumOf(PartOf(c, hold', g1), Requests)
    <3>1. settledBy'[c] = settledBy[c] + (IF c0 = c THEN a ELSE 0) /\ settledBy[c] \in Nat
      BY <1>0, <2>1
    <3>2. SumOf(PartOf(c, hold', g1), Requests)
             = SumOf(PartOf(c, hold, g0), Requests) + (IF c0 = c THEN n ELSE 0)
      BY <2>4, <2>6
    <3> QED BY <2>2, <2>5, <2>7, <3>1, <3>2
  <2> QED BY <2>8, <2>9 DEF SettledWasSpent, SettledIn, g1
<1> QED BY <1>2, <1>3, <1>4, EveryFlowSpends


(* In the first state nothing is held, recorded or settled.                  *)
LEMMA FlowInitOK == FlowInit => FlowInv
<1> SUFFICES ASSUME FlowInit PROVE FlowInv OBVIOUS
<1> DEFINE zero == [h \in Requests |-> 0]
<1>1. /\ hold = [h \in Requests |->
                   [state |-> "none", client |-> CHOOSE c \in Clients : TRUE, est |-> 0]]
      /\ inflightGlobal = 0 /\ inflightBy = [c \in Clients |-> 0]
      /\ settledGlobal = 0 /\ settledBy = [c \in Clients |-> 0]
      /\ recorded = zero
      /\ book = <<>> /\ ring = <<>> /\ byTask = [t \in Requests |-> <<>>]
      /\ totalGlobal = 0 /\ totalBy = [c \in Clients |-> 0]
  BY FlowAssumption DEF FlowInit, BudgetInit, LedgerInit
<1>2. (CHOOSE c \in Clients : TRUE) \in Clients BY CapsAssumption
<1>3. BudgetTypes BY <1>1, <1>2 DEF BudgetTypes, Holds, HoldState
<1>4. FlowHolds BY <1>1 DEF FlowHolds, OneChecks
<1>5. /\ Whole(zero, Requests) /\ IsFiniteSet(Requests)
      /\ GlobalCap \in Nat /\ ClientCap \in Nat
  BY CapsAssumption DEF Whole
<1>6. SumOf(zero, Requests) = 0
  <2> DEFINE twice == [h \in Requests |-> zero[h] + zero[h]]
  <2>1. SumOf(twice, Requests) = SumOf(zero, Requests) + SumOf(zero, Requests)
    BY <1>5, SumPlus
  <2>2. twice = zero OBVIOUS
  <2> HIDE DEF twice, zero
  <2>3. SumOf(zero, Requests) \in Int BY <1>5, SumWhole
  <2>4. PICK n \in Int : n = SumOf(zero, Requests) BY <2>3
  <2>5. n = n + n BY <2>1, <2>2, <2>4
  <2>6. n = 0 BY <2>5
  <2> QED BY <2>4, <2>6
<1>7. /\ OpenEst(hold) = zero /\ WeightIn(hold, recorded) = zero
      /\ SettledSpend(hold, recorded) = zero
      /\ \A c : PartOf(c, hold, zero) = zero
  <2>1. ASSUME NEW c PROVE PartOf(c, hold, zero) = zero BY <1>1 DEF PartOf
  <2>2. OpenEst(hold) = zero /\ WeightIn(hold, recorded) = zero
        /\ SettledSpend(hold, recorded) = zero
    BY <1>1 DEF OpenEst, WeightIn, SettledSpend
  <2> QED BY <2>1, <2>2
<1>8. InflightIsOpenHolds
  <2>1. hold \in [Requests -> Holds] BY <1>3 DEF BudgetTypes
  <2>2. InflightIs(hold, inflightGlobal, inflightBy) BY <1>1, <1>6, <1>7 DEF InflightIs
  <2> QED BY <2>1, <2>2, WholeSums DEF InflightIsOpenHolds, InflightIs, Held, Open, HoldsOf
<1>9. Capped
  <2>1. SumOf(Weight, Requests) = 0 /\ \A c : SumOf(WeightOf(c), Requests) = 0
    BY <1>6, <1>7 DEF Weight, WeightOf
  <2>2. \A h \in Requests : hold[h].state # "checking" BY <1>1
  <2> QED BY <1>5, <2>1, <2>2 DEF Capped
<1>10. LedgerInv
  <2>1. LedgerTypes BY <1>1 DEF LedgerTypes
  <2>2. RingIsLatest BY <1>1, LedgerAssumption DEF RingIsLatest
  <2>3. IndexMatchesRing BY <1>1, FlowAssumption DEF IndexMatchesRing, Range
  <2> QED BY <2>1, <2>2, <2>3 DEF LedgerInv
<1>11. TotalsKept
  <2>1. hold \in [Requests -> Holds] /\ zero \in [Requests -> Nat]
    BY <1>1, <1>3 DEF BudgetTypes
  <2>2. LedgerTotal = 0 BY <1>1, <1>6 DEF LedgerTotal, SumOf
  <2>3. ASSUME NEW c \in Clients PROVE LedgerTotalOf(c) = 0
    <3>1. recorded = zero BY <1>1
    <3>2. recorded \in [Requests -> Nat] BY <2>1, <3>1
    <3>3. LedgerTotalOf(c) = SumOf(PartOf(c, hold, recorded), Requests)
      BY <2>1, <3>2, WholeSums DEF LedgerTotalOf, HoldsOf
    <3>4. PartOf(c, hold, zero) = zero BY <1>7
    <3> HIDE DEF zero
    <3>5. PartOf(c, hold, recorded) = zero BY <3>1, <3>4
    <3> QED BY <1>6, <3>3, <3>5
  <2>4. ASSUME NEW h \in Requests PROVE TaskCost(h) <= recorded[h]
    <3>1. Retained(h) = {} BY <1>1 DEF Retained, Range
    <3>2. TaskCost(h) = SumOf(Costs(book), {}) BY <1>10, <3>1, TaskCostIs DEF CostIs
    <3>3. SumOf(Costs(book), {}) = 0 BY FS_EmptySet, SumUnfolds DEF SumOf
    <3> QED BY <1>1, <3>2, <3>3
  <2> QED BY <1>1, <2>2, <2>3, <2>4 DEF TotalsKept
<1>12. SettledWasSpent
  <2>1. settledGlobal = 0 /\ \A c \in Clients : settledBy[c] = 0 BY <1>1
  <2>2. /\ SettledSpend(hold, recorded) = zero
        /\ \A c : PartOf(c, hold, zero) = zero
    BY <1>7
  <2>3. SumOf(zero, Requests) = 0 BY <1>6
  <2> HIDE DEF zero
  <2>4. SumOf(SettledSpend(hold, recorded), Requests) = 0 BY <2>2, <2>3
  <2>5. ASSUME NEW c \in Clients
        PROVE  SumOf(PartOf(c, hold, SettledSpend(hold, recorded)), Requests) = 0
    <3>1. PartOf(c, hold, SettledSpend(hold, recorded)) = zero BY <2>2
    <3> QED BY <2>3, <3>1
  <2> QED BY <2>1, <2>4, <2>5 DEF SettledWasSpent, SettledIn
<1> QED BY <1>3, <1>4, <1>8, <1>9, <1>10, <1>11, <1>12 DEF FlowInv

(* The whole invariant of the guard over the ledger: what is in flight and   *)
(* under the caps, what the ring and the index hold, and that the totals are *)
(* the spend of the flows, of which no more is settled than was spent.       *)
THEOREM FlowInvariant == FlowSpec => []FlowInv
<1>1. FlowInit => FlowInv BY FlowInitOK
<1>2. FlowInv /\ [FlowNext]_flowVars => FlowInv'
  <2>1. SUFFICES ASSUME FlowInv, [FlowNext]_flowVars PROVE FlowInv' OBVIOUS
  <2>2. GuardStep BY <2>1, EveryFlowGuards
  <2>3. BudgetTypes /\ OneChecks /\ InflightIsOpenHolds /\ Capped
    BY <2>1 DEF FlowInv, FlowHolds
  <2>4. BudgetTypes' BY <2>2, <2>3, GuardTypes
  <2>5. InflightIsOpenHolds' BY <2>2, <2>3, <2>4, GuardInflight
  <2>6. Capped' BY <2>2, <2>3, <2>4, GuardCapped
  <2>7. FlowHolds' BY <2>1, FlowHoldsKept
  <2>8. LedgerInv' BY <2>1, EveryFlowRecords
  <2>9. TotalsKept' /\ SettledWasSpent' BY <2>1, <2>4, TotalsStay, SettledStays
  <2> QED BY <2>4, <2>5, <2>6, <2>7, <2>8, <2>9 DEF FlowInv
<1> QED BY <1>1, <1>2, PTL DEF FlowSpec

(* Under any callers, whatever is recorded, evicted, claimed and settled, a  *)
(* task's bucket lists what the ring retains of the task, oldest first, for  *)
(* every capacity of the ring.                                               *)
THEOREM IndexAlwaysMatchesRing == FlowSpec => []IndexMatchesRing
<1>1. FlowInv => IndexMatchesRing BY DEF FlowInv, LedgerInv
<1> QED BY <1>1, FlowInvariant, PTL

(* The guard asks the ledger for its totals, and these keep what the ring    *)
(* has evicted: so the caps hold over the ledger too, and it is no help to a *)
(* flow to be forgotten.                                                     *)
THEOREM CapsHoldOverTheRing == FlowSpec => []SpendWithinCaps
<1>1. FlowInv => SpendWithinCaps BY CapsAreKept DEF FlowInv
<1> QED BY <1>1, FlowInvariant, PTL

(* No more is settled than was recorded, of all clients and of each: the     *)
(* larger of the two figures is always the ledger's.                         *)
THEOREM SettledIsAlwaysRecorded == FlowSpec => []SettledIsRecorded
<1>1. ASSUME FlowInv PROVE SettledIsRecorded
  <2>1. /\ hold \in [Requests -> Holds] /\ recorded \in [Requests -> Nat]
        /\ settledGlobal \in Nat /\ settledBy \in [Clients -> Nat]
        /\ TotalsAre(hold, recorded, totalGlobal, totalBy)
        /\ SettledIn(hold, recorded, settledGlobal, settledBy)
    BY <1>1, TotalsForm DEF FlowInv, BudgetTypes, SettledWasSpent
  <2> DEFINE s == SettledSpend(hold, recorded)
  <2>2. IsFiniteSet(Requests) BY CapsAssumption
  <2>3. ASSUME NEW c
        PROVE  /\ Whole(s, Requests) /\ Whole(recorded, Requests)
               /\ Whole(PartOf(c, hold, s), Requests) /\ Whole(PartOf(c, hold, recorded), Requests)
               /\ \A h \in Requests : s[h] <= recorded[h]
               /\ \A h \in Requests : PartOf(c, hold, s)[h] <= PartOf(c, hold, recorded)[h]
    <3>1. \A h \in Requests : s[h] \in Nat /\ recorded[h] \in Nat /\ s[h] <= recorded[h]
      BY <2>1 DEF SettledSpend
    <3> HIDE DEF s
    <3> QED BY <3>1 DEF Whole, PartOf
  <2> HIDE DEF s
  <2>4. /\ SumOf(s, Requests) <= SumOf(recorded, Requests)
        /\ SumOf(s, Requests) \in Int /\ SumOf(recorded, Requests) \in Int
    BY <2>2, <2>3, SumBelow, SumWhole
  <2>5. settledGlobal <= Total
    <3>1. settledGlobal <= SumOf(s, Requests) /\ totalGlobal = SumOf(recorded, Requests)
      BY <2>1 DEF SettledIn, TotalsAre, s
    <3> QED BY <2>1, <2>4, <3>1 DEF Total
  <2>6. ASSUME NEW c \in Clients PROVE settledBy[c] <= TotalOf(c)
    <3>1. settledBy[c] <= SumOf(PartOf(c, hold, s), Requests)
          /\ totalBy[c] = SumOf(PartOf(c, hold, recorded), Requests)
      BY <2>1 DEF SettledIn, TotalsAre, s
    <3>2. /\ SumOf(PartOf(c, hold, s), Requests) <= SumOf(PartOf(c, hold, recorded), Requests)
          /\ SumOf(PartOf(c, hold, s), Requests) \in Int
          /\ SumOf(PartOf(c, hold, recorded), Requests) \in Int
      BY <2>2, <2>3, SumBelow, SumWhole
    <3>3. settledBy[c] \in Nat BY <2>1
    <3> QED BY <3>1, <3>2, <3>3 DEF TotalOf
  <2> QED BY <2>5, <2>6 DEF SettledIsRecorded
<1>2. FlowInv => SettledIsRecorded BY <1>1
<1> QED BY <1>2, FlowInvariant, PTL
=============================================================================
