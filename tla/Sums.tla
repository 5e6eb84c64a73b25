-------------------------------- MODULE Sums --------------------------------
(***************************************************************************)
(* Sums of a function over a finite set (SumFunctionOnSet of Functions):   *)
(* prices of orders, RAM of plans.  The fold behind it is a recursive      *)
(* function on the subsets of the set; that there is such a function, and  *)
(* everything that follows from its equation, is shown by looking at a     *)
(* smallest set that would refute it (MinimalSubset).                      *)
(***************************************************************************)
EXTENDS Integers, FiniteSets, Functions, FiniteSetTheorems, WellFoundedInduction, TLAPS

Pick(s) == CHOOSE x \in s : TRUE

\* g sums f over the subsets of S, one element after the other.
SumRec(f, S, g) ==
  g = [s \in SUBSET S |-> IF s = {} THEN 0 ELSE f[Pick(s)] + g[s \ {Pick(s)}]]

\* A sum is what such a function says of the whole set.
LEMMA SumUnfold ==
  ASSUME NEW f, NEW S
  PROVE  SumFunctionOnSet(f, S) = (CHOOSE g : SumRec(f, S, g))[S]
BY DEF SumFunctionOnSet, FoldFunctionOnSet, MapThenFoldSet, SumRec, Pick

\* The element taken first is one of the set.
LEMMA PickIn == ASSUME NEW s, s # {} PROVE Pick(s) \in s
BY DEF Pick

\* A set of finite sets that is not empty has a minimal one.
LEMMA MinimalSubset ==
  ASSUME NEW S, IsFiniteSet(S), NEW B, B \subseteq SUBSET S, B # {}
  PROVE  \E T \in B : \A U \in B : U \subseteq T => U = T
<1>1. B \subseteq FiniteSubsetsOf(S)
  BY FS_Subset DEF FiniteSubsetsOf
<1>2. PICK T \in B : \A U \in B : ~ (<<U, T>> \in StrictSubsetOrdering(S))
  BY <1>1, FS_StrictSubsetOrderingWellFounded, WFMin, Zenon
<1>3. ASSUME NEW U \in B, U \subseteq T PROVE U = T
  BY <1>1, <1>2, <1>3 DEF StrictSubsetOrdering
<1> QED BY <1>3

\* The sums over the subsets of U do not depend on the set they are taken in.
LEMMA SumRecUnique ==
  ASSUME NEW f, NEW S, IsFiniteSet(S), NEW U \in SUBSET S, NEW g, NEW h,
         SumRec(f, S, g), SumRec(f, U, h)
  PROVE  \A T \in SUBSET U : g[T] = h[T]
<1> DEFINE B == {T \in SUBSET U : g[T] # h[T]}
<1>1. SUFFICES ASSUME B # {} PROVE FALSE
  OBVIOUS
<1>2. B \subseteq SUBSET S
  OBVIOUS
<1>3. PICK T \in B : \A V \in B : V \subseteq T => V = T
  <2> HIDE DEF B
  <2> QED BY <1>1, <1>2, MinimalSubset
<1>4. CASE T = {}
  BY <1>3, <1>4 DEF SumRec
<1>5. CASE T # {}
  <2> DEFINE V == T \ {Pick(T)}
  <2>1. V \subseteq T /\ V # T /\ V \in SUBSET U /\ V \in SUBSET S /\ T \in SUBSET S
    BY <1>5, PickIn
  <2>2. g[V] = h[V]
    BY <1>3, <2>1
  <2>3. g[T] = f[Pick(T)] + g[V] /\ h[T] = f[Pick(T)] + h[V]
    BY <1>3, <1>5, <2>1 DEF SumRec
  <2> QED BY <1>3, <2>2, <2>3
<1> QED BY <1>4, <1>5

\* There are such sums.
LEMMA SumRecExists ==
  ASSUME NEW f, NEW S, IsFiniteSet(S)
  PROVE  \E g : SumRec(f, S, g)
<1> DEFINE B == {T \in SUBSET S : ~ \E g : SumRec(f, T, g)}
<1>1. SUFFICES ASSUME B # {} PROVE FALSE
  OBVIOUS
<1>2. PICK T \in B : \A V \in B : V \subseteq T => V = T
  <2>1. B \subseteq SUBSET S
    OBVIOUS
  <2> HIDE DEF B
  <2> QED BY <1>1, <2>1, MinimalSubset
<1> DEFINE of(V) == (CHOOSE g : SumRec(f, V, g))[V]
           G == [s \in SUBSET T |-> IF s = {} THEN 0 ELSE f[Pick(s)] + of(s \ {Pick(s)})]
<1>3. ASSUME NEW V \in SUBSET T, V # T
      PROVE  SumRec(f, V, CHOOSE g : SumRec(f, V, g))
  <2>1. V \notin B
    BY <1>2, <1>3
  <2>2. \E g : SumRec(f, V, g)
    BY <2>1, <1>2
  <2> QED BY <2>2
<1>4. IsFiniteSet(T) /\ \A V \in SUBSET T : IsFiniteSet(V)
  BY <1>2, FS_Subset
<1>5. ASSUME NEW V \in SUBSET T, V # T
      PROVE  of(V) = IF V = {} THEN 0 ELSE f[Pick(V)] + of(V \ {Pick(V)})
  <2> DEFINE g == CHOOSE g : SumRec(f, V, g)
             W == V \ {Pick(V)}
             h == CHOOSE h : SumRec(f, W, h)
  <2>1. SumRec(f, V, g)
    BY <1>3, <1>5
  <2>2. CASE V = {}
    <3> HIDE DEF g
    <3> QED BY <2>1, <2>2 DEF SumRec, g
  <2>3. CASE V # {}
    <3>1. W \in SUBSET V /\ W \in SUBSET T /\ W # T /\ W # V
      BY <1>5, <2>3, PickIn
    <3>2. SumRec(f, W, h)
      BY <1>3, <3>1
    <3>3. of(V) = g[V] /\ of(W) = h[W]
      OBVIOUS
    <3>4. IsFiniteSet(V) /\ W \in SUBSET W
      BY <1>4
    <3> HIDE DEF g, h, W, of, G, B
    <3>5. \A X \in SUBSET W : g[X] = h[X]
      BY <2>1, <3>1, <3>2, <3>4, SumRecUnique, SMTT(30)
    <3>6. g[V] = f[Pick(V)] + g[W]
      BY <2>1, <2>3 DEF SumRec, W
    <3> QED BY <2>3, <3>3, <3>4, <3>5, <3>6 DEF W
  <2> QED BY <2>2, <2>3
<1>6. SumRec(f, T, G)
  <2>1. ASSUME NEW s \in SUBSET T, s # {}
        PROVE  of(s \ {Pick(s)}) = G[s \ {Pick(s)}]
    <3> DEFINE V == s \ {Pick(s)}
    <3>1. V \in SUBSET T /\ V # T
      BY <2>1, PickIn
    <3>2. of(V) = IF V = {} THEN 0 ELSE f[Pick(V)] + of(V \ {Pick(V)})
      BY <1>5, <3>1
    <3>3. G[V] = IF V = {} THEN 0 ELSE f[Pick(V)] + of(V \ {Pick(V)})
      BY <3>1
    <3> QED BY <3>2, <3>3
  <2> HIDE DEF of
  <2>2. G = [s \in SUBSET T |-> IF s = {} THEN 0 ELSE f[Pick(s)] + G[s \ {Pick(s)}]]
    BY <2>1
  <2> HIDE DEF G
  <2> QED BY <2>2 DEF SumRec
<1> QED BY <1>2, <1>6

\* The sum over a finite set that is not empty, element by element.
LEMMA SumPick ==
  ASSUME NEW f, NEW S, IsFiniteSet(S)
  PROVE  SumFunctionOnSet(f, S) =
           IF S = {} THEN 0 ELSE f[Pick(S)] + SumFunctionOnSet(f, S \ {Pick(S)})
<1> DEFINE W == S \ {Pick(S)}
           g == CHOOSE g : SumRec(f, S, g)
           h == CHOOSE h : SumRec(f, W, h)
<1>1. SumRec(f, S, g) /\ SumFunctionOnSet(f, S) = g[S]
  BY SumRecExists, SumUnfold
<1>2. IsFiniteSet(W)
  BY FS_Subset
<1>3. SumRec(f, W, h) /\ SumFunctionOnSet(f, W) = h[W]
  BY <1>2, SumRecExists, SumUnfold
<1> HIDE DEF g, h
<1>4. g[W] = h[W]
  BY <1>1, <1>3, SumRecUnique
<1>5. g[S] = IF S = {} THEN 0 ELSE f[Pick(S)] + g[W]
  BY <1>1 DEF SumRec, W
<1> QED BY <1>1, <1>3, <1>4, <1>5 DEF W

\* Sums of natural numbers are natural numbers.
LEMMA SumNat ==
  ASSUME NEW S, IsFiniteSet(S), NEW f, \A x \in S : f[x] \in Nat
  PROVE  SumFunctionOnSet(f, S) \in Nat
<1> DEFINE B == {T \in SUBSET S : SumFunctionOnSet(f, T) \notin Nat}
<1>1. SUFFICES ASSUME B # {} PROVE FALSE
  OBVIOUS
<1>2. PICK T \in B : \A V \in B : V \subseteq T => V = T
  <2>1. B \subseteq SUBSET S
    OBVIOUS
  <2> HIDE DEF B
  <2> QED BY <1>1, <2>1, MinimalSubset
<1>3. IsFiniteSet(T)
  BY <1>2, FS_Subset
<1>4. T # {}
  <2>1. T = {} => SumFunctionOnSet(f, T) = 0
    BY <1>3, SumPick
  <2> QED BY <1>2, <2>1
<1>5. SumFunctionOnSet(f, T) = f[Pick(T)] + SumFunctionOnSet(f, T \ {Pick(T)}) /\ Pick(T) \in S
  BY <1>2, <1>3, <1>4, SumPick, PickIn
<1>6. SumFunctionOnSet(f, T \ {Pick(T)}) \in Nat
  BY <1>2, <1>4, PickIn
<1> QED BY <1>2, <1>5, <1>6

\* An element may be taken from a sum, whichever it is.
LEMMA SumRemove ==
  ASSUME NEW S, IsFiniteSet(S), NEW f, \A y \in S : f[y] \in Nat, NEW x \in S
  PROVE  SumFunctionOnSet(f, S) = f[x] + SumFunctionOnSet(f, S \ {x})
<1> DEFINE Splits(T, y) ==
             SumFunctionOnSet(f, T) = f[y] + SumFunctionOnSet(f, T \ {y})
           B == {T \in SUBSET S : \E y \in T : ~Splits(T, y)}
<1>1. SUFFICES ASSUME B # {} PROVE FALSE
  <2>1. S \notin B => Splits(S, x)
    OBVIOUS
  <2> QED BY <2>1
<1>2. PICK T \in B : \A V \in B : V \subseteq T => V = T
  <2>1. B \subseteq SUBSET S
    OBVIOUS
  <2> HIDE DEF B
  <2> QED BY <1>1, <2>1, MinimalSubset
<1>3. PICK z \in T : ~Splits(T, z)
  BY <1>2
<1>4. \A V \in SUBSET S : IsFiniteSet(V) /\ SumFunctionOnSet(f, V) \in Nat
  <2> TAKE V \in SUBSET S
  <2>1. IsFiniteSet(V)
    BY FS_Subset
  <2> QED BY <2>1, SumNat
<1> DEFINE y == Pick(T)
           V == T \ {y}
           W == T \ {z}
<1>5. T \in SUBSET S /\ y \in T /\ z \in T /\ f[y] \in Nat /\ f[z] \in Nat
  BY <1>2, <1>3, PickIn
<1>6. SumFunctionOnSet(f, T) = f[y] + SumFunctionOnSet(f, V)
  BY <1>4, <1>5, SumPick
<1>7. y # z
  BY <1>3, <1>6
<1>8. Splits(V, z) /\ Splits(W, y)
  <2>1. V \notin B /\ W \notin B
    BY <1>2, <1>5
  <2>2. V \in SUBSET S /\ W \in SUBSET S /\ z \in V /\ y \in W
    BY <1>5, <1>7
  <2> QED BY <2>1, <2>2
<1>9. V \ {z} = W \ {y} /\ V \ {z} \in SUBSET S /\ V \in SUBSET S /\ W \in SUBSET S
  BY <1>5
<1>10. SumFunctionOnSet(f, T) = f[z] + SumFunctionOnSet(f, W)
  <2>1. /\ SumFunctionOnSet(f, V) = f[z] + SumFunctionOnSet(f, V \ {z})
        /\ SumFunctionOnSet(f, W) = f[y] + SumFunctionOnSet(f, V \ {z})
    BY <1>8, <1>9
  <2>2. /\ SumFunctionOnSet(f, V \ {z}) \in Nat /\ SumFunctionOnSet(f, V) \in Nat
        /\ SumFunctionOnSet(f, W) \in Nat
    BY <1>4, <1>9
  <2> HIDE DEF V, W, y
  <2> QED BY <1>5, <1>6, <2>1, <2>2
<1> QED BY <1>3, <1>10

\* The sum over no element.
LEMMA SumEmpty == ASSUME NEW f PROVE SumFunctionOnSet(f, {}) = 0
BY SumPick, FS_EmptySet

\* One element more.
LEMMA SumAdd ==
  ASSUME NEW S, IsFiniteSet(S), NEW f, \A y \in S : f[y] \in Nat,
         NEW x, x \notin S, f[x] \in Nat
  PROVE  SumFunctionOnSet(f, S \cup {x}) = SumFunctionOnSet(f, S) + f[x]
<1> DEFINE T == S \cup {x}
<1>1. IsFiniteSet(T) /\ x \in T /\ T \ {x} = S /\ \A y \in T : f[y] \in Nat
  BY FS_AddElement
<1>2. SumFunctionOnSet(f, S) \in Nat
  BY SumNat
<1> HIDE DEF T
<1>3. SumFunctionOnSet(f, T) = f[x] + SumFunctionOnSet(f, T \ {x})
  BY <1>1, SumRemove
<1> QED BY <1>1, <1>2, <1>3 DEF T

\* Equal summands have equal sums.
LEMMA SumSame ==
  ASSUME NEW S, IsFiniteSet(S), NEW f, NEW g, \A x \in S : f[x] = g[x]
  PROVE  SumFunctionOnSet(f, S) = SumFunctionOnSet(g, S)
<1> DEFINE B == {T \in SUBSET S : SumFunctionOnSet(f, T) # SumFunctionOnSet(g, T)}
<1>1. SUFFICES ASSUME B # {} PROVE FALSE
  OBVIOUS
<1>2. PICK T \in B : \A V \in B : V \subseteq T => V = T
  <2>1. B \subseteq SUBSET S
    OBVIOUS
  <2> HIDE DEF B
  <2> QED BY <1>1, <2>1, MinimalSubset
<1>3. IsFiniteSet(T) /\ T \in SUBSET S
  BY <1>2, FS_Subset
<1>4. CASE T = {}
  BY <1>2, <1>4, SumEmpty
<1>5. CASE T # {}
  <2> DEFINE V == T \ {Pick(T)}
  <2>1. Pick(T) \in T
    BY <1>5, PickIn
  <2>2. SumFunctionOnSet(f, V) = SumFunctionOnSet(g, V)
    BY <1>2, <2>1
  <2>3. /\ SumFunctionOnSet(f, T) = f[Pick(T)] + SumFunctionOnSet(f, V)
        /\ SumFunctionOnSet(g, T) = g[Pick(T)] + SumFunctionOnSet(g, V)
    BY <1>3, <1>5, SumPick
  <2> QED BY <1>2, <1>3, <2>1, <2>2, <2>3
<1> QED BY <1>4, <1>5

\* A part sums to no more than the whole.
LEMMA SumPart ==
  ASSUME NEW S, IsFiniteSet(S), NEW f, \A x \in S : f[x] \in Nat, NEW P \in SUBSET S
  PROVE  SumFunctionOnSet(f, P) <= SumFunctionOnSet(f, S)
<1> DEFINE B == {T \in SUBSET S :
                   P \subseteq T /\ ~(SumFunctionOnSet(f, P) <= SumFunctionOnSet(f, T))}
<1>1. SUFFICES ASSUME B # {} PROVE FALSE
  OBVIOUS
<1>2. PICK T \in B : \A V \in B : V \subseteq T => V = T
  <2>1. B \subseteq SUBSET S
    OBVIOUS
  <2> HIDE DEF B
  <2> QED BY <1>1, <2>1, MinimalSubset
<1>3. \A V \in SUBSET S : IsFiniteSet(V) /\ SumFunctionOnSet(f, V) \in Nat
  <2> TAKE V \in SUBSET S
  <2>1. IsFiniteSet(V)
    BY FS_Subset
  <2> QED BY <2>1, SumNat
<1>4. P # T
  BY <1>2, <1>3
<1>5. PICK x \in T : x \notin P
  BY <1>2, <1>4
<1>6. P \subseteq T \ {x} /\ T \ {x} \in SUBSET S /\ T \ {x} # T /\ x \in S
  BY <1>2, <1>5
<1>7. SumFunctionOnSet(f, P) <= SumFunctionOnSet(f, T \ {x})
  BY <1>2, <1>6
<1>8. SumFunctionOnSet(f, T) = f[x] + SumFunctionOnSet(f, T \ {x})
  BY <1>2, <1>3, SumRemove
<1> QED BY <1>2, <1>3, <1>6, <1>7, <1>8

(***************************************************************************)
(* The same after a step: f sums what was there before it, g what is there *)
(* after it.                                                               *)
(***************************************************************************)

Naturals(f, S) == IsFiniteSet(S) /\ \A y \in S : f[y] \in Nat
Agree(f, g, S) == \A y \in S : f[y] = g[y]

\* Nothing changes.
LEMMA SumStays ==
  ASSUME NEW S, NEW f, NEW g, Naturals(f, S), Agree(f, g, S)
  PROVE  SumFunctionOnSet(g, S) = SumFunctionOnSet(f, S)
BY SumSame DEF Naturals, Agree

\* An element joins the set.
LEMMA SumJoins ==
  ASSUME NEW S, NEW T, NEW f, NEW g, Naturals(f, S), Agree(f, g, S),
         NEW x, x \notin S, T = S \cup {x}, g[x] \in Nat
  PROVE  SumFunctionOnSet(g, T) = SumFunctionOnSet(f, S) + g[x]
<1>1. SumFunctionOnSet(g, T) = SumFunctionOnSet(g, S) + g[x]
  BY SumAdd DEF Naturals, Agree
<1>2. SumFunctionOnSet(g, S) = SumFunctionOnSet(f, S)
  BY SumStays
<1> QED BY <1>1, <1>2

\* An element leaves the set.
LEMMA SumLeaves ==
  ASSUME NEW S, NEW T, NEW f, NEW g, Naturals(f, S), Agree(f, g, T),
         NEW x \in S, T = S \ {x}
  PROVE  /\ SumFunctionOnSet(g, T) = SumFunctionOnSet(f, S) - f[x]
         /\ f[x] <= SumFunctionOnSet(f, S)
<1>1. Naturals(f, T)
  BY FS_Subset DEF Naturals
<1>2. SumFunctionOnSet(g, T) = SumFunctionOnSet(f, T) /\ SumFunctionOnSet(f, T) \in Nat
  BY <1>1, SumStays, SumNat DEF Naturals
<1>3. SumFunctionOnSet(f, S) = f[x] + SumFunctionOnSet(f, T)
  BY SumRemove DEF Naturals
<1>4. f[x] \in Nat
  BY DEF Naturals
<1> QED BY <1>2, <1>3, <1>4

\* A summand changes.
LEMMA SumChanges ==
  ASSUME NEW S, NEW f, NEW g, Naturals(f, S), NEW x \in S, Agree(f, g, S \ {x}), g[x] \in Nat
  PROVE  SumFunctionOnSet(g, S) = SumFunctionOnSet(f, S) - f[x] + g[x]
<1>1. PICK T : T = S \ {x}
  OBVIOUS
<1>2. SumFunctionOnSet(g, S) = g[x] + SumFunctionOnSet(g, T)
  <2>1. \A y \in S : g[y] \in Nat
    BY DEF Naturals, Agree
  <2> QED BY <1>1, <2>1, SumRemove DEF Naturals
<1>3. SumFunctionOnSet(g, T) = SumFunctionOnSet(f, S) - f[x]
  BY <1>1, SumLeaves
<1>4. SumFunctionOnSet(f, S) \in Nat /\ f[x] \in Nat
  BY SumNat DEF Naturals
<1> QED BY <1>2, <1>3, <1>4
=============================================================================
