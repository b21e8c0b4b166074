----------------------------- MODULE FiniteFolds -----------------------------
(***************************************************************************)
(* What a fold of the community modules computes, for the proofs: the sum  *)
(* over a set of applicants is one, running a pipeline of commands is      *)
(* another.  The parameters are operators, so a proof module takes this    *)
(* one with INSTANCE and cites its theorems.                               *)
(*                                                                         *)
(* Every proof is by a smallest counterexample: among finitely many        *)
(* subsets, one for which the claim fails and for whose proper subsets it  *)
(* holds.                                                                  *)
(***************************************************************************)
EXTENDS FiniteSetTheorems, WellFoundedInduction, Folds, TLAPS

CONSTANTS
  Op(_, _),     \* combines the value of an element with the fold of the rest
  Base(_),      \* the fold of the empty set, under a parameter
  F(_, _),      \* the value of an element, under the same parameter
  Pick(_)       \* the element folded last

Fold(env, S) == MapThenFoldSet(Op, Base(env), LAMBDA x : F(env, x), Pick, S)

Picks(S) == \A T \in SUBSET S : T # {} => Pick(T) \in T

(* The recursive function behind the fold, as the set of its equations.    *)
Solves(g, env, S) ==
  g = [T \in SUBSET S |-> IF T = {} THEN Base(env)
                          ELSE Op(F(env, Pick(T)), g[T \ {Pick(T)}])]

LEMMA FoldUnfolded ==
  ASSUME NEW env, NEW S
  PROVE  Fold(env, S) = (CHOOSE g : Solves(g, env, S))[S]
  BY DEF Fold, MapThenFoldSet, Solves

(* Among sets of subsets of a finite set, a smallest one.                  *)
LEMMA Smallest ==
  ASSUME NEW S, IsFiniteSet(S), NEW B \in SUBSET (SUBSET S), B # {}
  PROVE  \E T \in B : \A U \in B : U \subseteq T => U = T
<1>1. IsWellFoundedOn(StrictSubsetOrdering(S), SUBSET S)
  BY FS_StrictSubsetOrderingWellFounded, FS_FiniteSubsetsOfFinite
<1>2. PICK T \in B : \A U \in B : ~(<<U, T>> \in StrictSubsetOrdering(S))
  BY <1>1, WFMin
<1>3. ASSUME NEW U \in B, U \subseteq T, U # T PROVE FALSE
  BY <1>2, <1>3 DEF StrictSubsetOrdering
<1> QED
  BY <1>3

(* A solution is the only one on the subsets it shares with another.       *)
LEMMA SolvesAgree ==
  ASSUME NEW env, NEW S, IsFiniteSet(S), Picks(S), NEW R \in SUBSET S,
         NEW g, Solves(g, env, R), NEW h, Solves(h, env, S), NEW T \in SUBSET R
  PROVE  g[T] = h[T]
<1> SUFFICES ASSUME g[T] # h[T] PROVE FALSE
  OBVIOUS
<1> DEFINE Bad == {U \in SUBSET R : g[U] # h[U]}
<1>1. IsFiniteSet(R)
  BY FS_Subset
<1>2. PICK U \in Bad : \A V \in Bad : V \subseteq U => V = U
  <2>1. Bad \in SUBSET (SUBSET R) /\ Bad # {}
    OBVIOUS
  <2> HIDE DEF Bad
  <2> QED
    BY <1>1, <2>1, Smallest
<1>3. g[U] = IF U = {} THEN Base(env) ELSE Op(F(env, Pick(U)), g[U \ {Pick(U)}])
  BY DEF Solves
<1>4. h[U] = IF U = {} THEN Base(env) ELSE Op(F(env, Pick(U)), h[U \ {Pick(U)}])
  BY DEF Solves
<1>5. U # {}
  BY <1>3, <1>4
<1>6. Pick(U) \in U
  BY <1>5 DEF Picks
<1>7. g[U \ {Pick(U)}] = h[U \ {Pick(U)}]
  <2> DEFINE V == U \ {Pick(U)}
  <2>1. V \subseteq U /\ V # U /\ V \in SUBSET R
    BY <1>6
  <2> QED
    BY <1>2, <2>1
<1> QED
  BY <1>3, <1>4, <1>5, <1>7

(* The equations have a solution on every finite set.                      *)
LEMMA SolutionExists ==
  ASSUME NEW env, NEW S, IsFiniteSet(S), Picks(S)
  PROVE  \E g : Solves(g, env, S)
<1> DEFINE Bad == {T \in SUBSET S : ~\E g : Solves(g, env, T)}
<1> SUFFICES ASSUME Bad # {} PROVE FALSE
  OBVIOUS
<1>1. PICK T \in Bad : \A U \in Bad : U \subseteq T => U = T
  <2>1. Bad \in SUBSET (SUBSET S)
    OBVIOUS
  <2> HIDE DEF Bad
  <2> QED
    BY <2>1, Smallest
<1>2. T \in SUBSET S /\ IsFiniteSet(T) /\ Picks(T)
  BY FS_Subset DEF Picks
<1> DEFINE Sol(U) == CHOOSE g : Solves(g, env, U)
           G == [U \in SUBSET T |-> IF U = {} THEN Base(env)
                   ELSE Op(F(env, Pick(U)), Sol(U \ {Pick(U)})[U \ {Pick(U)}])]
<1>3. ASSUME NEW U \in SUBSET T, U # T PROVE Solves(Sol(U), env, U)
  <2>1. \E g : Solves(g, env, U)
    BY <1>1, <1>2, <1>3
  <2> QED
    BY <2>1
<1>4. ASSUME NEW U \in SUBSET T, U # {}
      PROVE  Sol(U \ {Pick(U)})[U \ {Pick(U)}] = G[U \ {Pick(U)}]
  <2> DEFINE V == U \ {Pick(U)}
             W == V \ {Pick(V)}
  <2>1. Pick(U) \in U /\ V \in SUBSET T /\ V # T /\ IsFiniteSet(V) /\ Picks(V)
    BY <1>2, <1>4, FS_Subset DEF Picks
  <2>2. Solves(Sol(V), env, V)
    BY <1>3, <2>1
  <2> HIDE DEF Sol
  <2>3. Sol(V)[V] = IF V = {} THEN Base(env) ELSE Op(F(env, Pick(V)), Sol(V)[W])
    BY <2>2 DEF Solves
  <2>4. G[V] = IF V = {} THEN Base(env) ELSE Op(F(env, Pick(V)), Sol(W)[W])
    BY <2>1
  <2>5. CASE V = {}
    BY <2>3, <2>4, <2>5
  <2>6. CASE V # {}
    <3>1. W \in SUBSET V /\ W \in SUBSET T /\ W # T
      BY <2>1, <2>6 DEF Picks
    <3>2. Solves(Sol(W), env, W)
      BY <1>3, <3>1
    <3>3. Sol(W)[W] = Sol(V)[W]
      <4> HIDE DEF W, V
      <4> QED
        BY <2>1, <2>2, <3>1, <3>2, SolvesAgree
    <3> QED
      BY <2>3, <2>4, <2>6, <3>3
  <2> HIDE DEF G
  <2> QED
    BY <2>5, <2>6
<1>5. Solves(G, env, T)
  <2> HIDE DEF Sol
  <2>1. G = [U \in SUBSET T |-> IF U = {} THEN Base(env)
               ELSE Op(F(env, Pick(U)), G[U \ {Pick(U)}])]
    BY <1>4
  <2> HIDE DEF G
  <2> QED
    BY <2>1 DEF Solves
<1> QED
  BY <1>1, <1>5
-----------------------------------------------------------------------------
(* The two equations of a fold.                                            *)
LEMMA FoldEmpty == ASSUME NEW env PROVE Fold(env, {}) = Base(env)
<1>1. IsFiniteSet({}) /\ Picks({})
  BY FS_EmptySet DEF Picks
<1>2. \E g : Solves(g, env, {})
  BY <1>1, SolutionExists
<1>3. Solves(CHOOSE g : Solves(g, env, {}), env, {})
  BY <1>2
<1> DEFINE h == CHOOSE g : Solves(g, env, {})
<1>4. Solves(h, env, {}) /\ Fold(env, {}) = h[{}]
  BY <1>3, FoldUnfolded
<1> HIDE DEF h
<1> QED
  BY <1>4 DEF Solves

LEMMA FoldStep ==
  ASSUME NEW env, NEW S, IsFiniteSet(S), Picks(S), S # {}
  PROVE  /\ Pick(S) \in S
         /\ Fold(env, S) = Op(F(env, Pick(S)), Fold(env, S \ {Pick(S)}))
<1> DEFINE R == S \ {Pick(S)}
           h(T) == CHOOSE g : Solves(g, env, T)
<1>1. R \in SUBSET S /\ IsFiniteSet(R) /\ Picks(R) /\ Pick(S) \in S
  BY FS_Subset DEF Picks
<1>2. Solves(h(S), env, S) /\ Solves(h(R), env, R)
  <2>1. (\E g : Solves(g, env, S)) /\ (\E g : Solves(g, env, R))
    <3> HIDE DEF R
    <3> QED BY <1>1, SolutionExists
  <2> QED
    BY <2>1
<1>3. Fold(env, S) = h(S)[S] /\ Fold(env, R) = h(R)[R]
  BY FoldUnfolded
<1> HIDE DEF h
<1>4. h(S)[S] = Op(F(env, Pick(S)), h(S)[R])
  BY <1>2 DEF Solves
<1>5. h(R)[R] = h(S)[R]
  <2> HIDE DEF R
  <2> QED
    BY <1>1, <1>2, SolvesAgree
<1> QED
  BY <1>1, <1>3, <1>4, <1>5
-----------------------------------------------------------------------------
(* Two parameters with the same base and values give the same fold.        *)
LEMMA FoldSame ==
  ASSUME NEW env, NEW other, NEW S, IsFiniteSet(S), Picks(S), Base(env) = Base(other),
         \A x \in S : F(env, x) = F(other, x)
  PROVE  Fold(env, S) = Fold(other, S)
<1> DEFINE Bad == {T \in SUBSET S : Fold(env, T) # Fold(other, T)}
<1> SUFFICES ASSUME Bad # {} PROVE FALSE
  OBVIOUS
<1>1. PICK T \in Bad : \A U \in Bad : U \subseteq T => U = T
  <2>1. Bad \in SUBSET (SUBSET S)
    OBVIOUS
  <2> HIDE DEF Bad
  <2> QED
    BY <2>1, Smallest
<1>2. T \in SUBSET S /\ IsFiniteSet(T) /\ Picks(T)
  BY FS_Subset DEF Picks
<1>3. CASE T = {}
  BY <1>1, <1>3, FoldEmpty
<1>4. CASE T # {}
  <2> DEFINE R == T \ {Pick(T)}
  <2>1. /\ Pick(T) \in T
        /\ Fold(env, T) = Op(F(env, Pick(T)), Fold(env, R))
        /\ Fold(other, T) = Op(F(other, Pick(T)), Fold(other, R))
    BY <1>2, <1>4, FoldStep
  <2>2. Fold(env, R) = Fold(other, R)
    <3>1. R \in SUBSET S /\ R \subseteq T /\ R # T
      BY <1>2, <2>1
    <3> QED
      BY <1>1, <3>1
  <2> QED
    BY <1>1, <1>2, <2>1, <2>2
<1> QED
  BY <1>3, <1>4

(* A fold stays in the set its operator stays in.                          *)
LEMMA FoldType ==
  ASSUME NEW env, NEW S, IsFiniteSet(S), Picks(S), NEW Typ, Base(env) \in Typ,
         \A x \in S : F(env, x) \in Typ, \A s, t \in Typ : Op(s, t) \in Typ
  PROVE  Fold(env, S) \in Typ
<1> DEFINE Bad == {T \in SUBSET S : Fold(env, T) \notin Typ}
<1> SUFFICES ASSUME Bad # {} PROVE FALSE
  OBVIOUS
<1>1. PICK T \in Bad : \A U \in Bad : U \subseteq T => U = T
  <2>1. Bad \in SUBSET (SUBSET S)
    OBVIOUS
  <2> HIDE DEF Bad
  <2> QED
    BY <2>1, Smallest
<1>2. T \in SUBSET S /\ IsFiniteSet(T) /\ Picks(T)
  BY FS_Subset DEF Picks
<1>3. T # {}
  BY <1>1, FoldEmpty
<1> DEFINE R == T \ {Pick(T)}
<1>4. Pick(T) \in T /\ Fold(env, T) = Op(F(env, Pick(T)), Fold(env, R))
  BY <1>2, <1>3, FoldStep
<1>5. Fold(env, R) \in Typ
  <2>1. R \in SUBSET S /\ R \subseteq T /\ R # T
    BY <1>2, <1>4
  <2> QED
    BY <1>1, <2>1
<1> QED
  BY <1>1, <1>2, <1>4, <1>5

(* When the operator is associative and commutative, any element may be    *)
(* the one folded last.                                                    *)
OrderFree(Typ) ==
  /\ \A s, t \in Typ : Op(s, t) \in Typ /\ Op(s, t) = Op(t, s)
  /\ \A s, t, w \in Typ : Op(s, Op(t, w)) = Op(Op(s, t), w)

LEMMA FoldRemove ==
  ASSUME NEW env, NEW S, IsFiniteSet(S), Picks(S), NEW Typ, Base(env) \in Typ,
         \A x \in S : F(env, x) \in Typ, OrderFree(Typ), NEW e \in S
  PROVE  Fold(env, S) = Op(F(env, e), Fold(env, S \ {e}))
<1> DEFINE Bad == {T \in SUBSET S : \E x \in T : Fold(env, T) # Op(F(env, x), Fold(env, T \ {x}))}
<1> SUFFICES ASSUME Bad # {} PROVE FALSE
  OBVIOUS
<1>1. PICK T \in Bad : \A U \in Bad : U \subseteq T => U = T
  <2>1. Bad \in SUBSET (SUBSET S)
    OBVIOUS
  <2> HIDE DEF Bad
  <2> QED
    BY <2>1, Smallest
<1>2. PICK x \in T : Fold(env, T) # Op(F(env, x), Fold(env, T \ {x}))
  BY <1>1
<1> DEFINE c == Pick(T)
           rest == T \ {c, x}
<1>3. T \in SUBSET S /\ IsFiniteSet(T) /\ Picks(T) /\ c \in T
  BY <1>2, FS_Subset DEF Picks
<1>4. Fold(env, T) = Op(F(env, c), Fold(env, T \ {c}))
  BY <1>3, FoldStep
<1>5. c # x
  BY <1>2, <1>4
<1>6. Fold(env, T \ {c}) = Op(F(env, x), Fold(env, rest))
  <2>1. T \ {c} \subseteq T /\ T \ {c} # T /\ T \ {c} \in SUBSET S /\ x \in T \ {c}
    BY <1>2, <1>3, <1>5
  <2>2. (T \ {c}) \ {x} = rest
    OBVIOUS
  <2>3. T \ {c} \notin Bad
    <3> HIDE DEF Bad
    <3> QED BY <1>1, <2>1
  <2> QED
    BY <2>1, <2>2, <2>3
<1>7. Fold(env, T \ {x}) = Op(F(env, c), Fold(env, rest))
  <2>1. T \ {x} \subseteq T /\ T \ {x} # T /\ T \ {x} \in SUBSET S /\ c \in T \ {x}
    BY <1>2, <1>3, <1>5
  <2>2. (T \ {x}) \ {c} = rest
    OBVIOUS
  <2>3. T \ {x} \notin Bad
    <3> HIDE DEF Bad
    <3> QED BY <1>1, <2>1
  <2> QED
    BY <2>1, <2>2, <2>3
<1>8. Fold(env, rest) \in Typ
  <2>1. rest \in SUBSET S /\ IsFiniteSet(rest) /\ Picks(rest)
    BY <1>3, FS_Subset DEF Picks
  <2> HIDE DEF rest
  <2> QED
    BY <2>1, FoldType DEF OrderFree
<1>9. F(env, c) \in Typ /\ F(env, x) \in Typ
  BY <1>2, <1>3
<1> HIDE DEF c, rest
<1>10. Op(F(env, c), Op(F(env, x), Fold(env, rest))) = Op(F(env, x), Op(F(env, c), Fold(env, rest)))
  <2>1. Op(F(env, c), Op(F(env, x), Fold(env, rest))) = Op(Op(F(env, c), F(env, x)), Fold(env, rest))
    BY <1>8, <1>9 DEF OrderFree
  <2>2. Op(F(env, x), Op(F(env, c), Fold(env, rest))) = Op(Op(F(env, x), F(env, c)), Fold(env, rest))
    BY <1>8, <1>9 DEF OrderFree
  <2>3. Op(F(env, c), F(env, x)) = Op(F(env, x), F(env, c))
    BY <1>9 DEF OrderFree
  <2> QED
    BY <2>1, <2>2, <2>3
<1> QED
  BY <1>2, <1>4, <1>6, <1>7, <1>10
=============================================================================
