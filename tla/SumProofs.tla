----------------------------- MODULE SumProofs ------------------------------
(***************************************************************************)
(* What the sums of the ledgers obey: SumFunctionOnSet of the community    *)
(* modules, unfolded by induction over the subsets of a finite set.  The   *)
(* induction is stated without an operator parameter: of the subsets that  *)
(* a claim fails for, one is minimal, and there the claim holds after all. *)
(***************************************************************************)
EXTENDS Integers, FiniteSetsExt, FiniteSetTheorems, TLAPS

\* A set of subsets of a finite set has a minimal element.
LEMMA MinimalSet ==
  ASSUME NEW S, IsFiniteSet(S), NEW T, T \subseteq SUBSET S, T # {}
  PROVE  \E x \in T : \A y \in SUBSET x : y # x => y \notin T
<1>1. SUBSET S = FiniteSubsetsOf(S)
  BY FS_FiniteSubsetsOfFinite
<1>2. \E x \in T : \A y \in T : ~(<<y, x>> \in StrictSubsetOrdering(S))
  BY <1>1, FS_StrictSubsetOrderingWellFounded, WFMin
<1> QED BY <1>2 DEF StrictSubsetOrdering

-----------------------------------------------------------------------------
(* The recursive function behind SumFunctionOnSet.                         *)

AnyOf(s) == CHOOSE x \in s : TRUE

Unfolds(g, f, S) ==
  g = [s \in SUBSET S |-> IF s = {} THEN 0 ELSE f[AnyOf(s)] + g[s \ {AnyOf(s)}]]

\* The sum is its value at the whole set.
LEMMA SumIsFold ==
  ASSUME NEW f, NEW S
  PROVE  SumFunctionOnSet(f, S) = (CHOOSE g : Unfolds(g, f, S))[S]
  BY DEF SumFunctionOnSet, FoldFunctionOnSet, MapThenFoldSet, Unfolds, AnyOf

\* The element taken first is one of the set.
LEMMA AnyOfIn == \A s : s # {} => AnyOf(s) \in s
  BY DEF AnyOf

\* The function at a subset.
LEMMA Unfold ==
  ASSUME NEW f, NEW S, NEW g, Unfolds(g, f, S), NEW s, s \subseteq S
  PROVE  g[s] = IF s = {} THEN 0 ELSE f[AnyOf(s)] + g[s \ {AnyOf(s)}]
  BY DEF Unfolds

\* Two such functions agree wherever both are defined and their summands agree.
LEMMA UnfoldsAgree ==
  ASSUME NEW f, NEW e, NEW S, NEW R, NEW g, NEW h, Unfolds(g, f, S), Unfolds(h, e, R),
         NEW U, IsFiniteSet(U), U \subseteq S, U \subseteq R, \A x \in U : f[x] = e[x]
  PROVE  g[U] = h[U]
<1> DEFINE Bad == {u \in SUBSET U : g[u] # h[u]}
<1>1. SUFFICES ASSUME U \in Bad PROVE FALSE
  OBVIOUS
<1>2. Bad \subseteq SUBSET U /\ Bad # {}
  BY <1>1
<1>3. PICK u \in Bad : \A y \in SUBSET u : y # u => y \notin Bad
  <2> HIDE DEF Bad
  <2> QED BY <1>2, MinimalSet
<1> u \subseteq S /\ u \subseteq R
  OBVIOUS
<1>4. CASE u = {}
  <2>1. g[u] = 0 /\ h[u] = 0
    <3> HIDE DEF Bad
    <3>1. g[u] = 0
      BY <1>4, Unfold
    <3>2. h[u] = 0
      BY <1>4, Unfold
    <3> QED BY <3>1, <3>2
  <2> QED BY <1>3, <2>1
<1>5. CASE u # {}
  <2>1. AnyOf(u) \in u
    BY <1>5, AnyOfIn
  <2>2. g[u \ {AnyOf(u)}] = h[u \ {AnyOf(u)}]
    BY <1>3, <2>1
  <2>3. /\ g[u] = f[AnyOf(u)] + g[u \ {AnyOf(u)}]
        /\ h[u] = e[AnyOf(u)] + h[u \ {AnyOf(u)}]
    <3> HIDE DEF Bad
    <3> QED BY <1>5, Unfold
  <2> QED BY <2>1, <2>2, <2>3
<1> QED BY <1>4, <1>5

\* There is one for every finite set.
LEMMA UnfoldsExists ==
  ASSUME NEW f, NEW S, IsFiniteSet(S)
  PROVE  \E g : Unfolds(g, f, S)
<1> DEFINE Bad == {u \in SUBSET S : ~ \E g : Unfolds(g, f, u)}
<1>1. SUFFICES ASSUME S \in Bad PROVE FALSE
  OBVIOUS
<1>2. Bad \subseteq SUBSET S /\ Bad # {}
  BY <1>1
<1>3. PICK u \in Bad : \A y \in SUBSET u : y # u => y \notin Bad
  <2> HIDE DEF Bad
  <2> QED BY <1>2, MinimalSet
<1> DEFINE Below(s) == CHOOSE g : Unfolds(g, f, s)
           g == [s \in SUBSET u |-> IF s = {} THEN 0 
                   ELSE f[AnyOf(s)] + Below(s \ {AnyOf(s)})[s \ {AnyOf(s)}]]
<1>4. \A s \in SUBSET u : s # u => Unfolds(Below(s), f, s)
  BY <1>3
<1>5. ASSUME NEW s \in SUBSET u, s # {}
      PROVE  Below(s \ {AnyOf(s)})[s \ {AnyOf(s)}] = g[s \ {AnyOf(s)}]
  <2> DEFINE r == s \ {AnyOf(s)}
             q == r \ {AnyOf(r)}
  <2>1. r \in SUBSET u /\ r # u /\ IsFiniteSet(r)
    BY <1>5, AnyOfIn, FS_Subset
  <2>2. CASE r = {}
    <3>1. Below(r)[r] = 0
      BY <1>4, <2>1, <2>2, Unfold
    <3>2. g[r] = 0
      BY <2>1, <2>2
    <3> QED BY <3>1, <3>2
  <2>3. CASE r # {}
    <3>1. q \in SUBSET u /\ q # u /\ q \subseteq r /\ IsFiniteSet(q)
      BY <2>1, <2>3, AnyOfIn, FS_Subset
    <3>2. Unfolds(Below(r), f, r) /\ Unfolds(Below(q), f, q)
      BY <1>4, <2>1, <3>1
    <3>3. Below(r)[q] = Below(q)[q]
      <4> HIDE DEF Below, r, q
      <4> QED BY <3>1, <3>2, UnfoldsAgree
    <3>4. Below(r)[r] = f[AnyOf(r)] + Below(r)[q]
      <4> HIDE DEF Below, Bad, r, g
      <4>1. Below(r)[r] = f[AnyOf(r)] + Below(r)[r \ {AnyOf(r)}]
        BY <2>3, <3>2, Unfold
      <4> QED BY <4>1
    <3>5. g[r] = f[AnyOf(r)] + Below(q)[q]
      <4> HIDE DEF Below
      <4> QED BY <2>1, <2>3
    <3> QED BY <3>3, <3>4, <3>5
  <2> QED BY <2>2, <2>3
<1>6. Unfolds(g, f, u)
  <2> HIDE DEF Below
  <2>1. \A s \in SUBSET u : g[s] = IF s = {} THEN 0 ELSE f[AnyOf(s)] + g[s \ {AnyOf(s)}]
    <3> SUFFICES ASSUME NEW s \in SUBSET u
                 PROVE  g[s] = IF s = {} THEN 0 ELSE f[AnyOf(s)] + g[s \ {AnyOf(s)}]
      OBVIOUS
    <3>1. g[s] = IF s = {} THEN 0 ELSE f[AnyOf(s)] + Below(s \ {AnyOf(s)})[s \ {AnyOf(s)}]
      OBVIOUS
    <3> QED BY <3>1, <1>5
  <2>2. DOMAIN g = SUBSET u /\ g = [s \in SUBSET u |-> g[s]]
    OBVIOUS
  <2> HIDE DEF g
  <2> QED BY <2>1, <2>2 DEF Unfolds
<1> HIDE DEF g
<1> QED BY <1>3, <1>6

-----------------------------------------------------------------------------
(* Facts about sums.                                                       *)

\* The sum is a value of such a function.
LEMMA SumFold ==
  ASSUME NEW f, NEW S, IsFiniteSet(S)
  PROVE  \E g : Unfolds(g, f, S) /\ SumFunctionOnSet(f, S) = g[S]
  BY UnfoldsExists, SumIsFold

\* The sum over a set depends on the summands in it only.
THEOREM SumAgree ==
  ASSUME NEW f, NEW e, NEW S, IsFiniteSet(S), \A x \in S : f[x] = e[x]
  PROVE  SumFunctionOnSet(f, S) = SumFunctionOnSet(e, S)
  BY SumFold, UnfoldsAgree

\* The sum, one summand unfolded.
LEMMA SumHead ==
  ASSUME NEW f, NEW S, IsFiniteSet(S)
  PROVE  SumFunctionOnSet(f, S) = IF S = {} THEN 0 
             ELSE f[AnyOf(S)] + SumFunctionOnSet(f, S \ {AnyOf(S)})
<1> DEFINE R == S \ {AnyOf(S)}
<1>1. IsFiniteSet(R)
  BY FS_Subset
<1>2. PICK g : Unfolds(g, f, S) /\ SumFunctionOnSet(f, S) = g[S]
  BY SumFold
<1>3. PICK h : Unfolds(h, f, R) /\ SumFunctionOnSet(f, R) = h[R]
  BY <1>1, SumFold
<1>4. g[R] = h[R]
  BY <1>1, <1>2, <1>3, UnfoldsAgree
<1> QED BY <1>2, <1>3, <1>4, Unfold

\* A sum of members of a set that is closed under addition is one of its members.
LEMMA SumClosed ==
  ASSUME NEW N, 0 \in N, \A a, b \in N : a + b \in N,
         NEW f, NEW S, IsFiniteSet(S), \A x \in S : f[x] \in N
  PROVE  SumFunctionOnSet(f, S) \in N
<1> DEFINE Bad == {u \in SUBSET S : SumFunctionOnSet(f, u) \notin N}
<1>1. SUFFICES ASSUME S \in Bad PROVE FALSE
  OBVIOUS
<1>2. Bad \subseteq SUBSET S /\ Bad # {}
  BY <1>1
<1>3. PICK u \in Bad : \A y \in SUBSET u : y # u => y \notin Bad
  <2> HIDE DEF Bad
  <2> QED BY <1>2, MinimalSet
<1>4. IsFiniteSet(u)
  BY FS_Subset
<1>5. u # {}
  <2>1. SumFunctionOnSet(f, {}) = 0
    BY FS_EmptySet, SumHead
  <2>2. SumFunctionOnSet(f, u) \notin N
    BY <1>3
  <2> HIDE DEF Bad
  <2> QED BY <2>1, <2>2
<1>6. AnyOf(u) \in u
  BY <1>5, AnyOfIn
<1>7. SumFunctionOnSet(f, u \ {AnyOf(u)}) \in N
  BY <1>3, <1>6
<1>8. f[AnyOf(u)] \in N
  BY <1>3, <1>6
<1>9. SumFunctionOnSet(f, u) = f[AnyOf(u)] + SumFunctionOnSet(f, u \ {AnyOf(u)})
  BY <1>4, <1>5, SumHead
<1>10. SumFunctionOnSet(f, u) \notin N
  BY <1>3
<1> HIDE DEF Bad
<1> QED BY <1>7, <1>8, <1>9, <1>10

\* A sum of integers is one.
THEOREM SumType ==
  ASSUME NEW f, NEW S, IsFiniteSet(S), \A x \in S : f[x] \in Int
  PROVE  SumFunctionOnSet(f, S) \in Int
<1>1. 0 \in Int /\ \A a, b \in Int : a + b \in Int
  OBVIOUS
<1> QED BY <1>1, SumClosed, Zenon

\* A sum of naturals is one.
THEOREM SumNat ==
  ASSUME NEW f, NEW S, IsFiniteSet(S), \A x \in S : f[x] \in Nat
  PROVE  SumFunctionOnSet(f, S) \in Nat
<1>1. 0 \in Nat /\ \A a, b \in Nat : a + b \in Nat
  OBVIOUS
<1> QED BY <1>1, SumClosed, Zenon

\* The empty sum.
THEOREM SumEmpty == \A f : SumFunctionOnSet(f, {}) = 0
  BY SumHead, FS_EmptySet

\* Any element can be the one that is added.
THEOREM SumElement ==
  ASSUME NEW f, NEW S, IsFiniteSet(S), \A x \in S : f[x] \in Int, NEW e \in S
  PROVE  SumFunctionOnSet(f, S) = f[e] + SumFunctionOnSet(f, S \ {e})
<1> DEFINE Bad == {u \in SUBSET S : \E x \in u :
                     SumFunctionOnSet(f, u) # f[x] + SumFunctionOnSet(f, u \ {x})}
<1>1. SUFFICES ASSUME S \in Bad PROVE FALSE
  OBVIOUS
<1>2. Bad \subseteq SUBSET S /\ Bad # {}
  BY <1>1
<1>3. PICK u \in Bad : \A y \in SUBSET u : y # u => y \notin Bad
  <2> HIDE DEF Bad
  <2> QED BY <1>2, MinimalSet
<1>4. PICK x \in u : SumFunctionOnSet(f, u) # f[x] + SumFunctionOnSet(f, u \ {x})
  BY <1>3
<1> DEFINE c == AnyOf(u)
<1>5. c \in u
  BY AnyOfIn
<1>6. IsFiniteSet(u) /\ IsFiniteSet(u \ {x}) /\ IsFiniteSet(u \ {c}) /\ IsFiniteSet((u \ {c}) \ {x})
  BY FS_Subset
<1>7. SumFunctionOnSet(f, u) = f[c] + SumFunctionOnSet(f, u \ {c})
  BY <1>5, <1>6, SumHead
<1>8. x # c
  BY <1>4, <1>7
<1>9. SumFunctionOnSet(f, u \ {c}) = f[x] + SumFunctionOnSet(f, (u \ {c}) \ {x})
  BY <1>3, <1>5, <1>8
<1>10. SumFunctionOnSet(f, u \ {x}) = f[c] + SumFunctionOnSet(f, (u \ {x}) \ {c})
  BY <1>3, <1>5, <1>8
<1>11. (u \ {x}) \ {c} = (u \ {c}) \ {x}
  OBVIOUS
<1>12. SumFunctionOnSet(f, (u \ {c}) \ {x}) \in Int /\ f[x] \in Int /\ f[c] \in Int
  BY <1>5, <1>6, SumType
<1>13. SumFunctionOnSet(f, u \ {x}) = f[c] + SumFunctionOnSet(f, (u \ {c}) \ {x})
  BY <1>10, <1>11
<1> HIDE DEF Bad
<1> QED BY <1>4, <1>7, <1>9, <1>12, <1>13

\* A sum with one summand changed.
THEOREM SumUpdate ==
  ASSUME NEW f, NEW e, NEW S, IsFiniteSet(S), NEW x \in S,
         \A y \in S : f[y] \in Int /\ e[y] \in Int, \A y \in S \ {x} : f[y] = e[y]
  PROVE  SumFunctionOnSet(e, S) = SumFunctionOnSet(f, S) + e[x] - f[x]
<1>1. IsFiniteSet(S \ {x})
  BY FS_Subset
<1>2. SumFunctionOnSet(e, S \ {x}) = SumFunctionOnSet(f, S \ {x})
  BY <1>1, SumAgree
<1>3. SumFunctionOnSet(f, S \ {x}) \in Int
  BY <1>1, SumType
<1>4. SumFunctionOnSet(f, S) = f[x] + SumFunctionOnSet(f, S \ {x})
  BY SumElement
<1>5. SumFunctionOnSet(e, S) = e[x] + SumFunctionOnSet(e, S \ {x})
  BY SumElement
<1> QED BY <1>2, <1>3, <1>4, <1>5

\* The same for naturals, whose sums stay naturals.
THEOREM SumStep ==
  ASSUME NEW S, IsFiniteSet(S), NEW x \in S, NEW f, NEW e,
         \A y \in S : f[y] \in Nat /\ e[y] \in Nat, \A y \in S \ {x} : f[y] = e[y]
  PROVE  /\ SumFunctionOnSet(f, S) \in Nat /\ SumFunctionOnSet(e, S) \in Nat
         /\ SumFunctionOnSet(e, S) = SumFunctionOnSet(f, S) + e[x] - f[x]
<1>1. \A y \in S : f[y] \in Int /\ e[y] \in Int
  OBVIOUS
<1>2. SumFunctionOnSet(f, S) \in Nat /\ SumFunctionOnSet(e, S) \in Nat
  BY SumNat
<1> QED BY <1>1, <1>2, SumUpdate

\* A sum over a set with one element more.
THEOREM SumAdd ==
  ASSUME NEW f, NEW S, IsFiniteSet(S), NEW x, x \notin S, \A y \in S \cup {x} : f[y] \in Int
  PROVE  SumFunctionOnSet(f, S \cup {x}) = SumFunctionOnSet(f, S) + f[x]
<1>1. IsFiniteSet(S \cup {x})
  BY FS_AddElement
<1>2. (S \cup {x}) \ {x} = S
  OBVIOUS
<1>3. SumFunctionOnSet(f, S) \in Int
  BY SumType
<1> QED BY <1>1, <1>2, <1>3, SumElement
-----------------------------------------------------------------------------
(* The least of some naturals.                                             *)

\* The minimum is one of them, and none is below it.
THEOREM MinOfNat ==
  ASSUME NEW S, S \subseteq Nat, S # {}
  PROVE  Min(S) \in S /\ \A y \in S : Min(S) <= y
<1> DEFINE Below == OpToRel(<, Nat)
<1>1. PICK x \in S : \A y \in S : <<y, x>> \notin Below
  <2>1. IsWellFoundedOn(Below, Nat)
    BY NatLessThanWellFounded
  <2> HIDE DEF Below
  <2> QED BY <2>1, WFMin
<1>2. \A y \in S : x <= y
  <2> SUFFICES ASSUME NEW y \in S, ~(x <= y) PROVE FALSE
    OBVIOUS
  <2>1. y < x /\ <<y, x>> \in Nat \X Nat
    OBVIOUS
  <2>2. <<y, x>> \in Below
    BY <2>1 DEF OpToRel
  <2> QED BY <1>1, <2>2
<1> QED BY <1>2 DEF Min
=============================================================================
