----------------------------- MODULE FiniteSums -----------------------------
(***************************************************************************)
(* Sums over finite sets, SumFunctionOnSet of the community module         *)
(* Functions: what the byte budget of the UDP relay and the lifetime       *)
(* totals of the registry are counted with.                                *)
(***************************************************************************)
EXTENDS Functions, FiniteSetTheorems, TLAPS

-----------------------------------------------------------------------------
(* Induction over the subsets of a finite set, and the recursive definition *)

\* What holds of a set once it holds of all smaller ones holds of every subset
\* of a finite set.  The claim is a set of sets, not an operator.
LEMMA SubsetInduction ==
  ASSUME NEW S, IsFiniteSet(S), NEW Claim,
         \A T \in SUBSET S :
           (\A U \in SUBSET T : U # T => U \in Claim) => T \in Claim
  PROVE  \A T \in SUBSET S : T \in Claim
<1> DEFINE Bad == (SUBSET S) \ Claim
<1> SUFFICES ASSUME Bad # {} PROVE FALSE
  OBVIOUS
<1>1. IsWellFoundedOn(StrictSubsetOrdering(S), SUBSET S)
  <2> HIDE DEF Bad
  <2>1. FiniteSubsetsOf(S) = SUBSET S
    BY FS_FiniteSubsetsOfFinite
  <2>2. IsWellFoundedOn(StrictSubsetOrdering(S), FiniteSubsetsOf(S))
    BY FS_StrictSubsetOrderingWellFounded
  <2> QED
    BY <2>1, <2>2, Zenon
<1>2. PICK T \in Bad : \A U \in Bad : ~ (<<U, T>> \in StrictSubsetOrdering(S))
  <2> HIDE DEF Bad
  <2>1. Bad \subseteq SUBSET S
    BY DEF Bad
  <2> QED
    BY <1>1, <2>1, WFMin
<1>3. \A U \in SUBSET T : U # T => U \in Claim
  BY <1>2 DEF StrictSubsetOrdering
<1> QED
  BY <1>3

\* The element that the recursion takes out first, and what it computes.
First(s) == CHOOSE x \in s : TRUE
Rest(s) == s \ {First(s)}
Unfold(g, f, s) == IF s = {} THEN 0 ELSE f[First(s)] + g[Rest(s)]
IsFold(g, f, T) == g = [s \in SUBSET T |-> Unfold(g, f, s)]

LEMMA SumOfFold ==
  ASSUME NEW f, NEW T
  PROVE  SumFunctionOnSet(f, T) = (CHOOSE g : IsFold(g, f, T))[T]
BY DEF SumFunctionOnSet, FoldFunctionOnSet, MapThenFoldSet, IsFold, Unfold,
       First, Rest

LEMMA RestIsSmaller ==
  ASSUME NEW s, s # {}
  PROVE  First(s) \in s /\ Rest(s) \in SUBSET s /\ Rest(s) # s
BY DEF First, Rest

\* A solution of the recursive equation restricts to one on a smaller set.
LEMMA FoldRestricts ==
  ASSUME NEW f, NEW T, NEW g, IsFold(g, f, T), NEW U \in SUBSET T
  PROVE  IsFold([s \in SUBSET U |-> g[s]], f, U)
<1> DEFINE h == [s \in SUBSET U |-> g[s]]
<1>1. ASSUME NEW s \in SUBSET U PROVE h[s] = Unfold(h, f, s)
  <2>1. h[s] = g[s] /\ g[s] = Unfold(g, f, s)
    BY DEF IsFold
  <2>2. s # {} => Rest(s) \in SUBSET U
    BY RestIsSmaller
  <2>3. s # {} => h[Rest(s)] = g[Rest(s)]
    BY <2>2
  <2> QED
    BY <2>1, <2>3 DEF Unfold
<1>2. h = [s \in SUBSET U |-> h[s]]
  OBVIOUS
<1> HIDE DEF h
<1>3. h = [s \in SUBSET U |-> Unfold(h, f, s)]
  BY <1>1, <1>2
<1> QED
  BY <1>3 DEF IsFold, h

\* The equation has a solution on a finite set, and every solution is the sum.
LEMMA FoldsAreSums ==
  ASSUME NEW f, NEW S, IsFiniteSet(S)
  PROVE  \A T \in SUBSET S :
           /\ \E g : IsFold(g, f, T)
           /\ \A g : IsFold(g, f, T) => g[T] = SumFunctionOnSet(f, T)
<1> DEFINE Holds(T) ==
             /\ \E g : IsFold(g, f, T)
             /\ \A g : IsFold(g, f, T) => g[T] = SumFunctionOnSet(f, T)
           Claim == {T \in SUBSET S : Holds(T)}
<1>1. ASSUME NEW T \in SUBSET S,
             \A U \in SUBSET T : U # T => U \in Claim
      PROVE  Holds(T)
  <2>1. ASSUME NEW g, IsFold(g, f, T), NEW U \in SUBSET T, U # T
        PROVE  g[U] = SumFunctionOnSet(f, U)
    <3> DEFINE h == [s \in SUBSET U |-> g[s]]
    <3>1. IsFold(h, f, U)
      BY <2>1, FoldRestricts
    <3>2. h[U] = g[U]
      OBVIOUS
    <3>3. Holds(U)
      BY <1>1, <2>1
    <3> HIDE DEF h
    <3> QED
      BY <3>1, <3>2, <3>3
  <2>2. ASSUME NEW g, IsFold(g, f, T)
        PROVE  g[T] = IF T = {} THEN 0
                      ELSE f[First(T)] + SumFunctionOnSet(f, Rest(T))
    <3>1. g[T] = Unfold(g, f, T)
      BY <2>2 DEF IsFold
    <3>2. T # {} => g[Rest(T)] = SumFunctionOnSet(f, Rest(T))
      BY <2>1, <2>2, RestIsSmaller
    <3> QED
      BY <3>1, <3>2 DEF Unfold
  <2>3. \E g : IsFold(g, f, T)
    <3> DEFINE sum(s) == SumFunctionOnSet(f, s)
               last == IF T = {} THEN 0 ELSE f[First(T)] + sum(Rest(T))
               g == [s \in SUBSET T |-> IF s = T THEN last ELSE sum(s)]
    <3>1. ASSUME NEW s \in SUBSET T PROVE g[s] = Unfold(g, f, s)
      <4>1. CASE s = T
        <5>1. T # {} => g[Rest(T)] = sum(Rest(T))
          BY RestIsSmaller
        <5> QED
          BY <4>1, <5>1 DEF Unfold
      <4>2. CASE s # T
        <5>1. Holds(s)
          BY <1>1, <4>2
        <5>2. PICK h : IsFold(h, f, s)
          BY <5>1
        <5>3. h[s] = sum(s) /\ h[s] = Unfold(h, f, s)
          BY <5>1, <5>2 DEF IsFold
        <5>4. ASSUME s # {} PROVE h[Rest(s)] = g[Rest(s)]
          <6>1. Rest(s) \in SUBSET s /\ Rest(s) # s /\ Rest(s) # T
            BY <5>4, RestIsSmaller
          <6>2. Holds(Rest(s))
            BY <1>1, <6>1
          <6>3. IsFold([u \in SUBSET Rest(s) |-> h[u]], f, Rest(s))
            BY <5>2, <6>1, FoldRestricts
          <6>4. [u \in SUBSET Rest(s) |-> h[u]][Rest(s)] = h[Rest(s)]
            OBVIOUS
          <6>5. h[Rest(s)] = sum(Rest(s))
            BY <6>2, <6>3, <6>4
          <6> QED
            BY <6>1, <6>5
        <5>5. g[s] = sum(s)
          BY <4>2
        <5> QED
          BY <5>3, <5>4, <5>5 DEF Unfold
      <4> QED
        BY <4>1, <4>2
    <3>2. g = [s \in SUBSET T |-> g[s]]
      OBVIOUS
    <3> HIDE DEF g
    <3>3. g = [s \in SUBSET T |-> Unfold(g, f, s)]
      BY <3>1, <3>2
    <3> QED
      BY <3>3 DEF IsFold
  <2>4. IsFold(CHOOSE g : IsFold(g, f, T), f, T)
    BY <2>3
  <2> QED
    BY <2>2, <2>3, <2>4, SumOfFold
<1>2. \A T \in SUBSET S : T \in Claim
  <2> HIDE DEF Holds
  <2>1. \A T \in SUBSET S :
          (\A U \in SUBSET T : U # T => U \in Claim) => T \in Claim
    BY <1>1
  <2> HIDE DEF Claim
  <2> QED
    BY <2>1, SubsetInduction
<1> QED
  BY <1>2

-----------------------------------------------------------------------------
(* What a sum is                                                             *)

LEMMA SumEmpty ==
  ASSUME NEW f
  PROVE  SumFunctionOnSet(f, {}) = 0
<1>1. PICK g : IsFold(g, f, {})
  BY FoldsAreSums, FS_EmptySet
<1>2. g[{}] = SumFunctionOnSet(f, {})
  BY <1>1, FoldsAreSums, FS_EmptySet
<1> QED
  BY <1>1, <1>2 DEF IsFold, Unfold

LEMMA SumUnfolds ==
  ASSUME NEW f, NEW S, IsFiniteSet(S), S # {}
  PROVE  SumFunctionOnSet(f, S) = f[First(S)] + SumFunctionOnSet(f, Rest(S))
<1>1. PICK g : IsFold(g, f, S)
  BY FoldsAreSums
<1>2. g[S] = SumFunctionOnSet(f, S)
  BY <1>1, FoldsAreSums
<1>3. Rest(S) \in SUBSET S /\ IsFiniteSet(Rest(S))
  BY RestIsSmaller, FS_Subset
<1> DEFINE h == [s \in SUBSET Rest(S) |-> g[s]]
<1>4. IsFold(h, f, Rest(S)) /\ h[Rest(S)] = g[Rest(S)]
  BY <1>1, <1>3, FoldRestricts
<1> HIDE DEF h
<1>5. h[Rest(S)] = SumFunctionOnSet(f, Rest(S))
  BY <1>3, <1>4, FoldsAreSums
<1>6. g[S] = f[First(S)] + g[Rest(S)]
  BY <1>1 DEF IsFold, Unfold
<1> QED
  BY <1>2, <1>4, <1>5, <1>6

\* The sum of numbers is a number; nothing negative makes nothing negative.
LEMMA SumType ==
  ASSUME NEW S, IsFiniteSet(S), NEW f, \A x \in S : f[x] \in Int
  PROVE  /\ SumFunctionOnSet(f, S) \in Int
         /\ (\A x \in S : f[x] >= 0) => SumFunctionOnSet(f, S) >= 0
<1> DEFINE Claim == {T \in SUBSET S :
             /\ SumFunctionOnSet(f, T) \in Int
             /\ (\A x \in T : f[x] >= 0) => SumFunctionOnSet(f, T) >= 0}
<1>1. ASSUME NEW T \in SUBSET S,
             \A U \in SUBSET T : U # T => U \in Claim
      PROVE  T \in Claim
  <2>1. CASE T = {}
    BY <2>1, SumEmpty
  <2>2. CASE T # {}
    <3>1. First(T) \in T /\ Rest(T) \in SUBSET T /\ Rest(T) \in Claim
      BY <1>1, <2>2, RestIsSmaller
    <3>2. SumFunctionOnSet(f, T) = f[First(T)] + SumFunctionOnSet(f, Rest(T))
      BY <2>2, SumUnfolds, FS_Subset
    <3> QED
      BY <3>1, <3>2
  <2> QED
    BY <2>1, <2>2
<1>2. \A T \in SUBSET S : T \in Claim
  <2> HIDE DEF Claim
  <2> QED
    BY <1>1, SubsetInduction
<1> QED
  BY <1>2

\* A sum depends on the values of the set's elements only.
LEMMA SumAgrees ==
  ASSUME NEW S, IsFiniteSet(S), NEW f, NEW g, \A x \in S : f[x] = g[x]
  PROVE  SumFunctionOnSet(f, S) = SumFunctionOnSet(g, S)
<1> DEFINE Claim == {T \in SUBSET S :
             SumFunctionOnSet(f, T) = SumFunctionOnSet(g, T)}
<1>1. ASSUME NEW T \in SUBSET S,
             \A U \in SUBSET T : U # T => U \in Claim
      PROVE  T \in Claim
  <2>1. CASE T = {}
    BY <2>1, SumEmpty
  <2>2. CASE T # {}
    <3>1. First(T) \in T /\ Rest(T) \in Claim
      BY <1>1, <2>2, RestIsSmaller
    <3>2. /\ SumFunctionOnSet(f, T) = f[First(T)] + SumFunctionOnSet(f, Rest(T))
          /\ SumFunctionOnSet(g, T) = g[First(T)] + SumFunctionOnSet(g, Rest(T))
      BY <2>2, SumUnfolds, FS_Subset
    <3> QED
      BY <3>1, <3>2
  <2> QED
    BY <2>1, <2>2
<1>2. \A T \in SUBSET S : T \in Claim
  <2> HIDE DEF Claim
  <2> QED
    BY <1>1, SubsetInduction
<1> QED
  BY <1>2

\* Any element may be taken out first.
LEMMA SumRemoves ==
  ASSUME NEW S, IsFiniteSet(S), NEW f, \A x \in S : f[x] \in Int, NEW x \in S
  PROVE  SumFunctionOnSet(f, S) = f[x] + SumFunctionOnSet(f, S \ {x})
<1> DEFINE Claim == {T \in SUBSET S : \A y \in T :
             SumFunctionOnSet(f, T) = f[y] + SumFunctionOnSet(f, T \ {y})}
<1>1. ASSUME NEW T \in SUBSET S,
             \A U \in SUBSET T : U # T => U \in Claim,
             NEW y \in T
      PROVE  SumFunctionOnSet(f, T) = f[y] + SumFunctionOnSet(f, T \ {y})
  <2>1. /\ First(T) \in T /\ Rest(T) \in SUBSET T /\ Rest(T) \in Claim
        /\ SumFunctionOnSet(f, T) = f[First(T)] + SumFunctionOnSet(f, Rest(T))
    BY <1>1, RestIsSmaller, SumUnfolds, FS_Subset
  <2>2. CASE y = First(T)
    BY <2>1, <2>2 DEF Rest
  <2>3. CASE y # First(T)
    <3>1. /\ T \ {y} \in Claim /\ First(T) \in T \ {y} /\ y \in Rest(T)
          /\ Rest(T) \ {y} = (T \ {y}) \ {First(T)}
      BY <1>1, <2>1, <2>3 DEF Rest
    <3> DEFINE both == SumFunctionOnSet(f, Rest(T) \ {y})
    <3>2. both \in Int
      BY SumType, FS_Subset DEF Rest
    <3>3. SumFunctionOnSet(f, Rest(T)) = f[y] + both
      BY <2>1, <3>1
    <3>4. SumFunctionOnSet(f, T \ {y}) = f[First(T)] + both
      BY <3>1
    <3> QED
      BY <2>1, <3>2, <3>3, <3>4
  <2> QED
    BY <2>2, <2>3
<1>2. \A T \in SUBSET S : T \in Claim
  <2>1. \A T \in SUBSET S :
          (\A U \in SUBSET T : U # T => U \in Claim) => T \in Claim
    BY <1>1
  <2> HIDE DEF Claim
  <2> QED
    BY <2>1, SubsetInduction
<1> QED
  BY <1>2

\* Zeros add up to zero.
LEMMA SumOfZeros ==
  ASSUME NEW S, IsFiniteSet(S), NEW f, \A x \in S : f[x] = 0
  PROVE  SumFunctionOnSet(f, S) = 0
<1> DEFINE Claim == {T \in SUBSET S : SumFunctionOnSet(f, T) = 0}
<1>1. ASSUME NEW T \in SUBSET S,
             \A U \in SUBSET T : U # T => U \in Claim
      PROVE  T \in Claim
  <2>1. CASE T = {}
    BY <2>1, SumEmpty
  <2>2. CASE T # {}
    <3>1. First(T) \in T /\ Rest(T) \in Claim
      BY <1>1, <2>2, RestIsSmaller
    <3>2. SumFunctionOnSet(f, T) = f[First(T)] + SumFunctionOnSet(f, Rest(T))
      BY <2>2, SumUnfolds, FS_Subset
    <3> QED
      BY <3>1, <3>2
  <2> QED
    BY <2>1, <2>2
<1>2. \A T \in SUBSET S : T \in Claim
  <2> HIDE DEF Claim
  <2> QED
    BY <1>1, SubsetInduction
<1> QED
  BY <1>2

\* A change of one element moves the sum by what the element changes.
LEMMA SumUpdates ==
  ASSUME NEW S, IsFiniteSet(S), NEW f, NEW g, NEW x \in S,
         \A y \in S : f[y] \in Int /\ g[y] \in Int,
         \A y \in S : y # x => g[y] = f[y]
  PROVE  SumFunctionOnSet(g, S) = SumFunctionOnSet(f, S) - f[x] + g[x]
<1> DEFINE rest == SumFunctionOnSet(f, S \ {x})
<1>1. rest \in Int /\ IsFiniteSet(S \ {x})
  BY SumType, FS_Subset
<1>2. SumFunctionOnSet(g, S \ {x}) = rest
  BY <1>1, SumAgrees
<1>3. /\ SumFunctionOnSet(f, S) = f[x] + rest
      /\ SumFunctionOnSet(g, S) = g[x] + rest
  BY <1>2, SumRemoves
<1> HIDE DEF rest
<1> QED
  BY <1>1, <1>3
=============================================================================
