----------------------------- MODULE SumTheorems -----------------------------
(***************************************************************************)
(* What SumFunctionOnSet of the module Functions is, for integers: the     *)
(* facts about sums that the proofs about amounts of money rest on.  It is *)
(* defined by recursion over the subsets of a finite set, each of which    *)
(* gives up the element that CHOOSE picks.                                 *)
(***************************************************************************)
EXTENDS Integers, FiniteSets, Functions, FiniteSetTheorems, WellFoundedInduction, TLAPS

-----------------------------------------------------------------------------
(* Induction over the subsets of a finite set, for a property given as the *)
(* set D of those that have it.                                            *)

LEMMA FiniteInduction ==
  ASSUME NEW S, IsFiniteSet(S), NEW D,
         \A T \in SUBSET S : (\A x \in T : T \ {x} \in D) => T \in D
  PROVE  \A T \in SUBSET S : T \in D
<1>1. SUFFICES ASSUME (SUBSET S) \ D # {} PROVE FALSE
  OBVIOUS
<1> DEFINE B == (SUBSET S) \ D
           R == StrictSubsetOrdering(S)
<1>2. IsWellFoundedOn(R, SUBSET S)
  BY FS_StrictSubsetOrderingWellFounded, FS_FiniteSubsetsOfFinite
<1>3. \E T \in B : \A U \in B : ~ (<<U, T>> \in R)
  <2> HIDE DEF R
  <2>1. B \subseteq SUBSET S /\ B # {}
    BY <1>1
  <2> HIDE DEF B
  <2> QED
    BY <1>2, <2>1, WFMin
<1>4. PICK T \in B : \A U \in B : ~ (<<U, T>> \in R)
  BY <1>3
<1>5. ASSUME NEW x \in T PROVE T \ {x} \in D
  <2>1. T \ {x} \in SUBSET S /\ T \in SUBSET S /\ T \ {x} \subseteq T /\ T \ {x} # T
    BY <1>4
  <2>2. <<T \ {x}, T>> \in R
    BY <2>1 DEF StrictSubsetOrdering
  <2> QED
    BY <1>4, <2>1, <2>2
<1> QED
  BY <1>4, <1>5

-----------------------------------------------------------------------------
(* The recursion. *)

\* The element that is taken from s.
Taken(s) == CHOOSE x \in s : TRUE

LEMMA TakenIsIn ==
  ASSUME NEW s, s # {}
  PROVE  Taken(s) \in s
BY DEF Taken

\* it gives the sum of f over every subset of S.
Sums(it, f, S) ==
  it = [s \in SUBSET S |-> IF s = {} THEN 0 ELSE f[Taken(s)] + it[s \ {Taken(s)}]]

LEMMA SumIsChosen ==
  ASSUME NEW f, NEW S
  PROVE  SumFunctionOnSet(f, S) = (CHOOSE it : Sums(it, f, S))[S]
BY DEF SumFunctionOnSet, FoldFunctionOnSet, MapThenFoldSet, Sums, Taken

\* Two such functions agree where they are both defined and add up the same.
LEMMA SumsAgree ==
  ASSUME NEW A, NEW B, NEW f, NEW g, NEW it, NEW ju,
         IsFiniteSet(A), Sums(it, f, A), Sums(ju, g, B),
         \A x \in A \cap B : f[x] = g[x]
  PROVE  \A s \in SUBSET (A \cap B) : it[s] = ju[s]
<1> DEFINE D == {s \in SUBSET (A \cap B) : it[s] = ju[s]}
<1>1. IsFiniteSet(A \cap B)
  BY FS_Intersection
<1>2. ASSUME NEW s \in SUBSET (A \cap B), \A x \in s : s \ {x} \in D
      PROVE  s \in D
  <2>1. s \in SUBSET A /\ s \in SUBSET B
    OBVIOUS
  <2>2. CASE s = {}
    BY <2>1, <2>2 DEF Sums
  <2>3. CASE s # {}
    <3>1. Taken(s) \in s
      BY <2>3, TakenIsIn
    <3>2. it[s \ {Taken(s)}] = ju[s \ {Taken(s)}]
      BY <1>2, <3>1
    <3>3. it[s] = f[Taken(s)] + it[s \ {Taken(s)}] /\ ju[s] = g[Taken(s)] + ju[s \ {Taken(s)}]
      BY <2>1, <2>3 DEF Sums
    <3>4. f[Taken(s)] = g[Taken(s)]
      BY <3>1
    <3> QED
      BY <3>2, <3>3, <3>4
  <2> QED
    BY <2>2, <2>3
<1>3. \A s \in SUBSET (A \cap B) : s \in D
  <2> HIDE DEF D
  <2> QED
    BY <1>1, <1>2, FiniteInduction
<1> QED
  BY <1>3

\* There is such a function for every finite set.
LEMMA SumsExist ==
  ASSUME NEW S, IsFiniteSet(S), NEW f
  PROVE  \E it : Sums(it, f, S)
<1> DEFINE D == {T \in SUBSET S : \E it : Sums(it, f, T)}
           It(T) == CHOOSE it : Sums(it, f, T)
<1>1. ASSUME NEW T \in D PROVE Sums(It(T), f, T)
  <2>1. \E it : Sums(it, f, T)
    OBVIOUS
  <2> QED
    BY <2>1
<1>2. ASSUME NEW T \in SUBSET S, \A x \in T : T \ {x} \in D
      PROVE  T \in D
  <2> DEFINE W(s) == T \ {Taken(s)}
             ju == [s \in SUBSET T |->
                      IF s = {} THEN 0 ELSE f[Taken(s)] + It(W(s))[s \ {Taken(s)}]]
  <2>1. ASSUME NEW s \in SUBSET T, s # {}
        PROVE  /\ Taken(s) \in s /\ W(s) \in D
               /\ IsFiniteSet(W(s)) /\ Sums(It(W(s)), f, W(s))
    <3>1. Taken(s) \in s
      BY <2>1, TakenIsIn
    <3>2. W(s) \in D /\ W(s) \in SUBSET S
      BY <1>2, <3>1
    <3>3. IsFiniteSet(W(s))
      BY <3>2, FS_Subset
    <3>4. Sums(It(W(s)), f, W(s))
      BY <1>1, <3>2
    <3> QED
      BY <3>1, <3>2, <3>3, <3>4
  <2>2. ASSUME NEW s \in SUBSET T, s # {}
        PROVE  ju[s \ {Taken(s)}] = It(W(s))[s \ {Taken(s)}]
    <3> DEFINE r == s \ {Taken(s)}
    <3>1. Taken(s) \in s /\ r \in SUBSET T /\ r \in SUBSET W(s)
      BY <2>1, <2>2
    <3>2. Sums(It(W(s)), f, W(s))
      BY <2>1, <2>2
    <3>3. CASE r = {}
      <4>1. It(W(s))[r] = 0
        <5> HIDE DEF It, W, r
        <5> QED
          BY <3>1, <3>2, <3>3 DEF Sums
      <4>2. ju[r] = 0
        <5> HIDE DEF It, W, r
        <5> QED
          BY <3>1, <3>3
      <4> QED
        BY <4>1, <4>2
    <3>4. CASE r # {}
      <4>1. /\ Taken(r) \in r /\ IsFiniteSet(W(r)) /\ Sums(It(W(r)), f, W(r))
        BY <2>1, <3>1, <3>4
      <4>2. It(W(s))[r] = f[Taken(r)] + It(W(s))[r \ {Taken(r)}]
        <5> HIDE DEF It, W, r
        <5> QED
          BY <3>1, <3>2, <3>4 DEF Sums
      <4>3. r \ {Taken(r)} \in SUBSET (W(r) \cap W(s))
        BY <3>1, <4>1
      <4>4. It(W(r))[r \ {Taken(r)}] = It(W(s))[r \ {Taken(r)}]
        <5> HIDE DEF It, W, r
        <5> QED
          BY <3>2, <4>1, <4>3, SumsAgree
      <4>5. ju[r] = f[Taken(r)] + It(W(r))[r \ {Taken(r)}]
        <5> HIDE DEF It, W, r
        <5> QED
          BY <3>1, <3>4
      <4> QED
        BY <4>2, <4>4, <4>5
    <3> QED
      BY <3>3, <3>4
  <2>3. Sums(ju, f, T)
    <3>1. ju = [s \in SUBSET T |->
                  IF s = {} THEN 0 ELSE f[Taken(s)] + ju[s \ {Taken(s)}]]
      <4> DEFINE rhs == [s \in SUBSET T |->
                           IF s = {} THEN 0 ELSE f[Taken(s)] + ju[s \ {Taken(s)}]]
      <4>1. ASSUME NEW s \in SUBSET T PROVE ju[s] = rhs[s]
        <5>1. CASE s = {}
          BY <5>1
        <5>2. CASE s # {}
          <6>1. ju[s] = f[Taken(s)] + It(W(s))[s \ {Taken(s)}]
            BY <5>2
          <6>2. rhs[s] = f[Taken(s)] + ju[s \ {Taken(s)}]
            BY <5>2
          <6> QED
            BY <2>2, <5>2, <6>1, <6>2
        <5> QED
          BY <5>1, <5>2
      <4> QED
        BY <4>1
    <3> QED
      BY <3>1 DEF Sums
  <2> QED
    BY <2>3
<1>3. \A T \in SUBSET S : T \in D
  <2> HIDE DEF D
  <2> QED
    BY <1>2, FiniteInduction
<1> QED
  BY <1>3

-----------------------------------------------------------------------------
(* The sum of f over S, SumFunctionOnSet(f, S). *)

\* The sums over the subsets of S are the values of one function.
LEMMA SumsOfSubsets ==
  ASSUME NEW S, IsFiniteSet(S), NEW f
  PROVE  \E it : Sums(it, f, S) /\ \A T \in SUBSET S : SumFunctionOnSet(f, T) = it[T]
<1>1. PICK it : Sums(it, f, S)
  BY SumsExist
<1>2. ASSUME NEW T \in SUBSET S PROVE SumFunctionOnSet(f, T) = it[T]
  <2> DEFINE ju == CHOOSE ju : Sums(ju, f, T)
  <2>1. IsFiniteSet(T)
    BY FS_Subset
  <2>2. Sums(ju, f, T)
    BY <2>1, SumsExist
  <2>3. SumFunctionOnSet(f, T) = ju[T]
    BY SumIsChosen
  <2>4. ju[T] = it[T]
    <3> HIDE DEF ju
    <3>1. T \in SUBSET (T \cap S)
      OBVIOUS
    <3> QED
      BY <1>1, <2>1, <2>2, <3>1, SumsAgree
  <2> QED
    BY <2>3, <2>4
<1> QED
  BY <1>1, <1>2

LEMMA SumOfNone ==
  ASSUME NEW f
  PROVE  SumFunctionOnSet(f, {}) = 0
<1>1. IsFiniteSet({})
  BY FS_EmptySet
<1>2. PICK it : Sums(it, f, {}) /\ \A T \in SUBSET {} : SumFunctionOnSet(f, T) = it[T]
  BY <1>1, SumsOfSubsets
<1>3. {} \in SUBSET {}
  OBVIOUS
<1> QED
  BY <1>2, <1>3 DEF Sums

\* One step of the recursion.
LEMMA SumByTaken ==
  ASSUME NEW S, IsFiniteSet(S), S # {}, NEW f
  PROVE  /\ Taken(S) \in S
         /\ SumFunctionOnSet(f, S) = f[Taken(S)] + SumFunctionOnSet(f, S \ {Taken(S)})
<1>1. PICK it : Sums(it, f, S) /\ \A T \in SUBSET S : SumFunctionOnSet(f, T) = it[T]
  BY SumsOfSubsets
<1>2. it[S] = f[Taken(S)] + it[S \ {Taken(S)}]
  BY <1>1 DEF Sums
<1>3. S \in SUBSET S /\ S \ {Taken(S)} \in SUBSET S
  OBVIOUS
<1> QED
  BY <1>1, <1>2, <1>3, TakenIsIn

LEMMA SumIsInt ==
  ASSUME NEW S, IsFiniteSet(S), NEW f, \A x \in S : f[x] \in Int
  PROVE  SumFunctionOnSet(f, S) \in Int
<1> DEFINE D == {T \in SUBSET S : SumFunctionOnSet(f, T) \in Int}
<1>1. ASSUME NEW T \in SUBSET S, \A x \in T : T \ {x} \in D
      PROVE  T \in D
  <2>1. CASE T = {}
    BY <2>1, SumOfNone
  <2>2. CASE T # {}
    <3>1. IsFiniteSet(T)
      BY FS_Subset
    <3>2. /\ Taken(T) \in T
          /\ SumFunctionOnSet(f, T) = f[Taken(T)] + SumFunctionOnSet(f, T \ {Taken(T)})
      BY <2>2, <3>1, SumByTaken
    <3> QED
      BY <1>1, <3>2
  <2> QED
    BY <2>1, <2>2
<1>2. \A T \in SUBSET S : T \in D
  <2> HIDE DEF D
  <2> QED
    BY <1>1, FiniteInduction
<1> QED
  BY <1>2

LEMMA SumIsNat ==
  ASSUME NEW S, IsFiniteSet(S), NEW f, \A x \in S : f[x] \in Nat
  PROVE  SumFunctionOnSet(f, S) \in Nat
<1> DEFINE D == {T \in SUBSET S : SumFunctionOnSet(f, T) \in Nat}
<1>1. ASSUME NEW T \in SUBSET S, \A x \in T : T \ {x} \in D
      PROVE  T \in D
  <2>1. CASE T = {}
    BY <2>1, SumOfNone
  <2>2. CASE T # {}
    <3>1. IsFiniteSet(T)
      BY FS_Subset
    <3>2. /\ Taken(T) \in T
          /\ SumFunctionOnSet(f, T) = f[Taken(T)] + SumFunctionOnSet(f, T \ {Taken(T)})
      BY <2>2, <3>1, SumByTaken
    <3> QED
      BY <1>1, <3>2
  <2> QED
    BY <2>1, <2>2
<1>2. \A T \in SUBSET S : T \in D
  <2> HIDE DEF D
  <2> QED
    BY <1>1, FiniteInduction
<1> QED
  BY <1>2

\* Any element may be taken first.
LEMMA SumRemove ==
  ASSUME NEW S, IsFiniteSet(S), NEW f, \A x \in S : f[x] \in Int, NEW a \in S
  PROVE  SumFunctionOnSet(f, S) = f[a] + SumFunctionOnSet(f, S \ {a})
<1> DEFINE Total(T) == SumFunctionOnSet(f, T)
           D == {T \in SUBSET S : \A x \in T : Total(T) = f[x] + Total(T \ {x})}
<1>0. \A T \in SUBSET S : IsFiniteSet(T) /\ Total(T) \in Int
  BY FS_Subset, SumIsInt
<1>1. ASSUME NEW T \in SUBSET S, \A x \in T : T \ {x} \in D
      PROVE  T \in D
  <2>1. SUFFICES ASSUME NEW x \in T PROVE Total(T) = f[x] + Total(T \ {x})
    OBVIOUS
  <2> DEFINE y == Taken(T)
  <2>2. y \in T /\ Total(T) = f[y] + Total(T \ {y})
    BY <1>0, SumByTaken
  <2> HIDE DEF y
  <2>3. CASE x = y
    BY <2>2, <2>3
  <2>4. CASE x # y
    <3>1. Total(T \ {y}) = f[x] + Total((T \ {y}) \ {x})
      BY <1>1, <2>2, <2>4
    <3>2. Total(T \ {x}) = f[y] + Total((T \ {x}) \ {y})
      BY <1>1, <2>2, <2>4
    <3>3. (T \ {y}) \ {x} = (T \ {x}) \ {y}
      OBVIOUS
    <3> DEFINE rest == Total((T \ {y}) \ {x})
    <3>4. rest \in Int /\ f[x] \in Int /\ f[y] \in Int
      BY <1>0, <2>2
    <3>5. Total(T \ {y}) = f[x] + rest /\ Total(T \ {x}) = f[y] + rest
      BY <3>1, <3>2, <3>3
    <3> HIDE DEF Total, rest
    <3>6. f[y] + (f[x] + rest) = f[x] + (f[y] + rest)
      BY <3>4
    <3> QED
      BY <2>2, <3>5, <3>6
  <2> QED
    BY <2>3, <2>4
<1>2. \A T \in SUBSET S : T \in D
  <2> HIDE DEF D
  <2> QED
    BY <1>1, FiniteInduction
<1> QED
  BY <1>2

LEMMA SumAdd ==
  ASSUME NEW S, IsFiniteSet(S), NEW f, NEW a, a \notin S,
         \A x \in S \cup {a} : f[x] \in Int
  PROVE  SumFunctionOnSet(f, S \cup {a}) = f[a] + SumFunctionOnSet(f, S)
<1>1. IsFiniteSet(S \cup {a}) /\ (S \cup {a}) \ {a} = S
  BY FS_AddElement
<1> QED
  BY <1>1, SumRemove

\* Only the values on S matter.
LEMMA SumSame ==
  ASSUME NEW S, IsFiniteSet(S), NEW f, NEW g, \A x \in S : f[x] = g[x]
  PROVE  SumFunctionOnSet(f, S) = SumFunctionOnSet(g, S)
<1>1. PICK it : Sums(it, f, S) /\ \A T \in SUBSET S : SumFunctionOnSet(f, T) = it[T]
  BY SumsOfSubsets
<1>2. PICK ju : Sums(ju, g, S) /\ \A T \in SUBSET S : SumFunctionOnSet(g, T) = ju[T]
  BY SumsOfSubsets
<1>3. S \in SUBSET (S \cap S) /\ S \in SUBSET S
  OBVIOUS
<1>4. it[S] = ju[S]
  BY <1>1, <1>2, <1>3, SumsAgree
<1> QED
  BY <1>1, <1>2, <1>3, <1>4

\* A change of one value changes the sum by as much.
LEMMA SumChange ==
  ASSUME NEW S, IsFiniteSet(S), NEW f, NEW g, NEW a \in S,
         \A x \in S : f[x] \in Int, g[a] \in Int, \A x \in S \ {a} : f[x] = g[x]
  PROVE  SumFunctionOnSet(g, S) = SumFunctionOnSet(f, S) + g[a] - f[a]
<1>1. SumFunctionOnSet(f, S) = f[a] + SumFunctionOnSet(f, S \ {a})
  BY SumRemove
<1>2. SumFunctionOnSet(g, S) = g[a] + SumFunctionOnSet(g, S \ {a})
  BY SumRemove
<1>3. IsFiniteSet(S \ {a})
  BY FS_RemoveElement
<1>4. SumFunctionOnSet(f, S \ {a}) = SumFunctionOnSet(g, S \ {a})
  BY <1>3, SumSame
<1>5. SumFunctionOnSet(f, S \ {a}) \in Int
  BY <1>3, SumIsInt
<1> QED
  BY <1>1, <1>2, <1>4, <1>5

\* A larger set of amounts that are not negative has no smaller sum.
LEMMA SumGrows ==
  ASSUME NEW S, IsFiniteSet(S), NEW f, \A x \in S : f[x] \in Nat, NEW U \in SUBSET S
  PROVE  SumFunctionOnSet(f, U) <= SumFunctionOnSet(f, S)
<1> DEFINE Total(T) == SumFunctionOnSet(f, T)
           D == {T \in SUBSET S : Total(U \cap T) <= Total(T)}
<1>0. \A T \in SUBSET S : IsFiniteSet(T) /\ Total(T) \in Nat /\ \A x \in T : f[x] \in Nat
  BY FS_Subset, SumIsNat
<1>1. ASSUME NEW T \in SUBSET S, \A x \in T : T \ {x} \in D
      PROVE  T \in D
  <2>1. CASE T \subseteq U
    <3>1. U \cap T = T
      BY <2>1
    <3> QED
      BY <1>0, <3>1
  <2>2. CASE ~(T \subseteq U)
    <3>1. PICK x \in T : x \notin U
      BY <2>2
    <3>2. Total(T) = f[x] + Total(T \ {x})
      BY <1>0, SumRemove
    <3>3. U \cap (T \ {x}) = U \cap T
      BY <3>1
    <3>4. Total(U \cap (T \ {x})) <= Total(T \ {x})
      BY <1>1
    <3>5. Total(T \ {x}) \in Nat /\ Total(U \cap T) \in Nat /\ f[x] \in Nat
      BY <1>0
    <3> HIDE DEF Total
    <3> QED
      BY <3>2, <3>3, <3>4, <3>5
  <2> QED
    BY <2>1, <2>2
<1>2. \A T \in SUBSET S : T \in D
  <2> HIDE DEF D
  <2> QED
    BY <1>1, FiniteInduction
<1>3. S \in D /\ U \cap S = U
  BY <1>2
<1> QED
  BY <1>3
=============================================================================
