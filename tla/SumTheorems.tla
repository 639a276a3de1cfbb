---------------------------- MODULE SumTheorems ----------------------------
(***************************************************************************)
(* Sums over finite sets of indices, which the books of the escrow are     *)
(* made of, obey the laws of sums, whatever the set and the integers.      *)
(*                                                                         *)
(* SumFunctionOnSet is a recursion that picks the indices in an order      *)
(* nobody knows.  The proofs go by induction on finite sets, in the form   *)
(* of a set T of subsets: if a subset is in T whenever all its strict      *)
(* subsets are, T has them all.                                            *)
(***************************************************************************)
EXTENDS Functions, FiniteSetTheorems, TLAPS

LEMMA SubsetInduction ==
  ASSUME NEW S, IsFiniteSet(S), NEW T,
         \A U \in SUBSET S : (\A V \in (SUBSET U) \ {U} : V \in T) => U \in T
  PROVE  SUBSET S \subseteq T
<1> SUFFICES ASSUME (SUBSET S) \ T # {} PROVE FALSE
  OBVIOUS
<1> DEFINE Bad == (SUBSET S) \ T
           Below == StrictSubsetOrdering(S)
           Finite == FiniteSubsetsOf(S)
<1>1. Bad \subseteq Finite
  BY FS_FiniteSubsetsOfFinite
<1>2. IsWellFoundedOn(Below, Finite)
  BY FS_StrictSubsetOrderingWellFounded
<1>3. \E U \in Bad : \A V \in Bad : ~ (<<V, U>> \in Below)
  <2> HIDE DEF Below, Finite
  <2>1. Bad # {}
    OBVIOUS
  <2> HIDE DEF Bad
  <2> QED
    BY <1>1, <1>2, <2>1, WFMin
<1>4. PICK U \in Bad : \A V \in Bad : ~ (<<V, U>> \in Below)
  BY <1>3
<1>5. \A V \in (SUBSET U) \ {U} : V \in T
  BY <1>4 DEF StrictSubsetOrdering
<1> QED
  BY <1>5

(***************************************************************************)
(* The recursion: a summation over the subsets of U adds, for each of      *)
(* them, the value at the index picked to the sum over the rest.           *)
(***************************************************************************)
Pick(s) == CHOOSE x \in s : TRUE

Summed(fun, g, s) == IF s = {} THEN 0 ELSE fun[Pick(s)] + g[s \ {Pick(s)}]

Summation(fun, U, g) == g = [s \in SUBSET U |-> Summed(fun, g, s)]

LEMMA SumIsSummation ==
  ASSUME NEW fun, NEW S
  PROVE  SumFunctionOnSet(fun, S) = (CHOOSE g : Summation(fun, S, g))[S]
  BY DEF SumFunctionOnSet, FoldFunctionOnSet, MapThenFoldSet, Summation, Summed, Pick

LEMMA PickIn ==
  ASSUME NEW s, s # {}
  PROVE  Pick(s) \in s
  BY DEF Pick

(* Two summations give a set both sum over the same value.                 *)
LEMMA SummationsAgree ==
  ASSUME NEW fun, NEW S, IsFiniteSet(S), NEW U, NEW W, S \subseteq U, S \subseteq W,
         NEW g, Summation(fun, U, g), NEW h, Summation(fun, W, h)
  PROVE  g[S] = h[S]
<1> DEFINE T == {s \in SUBSET S : g[s] = h[s]}
<1>1. ASSUME NEW V \in SUBSET S, \A Q \in (SUBSET V) \ {V} : Q \in T
      PROVE  V \in T
  <2>1. g[V] = Summed(fun, g, V) /\ h[V] = Summed(fun, h, V)
    BY DEF Summation
  <2>2. CASE V = {}
    BY <2>1, <2>2 DEF Summed
  <2>3. CASE V # {}
    <3>1. V \ {Pick(V)} \in (SUBSET V) \ {V}
      BY <2>3, PickIn
    <3>2. g[V \ {Pick(V)}] = h[V \ {Pick(V)}]
      BY <1>1, <3>1
    <3> QED
      BY <2>1, <2>3, <3>2 DEF Summed
  <2> QED
    BY <2>2, <2>3
<1> HIDE DEF T
<1>2. SUBSET S \subseteq T
  BY <1>1, SubsetInduction
<1> QED
  BY <1>2 DEF T

(* There is a summation over every finite set: it takes the sum over each  *)
(* subset from the summation that induction provides for that subset.      *)
LEMMA SummationExists ==
  ASSUME NEW fun, NEW S, IsFiniteSet(S)
  PROVE  \E g : Summation(fun, S, g)
<1> DEFINE T == {U \in SUBSET S : \E g : Summation(fun, U, g)}
           Of(U) == CHOOSE g : Summation(fun, U, g)
<1>1. ASSUME NEW U \in SUBSET S, \A V \in (SUBSET U) \ {U} : V \in T
      PROVE  U \in T
  <2>1. \A V \in (SUBSET U) \ {U} : Summation(fun, V, Of(V))
    BY <1>1
  <2> HIDE DEF Of
  <2> DEFINE Value(s) == IF s = {} THEN 0 ELSE fun[Pick(s)] + Of(s \ {Pick(s)})[s \ {Pick(s)}]
             g == [s \in SUBSET U |-> Value(s)]
  <2>2. ASSUME NEW V \in (SUBSET U) \ {U} PROVE g[V] = Of(V)[V]
    <3>1. Of(V)[V] = Summed(fun, Of(V), V)
      BY <2>1 DEF Summation
    <3>2. g[V] = Value(V)
      OBVIOUS
    <3>3. CASE V = {}
      BY <3>1, <3>2, <3>3 DEF Summed
    <3>4. CASE V # {}
      <4> DEFINE R == V \ {Pick(V)}
      <4>1. R \in (SUBSET U) \ {U} /\ R \subseteq V
        BY <3>4, PickIn
      <4>2. IsFiniteSet(R)
        BY FS_Subset
      <4>3. Summation(fun, R, Of(R)) /\ Summation(fun, V, Of(V))
        BY <2>1, <4>1
      <4>4. Of(R)[R] = Of(V)[R]
        <5> HIDE DEF R
        <5> QED
          BY <4>1, <4>2, <4>3, SummationsAgree
      <4> QED
        BY <3>1, <3>2, <3>4, <4>4 DEF Summed
    <3> QED
      BY <3>3, <3>4
  <2>3. ASSUME NEW s \in SUBSET U PROVE Value(s) = Summed(fun, g, s)
    <3>1. CASE s = {}
      BY <3>1 DEF Summed
    <3>2. CASE s # {}
      <4> DEFINE R == s \ {Pick(s)}
      <4>1. R \in (SUBSET U) \ {U}
        BY <3>2, PickIn
      <4>2. g[R] = Of(R)[R]
        BY <2>2, <4>1
      <4> HIDE DEF g
      <4> QED
        BY <3>2, <4>2 DEF Summed
    <3> QED
      BY <3>1, <3>2
  <2>4. g = [s \in SUBSET U |-> Summed(fun, g, s)]
    <3> HIDE DEF Value
    <3>1. \A s \in SUBSET U : g[s] = Value(s)
      OBVIOUS
    <3> DEFINE k == [s \in SUBSET U |-> Summed(fun, g, s)]
    <3>2. \A s \in SUBSET U : g[s] = k[s]
      BY <2>3, <3>1
    <3> QED
      BY <3>2
  <2>5. Summation(fun, U, g)
    BY <2>4 DEF Summation
  <2> QED
    BY <2>5
<1> HIDE DEF T
<1>2. SUBSET S \subseteq T
  BY <1>1, SubsetInduction
<1> QED
  BY <1>2 DEF T

(***************************************************************************)
(* The laws.                                                               *)
(***************************************************************************)

LEMMA SumOverNothing ==
  ASSUME NEW fun
  PROVE  SumFunctionOnSet(fun, {}) = 0
<1> DEFINE g == CHOOSE h : Summation(fun, {}, h)
<1>1. IsFiniteSet({})
  BY FS_EmptySet
<1>2. Summation(fun, {}, g)
  BY <1>1, SummationExists
<1>3. g[{}] = 0
  <2> HIDE DEF g
  <2> QED
    BY <1>2 DEF Summation, Summed
<1> QED
  BY <1>3, SumIsSummation

LEMMA SumUnfolds ==
  ASSUME NEW fun, NEW S, IsFiniteSet(S), S # {}
  PROVE  SumFunctionOnSet(fun, S) = fun[Pick(S)] + SumFunctionOnSet(fun, S \ {Pick(S)})
<1> DEFINE Of(U) == CHOOSE h : Summation(fun, U, h)
           R == S \ {Pick(S)}
<1>1. IsFiniteSet(R) /\ R \subseteq S
  BY FS_Subset
<1>2. Summation(fun, S, Of(S)) /\ Summation(fun, R, Of(R))
  BY <1>1, SummationExists
<1>3. SumFunctionOnSet(fun, S) = Of(S)[S] /\ SumFunctionOnSet(fun, R) = Of(R)[R]
  BY SumIsSummation
<1> HIDE DEF Of
<1>4. Of(S)[S] = fun[Pick(S)] + Of(S)[R]
  BY <1>2 DEF Summation, Summed
<1> HIDE DEF R
<1>5. Of(S)[R] = Of(R)[R]
  BY <1>1, <1>2, SummationsAgree
<1> QED
  BY <1>3, <1>4, <1>5 DEF R

(* A sum of integers is an integer.                                        *)
LEMMA SumIsInt ==
  ASSUME NEW fun, NEW S, IsFiniteSet(S), \A x \in S : fun[x] \in Int
  PROVE  SumFunctionOnSet(fun, S) \in Int
<1> DEFINE T == {U \in SUBSET S : SumFunctionOnSet(fun, U) \in Int}
<1>1. ASSUME NEW U \in SUBSET S, \A V \in (SUBSET U) \ {U} : V \in T
      PROVE  U \in T
  <2>1. CASE U = {}
    BY <2>1, SumOverNothing
  <2>2. CASE U # {}
    <3>1. IsFiniteSet(U)
      BY FS_Subset
    <3>2. Pick(U) \in U
      BY <2>2, PickIn
    <3>3. fun[Pick(U)] \in Int /\ SumFunctionOnSet(fun, U \ {Pick(U)}) \in Int
      BY <1>1, <3>2
    <3>4. SumFunctionOnSet(fun, U) \in Int
      BY <2>2, <3>1, <3>3, SumUnfolds
    <3> QED
      BY <3>4
  <2> QED
    BY <2>1, <2>2
<1> HIDE DEF T
<1>2. SUBSET S \subseteq T
  BY <1>1, SubsetInduction
<1> QED
  BY <1>2 DEF T

(* Any index may be taken out first.                                       *)
LEMMA SumWithout ==
  ASSUME NEW fun, NEW S, IsFiniteSet(S), \A x \in S : fun[x] \in Int, NEW x \in S
  PROVE  SumFunctionOnSet(fun, S) = fun[x] + SumFunctionOnSet(fun, S \ {x})
<1> DEFINE Sum(U) == SumFunctionOnSet(fun, U)
           T == {U \in SUBSET S : \A y \in U : Sum(U) = fun[y] + Sum(U \ {y})}
<1>1. ASSUME NEW U \in SUBSET S, NEW y \in U, \A V \in (SUBSET U) \ {U} : V \in T
      PROVE  Sum(U) = fun[y] + Sum(U \ {y})
  <2> DEFINE p == Pick(U)
  <2>1. IsFiniteSet(U) /\ p \in U
    BY FS_Subset, PickIn
  <2>2. Sum(U) = fun[p] + Sum(U \ {p})
    BY <2>1, SumUnfolds
  <2> HIDE DEF p
  <2>3. CASE y = p
    BY <2>2, <2>3
  <2>4. CASE y # p
    <3>1. U \ {p} \in T /\ U \ {y} \in T
      BY <1>1, <2>1
    <3>2. Sum(U \ {p}) = fun[y] + Sum((U \ {p}) \ {y})
      BY <2>4, <3>1
    <3>3. Sum(U \ {y}) = fun[p] + Sum((U \ {y}) \ {p})
      BY <2>1, <2>4, <3>1
    <3>4. Sum((U \ {p}) \ {y}) = Sum((U \ {y}) \ {p})
      <4>1. (U \ {p}) \ {y} = (U \ {y}) \ {p}
        OBVIOUS
      <4> QED
        BY <4>1, Zenon
    <3>5. IsFiniteSet((U \ {y}) \ {p})
      BY FS_Subset
    <3>6. Sum((U \ {y}) \ {p}) \in Int /\ fun[y] \in Int /\ fun[p] \in Int
      BY <2>1, <3>5, SumIsInt
    <3> HIDE DEF Sum
    <3> QED
      BY <2>2, <3>2, <3>3, <3>4, <3>6
  <2> QED
    BY <2>3, <2>4
<1>2. ASSUME NEW U \in SUBSET S, \A V \in (SUBSET U) \ {U} : V \in T
      PROVE  U \in T
  BY <1>1, <1>2
<1> HIDE DEF T
<1>3. SUBSET S \subseteq T
  BY <1>2, SubsetInduction
<1> QED
  BY <1>3 DEF T

(* One index more.                                                         *)
LEMMA SumWith ==
  ASSUME NEW fun, NEW S, IsFiniteSet(S), NEW x, x \notin S, \A y \in S \cup {x} : fun[y] \in Int
  PROVE  SumFunctionOnSet(fun, S \cup {x}) = fun[x] + SumFunctionOnSet(fun, S)
<1>1. IsFiniteSet(S \cup {x})
  BY FS_AddElement
<1>2. (S \cup {x}) \ {x} = S
  OBVIOUS
<1>3. x \in S \cup {x}
  OBVIOUS
<1> DEFINE W == S \cup {x}
<1> HIDE DEF W
<1>4. SumFunctionOnSet(fun, W) = fun[x] + SumFunctionOnSet(fun, W \ {x})
  BY <1>1, <1>3, SumWithout DEF W
<1> QED
  BY <1>2, <1>4 DEF W

(* Only the values over the set matter.                                    *)
LEMMA SumsEqual ==
  ASSUME NEW fun, NEW gun, NEW S, IsFiniteSet(S), \A x \in S : fun[x] = gun[x]
  PROVE  SumFunctionOnSet(fun, S) = SumFunctionOnSet(gun, S)
<1> DEFINE T == {U \in SUBSET S : SumFunctionOnSet(fun, U) = SumFunctionOnSet(gun, U)}
<1>1. ASSUME NEW U \in SUBSET S, \A V \in (SUBSET U) \ {U} : V \in T
      PROVE  U \in T
  <2>1. CASE U = {}
    BY <2>1, SumOverNothing
  <2>2. CASE U # {}
    <3>1. IsFiniteSet(U)
      BY FS_Subset
    <3>2. Pick(U) \in U
      BY <2>2, PickIn
    <3>3. fun[Pick(U)] = gun[Pick(U)]
      BY <3>2
    <3>4. SumFunctionOnSet(fun, U \ {Pick(U)}) = SumFunctionOnSet(gun, U \ {Pick(U)})
      BY <1>1, <3>2
    <3>5. SumFunctionOnSet(fun, U) = SumFunctionOnSet(gun, U)
      BY <2>2, <3>1, <3>3, <3>4, SumUnfolds
    <3> QED
      BY <3>5
  <2> QED
    BY <2>1, <2>2
<1> HIDE DEF T
<1>2. SUBSET S \subseteq T
  BY <1>1, SubsetInduction
<1> QED
  BY <1>2 DEF T

(* Two disjoint sets.                                                      *)
LEMMA SumOfUnion ==
  ASSUME NEW fun, NEW A, NEW B, IsFiniteSet(A), IsFiniteSet(B), A \cap B = {},
         \A x \in A \cup B : fun[x] \in Int
  PROVE  SumFunctionOnSet(fun, A \cup B) = SumFunctionOnSet(fun, A) + SumFunctionOnSet(fun, B)
<1> DEFINE Sum(U) == SumFunctionOnSet(fun, U)
           T == {U \in SUBSET B : Sum(A \cup U) = Sum(A) + Sum(U)}
<1>0. Sum(A) \in Int
  BY SumIsInt
<1>1. ASSUME NEW U \in SUBSET B, \A V \in (SUBSET U) \ {U} : V \in T
      PROVE  U \in T
  <2>1. CASE U = {}
    <3>1. Sum(U) = 0 /\ A \cup U = A
      BY <2>1, SumOverNothing
    <3> HIDE DEF Sum
    <3> QED
      BY <1>0, <3>1
  <2>2. CASE U # {}
    <3> PICK x \in U : TRUE
      BY <2>2
    <3> DEFINE R == U \ {x}
    <3>1. IsFiniteSet(U) /\ IsFiniteSet(R) /\ IsFiniteSet(A \cup R)
      BY FS_Subset, FS_Union
    <3>2. Sum(U) = fun[x] + Sum(R)
      BY <3>1, SumWithout
    <3>3. Sum((A \cup R) \cup {x}) = fun[x] + Sum(A \cup R)
      <4>1. x \notin A \cup R
        OBVIOUS
      <4>2. \A y \in (A \cup R) \cup {x} : fun[y] \in Int
        OBVIOUS
      <4> HIDE DEF R
      <4> QED
        BY <3>1, <4>1, <4>2, SumWith
    <3>4. Sum((A \cup R) \cup {x}) = Sum(A \cup U)
      <4>1. (A \cup R) \cup {x} = A \cup U
        OBVIOUS
      <4> QED
        BY <4>1, Zenon
    <3>5. Sum(A \cup R) = Sum(A) + Sum(R)
      BY <1>1
    <3>6. Sum(R) \in Int /\ fun[x] \in Int
      BY <3>1, SumIsInt
    <3> HIDE DEF Sum, R
    <3>7. Sum(A \cup U) = Sum(A) + Sum(U)
      BY <1>0, <3>2, <3>3, <3>4, <3>5, <3>6
    <3> QED
      BY <3>7
  <2> QED
    BY <2>1, <2>2
<1> HIDE DEF T
<1>2. SUBSET B \subseteq T
  BY <1>1, SubsetInduction
<1> QED
  BY <1>2 DEF T

(* A sum of natural numbers is one, and positive unless all of them are 0. *)
LEMMA SumIsNat ==
  ASSUME NEW fun, NEW S, IsFiniteSet(S), \A x \in S : fun[x] \in Nat
  PROVE  SumFunctionOnSet(fun, S) \in Nat
<1> DEFINE T == {U \in SUBSET S : SumFunctionOnSet(fun, U) \in Nat}
<1>1. ASSUME NEW U \in SUBSET S, \A V \in (SUBSET U) \ {U} : V \in T
      PROVE  U \in T
  <2>1. CASE U = {}
    BY <2>1, SumOverNothing
  <2>2. CASE U # {}
    <3>1. IsFiniteSet(U)
      BY FS_Subset
    <3>2. Pick(U) \in U
      BY <2>2, PickIn
    <3>3. fun[Pick(U)] \in Nat /\ SumFunctionOnSet(fun, U \ {Pick(U)}) \in Nat
      BY <1>1, <3>2
    <3>4. SumFunctionOnSet(fun, U) \in Nat
      BY <2>2, <3>1, <3>3, SumUnfolds
    <3> QED
      BY <3>4
  <2> QED
    BY <2>1, <2>2
<1> HIDE DEF T
<1>2. SUBSET S \subseteq T
  BY <1>1, SubsetInduction
<1> QED
  BY <1>2 DEF T

LEMMA SumIsPositive ==
  ASSUME NEW fun, NEW S, IsFiniteSet(S), S # {}, \A x \in S : fun[x] \in Nat \ {0}
  PROVE  SumFunctionOnSet(fun, S) \in Nat \ {0}
<1> PICK x \in S : TRUE
  OBVIOUS
<1>1. IsFiniteSet(S \ {x})
  BY FS_Subset
<1>2. SumFunctionOnSet(fun, S \ {x}) \in Nat
  BY <1>1, SumIsNat
<1>3. SumFunctionOnSet(fun, S) = fun[x] + SumFunctionOnSet(fun, S \ {x})
  BY SumWithout
<1> QED
  BY <1>2, <1>3

(* Changing the value at one index changes the sum by as much.             *)
LEMMA SumChanges ==
  ASSUME NEW fun, NEW gun, NEW S, IsFiniteSet(S), NEW x \in S,
         \A y \in S : fun[y] \in Int, gun[x] \in Int,
         \A y \in S \ {x} : gun[y] = fun[y]
  PROVE  SumFunctionOnSet(gun, S) = SumFunctionOnSet(fun, S) - fun[x] + gun[x]
<1> DEFINE R == S \ {x}
<1>1. IsFiniteSet(R)
  BY FS_Subset
<1>2. SumFunctionOnSet(fun, R) = SumFunctionOnSet(gun, R) /\ SumFunctionOnSet(fun, R) \in Int
  BY <1>1, SumsEqual, SumIsInt
<1>3. SumFunctionOnSet(fun, S) = fun[x] + SumFunctionOnSet(fun, R)
  BY SumWithout
<1>4. SumFunctionOnSet(gun, S) = gun[x] + SumFunctionOnSet(gun, R)
  <2>1. \A y \in S : gun[y] \in Int
    OBVIOUS
  <2> HIDE DEF R
  <2> QED
    BY <2>1, SumWithout DEF R
<1> HIDE DEF R
<1> QED
  BY <1>2, <1>3, <1>4

(* Zeros add nothing.                                                      *)
LEMMA SumOfZeros ==
  ASSUME NEW fun, NEW S, IsFiniteSet(S), \A x \in S : fun[x] = 0
  PROVE  SumFunctionOnSet(fun, S) = 0
<1> DEFINE T == {U \in SUBSET S : SumFunctionOnSet(fun, U) = 0}
<1>1. ASSUME NEW U \in SUBSET S, \A V \in (SUBSET U) \ {U} : V \in T
      PROVE  U \in T
  <2>1. CASE U = {}
    BY <2>1, SumOverNothing
  <2>2. CASE U # {}
    <3>1. IsFiniteSet(U) /\ Pick(U) \in U
      BY <2>2, FS_Subset, PickIn
    <3>2. fun[Pick(U)] = 0 /\ SumFunctionOnSet(fun, U \ {Pick(U)}) = 0
      BY <1>1, <3>1
    <3>3. SumFunctionOnSet(fun, U) = 0
      BY <2>2, <3>1, <3>2, SumUnfolds
    <3> QED
      BY <3>3
  <2> QED
    BY <2>1, <2>2
<1> HIDE DEF T
<1>2. SUBSET S \subseteq T
  BY <1>1, SubsetInduction
<1> QED
  BY <1>2 DEF T

(* Of two functions one of which is never above the other, so are the sums, *)
(* and properly so if one value is.                                        *)
LEMMA SumsOrdered ==
  ASSUME NEW fun, NEW gun, NEW S, IsFiniteSet(S),
         \A x \in S : fun[x] \in Int /\ gun[x] \in Int /\ fun[x] <= gun[x]
  PROVE  SumFunctionOnSet(fun, S) <= SumFunctionOnSet(gun, S)
<1> DEFINE T == {U \in SUBSET S : SumFunctionOnSet(fun, U) <= SumFunctionOnSet(gun, U)}
<1>1. ASSUME NEW U \in SUBSET S, \A V \in (SUBSET U) \ {U} : V \in T
      PROVE  U \in T
  <2>1. CASE U = {}
    BY <2>1, SumOverNothing
  <2>2. CASE U # {}
    <3> DEFINE x == Pick(U)
               R == U \ {Pick(U)}
    <3>1. IsFiniteSet(U) /\ IsFiniteSet(R) /\ x \in U
      BY <2>2, FS_Subset, PickIn
    <3>2. SumFunctionOnSet(fun, R) <= SumFunctionOnSet(gun, R)
      BY <1>1, <3>1
    <3>3. SumFunctionOnSet(fun, R) \in Int /\ SumFunctionOnSet(gun, R) \in Int
      BY <3>1, SumIsInt
    <3>4. /\ SumFunctionOnSet(fun, U) = fun[x] + SumFunctionOnSet(fun, R)
          /\ SumFunctionOnSet(gun, U) = gun[x] + SumFunctionOnSet(gun, R)
      BY <2>2, <3>1, SumUnfolds
    <3> HIDE DEF x, R
    <3>5. SumFunctionOnSet(fun, U) <= SumFunctionOnSet(gun, U)
      BY <3>1, <3>2, <3>3, <3>4
    <3> QED
      BY <3>5
  <2> QED
    BY <2>1, <2>2
<1> HIDE DEF T
<1>2. SUBSET S \subseteq T
  BY <1>1, SubsetInduction
<1> QED
  BY <1>2 DEF T

LEMMA SumsStrict ==
  ASSUME NEW fun, NEW gun, NEW S, IsFiniteSet(S), S # {},
         \A x \in S : fun[x] \in Int /\ gun[x] \in Int /\ fun[x] < gun[x]
  PROVE  SumFunctionOnSet(fun, S) < SumFunctionOnSet(gun, S)
<1> PICK x \in S : TRUE
  OBVIOUS
<1> DEFINE R == S \ {x}
<1>1. IsFiniteSet(R)
  BY FS_Subset
<1>2. /\ SumFunctionOnSet(fun, S) = fun[x] + SumFunctionOnSet(fun, R)
      /\ SumFunctionOnSet(gun, S) = gun[x] + SumFunctionOnSet(gun, R)
  BY SumWithout
<1>3. \A y \in R : fun[y] \in Int /\ gun[y] \in Int /\ fun[y] <= gun[y]
  OBVIOUS
<1> HIDE DEF R
<1>4. SumFunctionOnSet(fun, R) <= SumFunctionOnSet(gun, R)
  BY <1>1, <1>3, SumsOrdered
<1>5. SumFunctionOnSet(fun, R) \in Int /\ SumFunctionOnSet(gun, R) \in Int
  BY <1>1, <1>3, SumIsInt
<1> QED
  BY <1>2, <1>4, <1>5
=============================================================================
