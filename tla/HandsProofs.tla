----------------------------- MODULE HandsProofs -----------------------------
(***************************************************************************)
(* What the sums of module Hands are.  A sum over a finite set is a        *)
(* recursive function on its subsets that takes out a chosen element; that *)
(* any element may be taken out instead is what all the rest follows from. *)
(***************************************************************************)
EXTENDS Hands, VectorProofs

(* Sets of subsets of a finite set have a smallest one. *)
LEMMA SmallestSet ==
    ASSUME NEW S, IsFiniteSet(S), NEW Q \in SUBSET (SUBSET S), Q # {}
    PROVE  \E T \in Q : \A U \in Q : U \subseteq T => U = T
<1>1. IsWellFoundedOn(StrictSubsetOrdering(S), FiniteSubsetsOf(S))
  BY FS_StrictSubsetOrderingWellFounded
<1>2. Q \subseteq FiniteSubsetsOf(S)
  BY FS_Subset DEF FiniteSubsetsOf
<1>3. PICK T \in Q : \A U \in Q : ~ (<<U, T>> \in StrictSubsetOrdering(S))
  BY <1>1, <1>2, WFMin
<1>4. ASSUME NEW U \in Q, U \subseteq T, U # T PROVE FALSE
  <2>1. U \in SUBSET S /\ T \in SUBSET S
    OBVIOUS
  <2>2. <<U, T>> \in StrictSubsetOrdering(S)
    BY <1>4, <2>1, Zenon DEF StrictSubsetOrdering
  <2>3. QED
    BY <1>3, <2>2
<1>5. QED
  BY <1>4

With(T, x) == T \union {x}

(* Induction over the subsets of a finite set, for a set of those. *)
LEMMA SetInduction ==
    ASSUME NEW S, IsFiniteSet(S), NEW P,
           {} \in P,
           \A T \in SUBSET S : \A x \in S \ T : T \in P => With(T, x) \in P
    PROVE  S \in P
<1> DEFINE Bad == {T \in SUBSET S : T \notin P}
<1> SUFFICES ASSUME Bad # {} PROVE FALSE
  OBVIOUS
<1>1. PICK T \in Bad : \A U \in Bad : U \subseteq T => U = T
  <2>1. Bad \in SUBSET (SUBSET S)
    OBVIOUS
  <2> HIDE DEF Bad
  <2>2. QED
    BY <2>1, SmallestSet
<1>2. PICK x \in T : TRUE
  BY <1>1
<1>3. T \ {x} \in P
  <2>1. T \ {x} \in SUBSET S /\ T \ {x} \subseteq T /\ T \ {x} # T
    BY <1>1, <1>2
  <2>2. QED
    BY <1>1, <2>1
<1>4. x \in S \ (T \ {x}) /\ T \ {x} \in SUBSET S
  BY <1>1, <1>2
<1>5. With(T \ {x}, x) \in P
  BY <1>3, <1>4
<1>6. With(T \ {x}, x) = T
  BY <1>2 DEF With
<1>7. QED
  BY <1>1, <1>5, <1>6

-----------------------------------------------------------------------------
(* Sums. *)

Chosen(T) == CHOOSE x \in T : TRUE

LEMMA ChosenIsMember ==
    ASSUME NEW T, T # {}
    PROVE  Chosen(T) \in T
BY DEF Chosen

(* F is the recursive function in the definition of the sum of f over S. *)
IsSum(F, f, S) ==
    F = [T \in SUBSET S |-> IF T = {} THEN 0 ELSE f[Chosen(T)] + F[T \ {Chosen(T)}]]

(* There is such a function. *)
LEMMA SumExists ==
    ASSUME NEW S, IsFiniteSet(S), NEW f
    PROVE  \E F : IsSum(F, f, S)
<1> DEFINE Body(F, T) == IF T = {} THEN 0 ELSE f[Chosen(T)] + F[T \ {Chosen(T)}]
           Upto(n) == {T \in SUBSET S : Cardinality(T) <= n}
           Good(n) == \E F : F = [T \in Upto(n) |-> Body(F, T)]
           P == {n \in 0 .. Cardinality(S) : Good(n)}
<1>0. Cardinality(S) \in Nat
  BY FS_CardinalityType
<1>1. ASSUME NEW T \in SUBSET S
      PROVE  /\ Cardinality(T) \in Nat /\ Cardinality(T) <= Cardinality(S)
             /\ (Cardinality(T) = 0) <=> (T = {})
             /\ T # {} => Cardinality(T \ {Chosen(T)}) = Cardinality(T) - 1
  <2>1. IsFiniteSet(T) /\ Cardinality(T) <= Cardinality(S)
    BY FS_Subset
  <2>2. Cardinality(T) \in Nat /\ (Cardinality(T) = 0 <=> T = {})
    BY <2>1, FS_CardinalityType, FS_EmptySet
  <2>3. T # {} => Cardinality(T \ {Chosen(T)}) = Cardinality(T) - 1
    BY <2>1, FS_RemoveElement, ChosenIsMember
  <2>4. QED
    BY <1>0, <2>1, <2>2, <2>3
<1>2. 0 \in P
  <2> DEFINE F == [T \in Upto(0) |-> 0]
  <2>1. \A T \in Upto(0) : T = {}
    <3>1. ASSUME NEW T \in SUBSET S, Cardinality(T) <= 0 PROVE T = {}
      <4>1. Cardinality(T) \in Nat
        BY <1>1
      <4>2. Cardinality(T) = 0
        BY <3>1, <4>1
      <4>3. QED
        BY <1>1, <4>2
    <3>2. QED
      BY <3>1
  <2>2. F = [T \in Upto(0) |-> Body(F, T)]
    BY <2>1
  <2>3. Good(0)
    <3> HIDE DEF F
    <3> QED BY <2>2
  <2>4. QED
    <3> HIDE DEF Good
    <3> QED BY <1>0, <2>3
<1>3. ASSUME NEW n \in 1 .. Cardinality(S), n - 1 \in P PROVE n \in P
  <2>1. PICK F : F = [T \in Upto(n - 1) |-> Body(F, T)]
    BY <1>3
  <2> DEFINE G == [T \in Upto(n) |->
                      IF T \in Upto(n - 1) THEN F[T] ELSE f[Chosen(T)] + F[T \ {Chosen(T)}]]
  <2>2. ASSUME NEW T \in Upto(n) PROVE G[T] = Body(G, T)
    <3>1. CASE T = {}
      <4>1. T \in Upto(n - 1)
        <5>1. T \in SUBSET S /\ Cardinality(T) = 0
          BY <1>1, <3>1
        <5>2. 0 <= n - 1
          BY <1>0
        <5>3. QED
          BY <5>1, <5>2
      <4>2. G[T] = F[T] /\ F[T] = Body(F, T)
        BY <2>1, <4>1
      <4>3. QED
        BY <3>1, <4>2
    <3>2. CASE T # {}
      <4> DEFINE U == T \ {Chosen(T)}
      <4>1. U \in Upto(n - 1) /\ U \in Upto(n)
        BY <1>1, <3>2
      <4>2. G[U] = F[U]
        <5> HIDE DEF U, Upto
        <5> QED BY <4>1
      <4>3. G[T] = f[Chosen(T)] + F[U]
        <5>1. T \in Upto(n - 1) => F[T] = Body(F, T)
          BY <2>1
        <5>2. QED
          BY <3>2, <5>1
      <4>4. QED
        BY <3>2, <4>2, <4>3
    <3>3. QED
      BY <3>1, <3>2
  <2>3. G = [T \in Upto(n) |-> Body(G, T)]
    BY <2>2
  <2>4. Good(n)
    <3> HIDE DEF G
    <3> QED BY <2>3
  <2>5. QED
    <3> HIDE DEF Good
    <3> QED BY <2>4
<1>4. Good(Cardinality(S))
  <2> HIDE DEF P
  <2>1. \A i \in 1 .. Cardinality(S) : i - 1 \in P => i \in P
    BY <1>3
  <2>2. \A i \in 0 .. Cardinality(S) : i \in P
    BY <1>0, <1>2, <2>1, IntervalInduction
  <2>3. Cardinality(S) \in P
    BY <1>0, <2>2
  <2>4. QED
    <3> HIDE DEF Good
    <3> QED BY <2>3 DEF P
<1>5. Upto(Cardinality(S)) = SUBSET S
  <2>1. ASSUME NEW T \in SUBSET S PROVE Cardinality(T) <= Cardinality(S)
    BY <1>0, <1>1
  <2>2. QED
    BY <2>1
<1>6. QED
  BY <1>4, <1>5 DEF IsSum

(* Such functions agree on the sets on which both are defined. *)
LEMMA SumsAgree ==
    ASSUME NEW S, IsFiniteSet(S), NEW T \in SUBSET S, NEW f,
           NEW F, IsSum(F, f, S), NEW G, IsSum(G, f, T)
    PROVE  F[T] = G[T]
<1> DEFINE Bad == {U \in SUBSET T : F[U] # G[U]}
<1> SUFFICES ASSUME Bad # {} PROVE FALSE
  OBVIOUS
<1>1. PICK U \in Bad : \A V \in Bad : V \subseteq U => V = U
  <2>1. Bad \in SUBSET (SUBSET S)
    OBVIOUS
  <2> HIDE DEF Bad
  <2>2. QED
    BY <2>1, SmallestSet
<1>2. /\ F[U] = IF U = {} THEN 0 ELSE f[Chosen(U)] + F[U \ {Chosen(U)}]
      /\ G[U] = IF U = {} THEN 0 ELSE f[Chosen(U)] + G[U \ {Chosen(U)}]
  BY <1>1 DEF IsSum
<1>3. CASE U = {}
  BY <1>1, <1>2, <1>3
<1>4. CASE U # {}
  <2>1. Chosen(U) \in U
    BY <1>4, ChosenIsMember
  <2>2. F[U \ {Chosen(U)}] = G[U \ {Chosen(U)}]
    BY <1>1, <2>1
  <2>3. QED
    BY <1>1, <1>2, <1>4, <2>2
<1>5. QED
  BY <1>3, <1>4

(* The sum of f over S is what such a function has at S. *)
LEMMA SumIs ==
    ASSUME NEW S, IsFiniteSet(S), NEW f, NEW F, IsSum(F, f, S)
    PROVE  SumFunctionOnSet(f, S) = F[S]
<1> DEFINE iter == CHOOSE G : IsSum(G, f, S)
<1>1. SumFunctionOnSet(f, S) = iter[S]
  BY DEF SumFunctionOnSet, FoldFunctionOnSet, MapThenFoldSet, IsSum, Chosen
<1>2. IsSum(iter, f, S)
  BY Zenon
<1> HIDE DEF iter
<1>3. QED
  BY <1>1, <1>2, SumsAgree

LEMMA SumEmpty ==
    ASSUME NEW f
    PROVE  SumFunctionOnSet(f, {}) = 0
BY DEF SumFunctionOnSet, FoldFunctionOnSet, MapThenFoldSet

(* The chosen element is taken out. *)
LEMMA SumChosen ==
    ASSUME NEW S, IsFiniteSet(S), S # {}, NEW f
    PROVE  SumFunctionOnSet(f, S) =
               f[Chosen(S)] + SumFunctionOnSet(f, S \ {Chosen(S)})
<1> DEFINE T == S \ {Chosen(S)}
<1>1. IsFiniteSet(T)
  BY FS_RemoveElement
<1>2. PICK F : IsSum(F, f, S)
  BY SumExists
<1>3. PICK G : IsSum(G, f, T)
  <2> HIDE DEF T
  <2> QED BY <1>1, SumExists
<1>4. T \in SUBSET S
  OBVIOUS
<1>5. F[S] = f[Chosen(S)] + F[T]
  BY <1>2 DEF IsSum
<1> HIDE DEF T
<1>6. F[T] = G[T]
  BY <1>2, <1>3, <1>4, SumsAgree
<1>7. SumFunctionOnSet(f, S) = F[S] /\ SumFunctionOnSet(f, T) = G[T]
  BY <1>1, <1>2, <1>3, SumIs
<1>8. QED
  BY <1>5, <1>6, <1>7 DEF T

(* Any element can be taken out first: the sum does not depend on the      *)
(* choice.                                                                 *)
THEOREM SumWithout ==
    ASSUME NEW S, IsFiniteSet(S), NEW f, \A x \in S : f[x] \in Int
    PROVE  /\ SumFunctionOnSet(f, S) \in Int
           /\ \A x \in S : SumFunctionOnSet(f, S) = f[x] + SumFunctionOnSet(f, S \ {x})
<1> DEFINE Sum(T) == SumFunctionOnSet(f, T)
           Good(T) == Sum(T) \in Int /\ \A x \in T : Sum(T) = f[x] + Sum(T \ {x})
           Bad == {T \in SUBSET S : ~ Good(T)}
<1> SUFFICES ASSUME Bad # {} PROVE FALSE
  OBVIOUS
<1>1. PICK T \in Bad : \A U \in Bad : U \subseteq T => U = T
  <2>1. Bad \in SUBSET (SUBSET S)
    OBVIOUS
  <2> HIDE DEF Bad
  <2>2. QED
    BY <2>1, SmallestSet
<1>2. T \in SUBSET S /\ IsFiniteSet(T) /\ ~ Good(T)
  BY <1>1, FS_Subset
<1>3. ASSUME NEW x \in T PROVE Good(T \ {x})
  <2>1. T \ {x} \in SUBSET S /\ T \ {x} \subseteq T /\ T \ {x} # T
    BY <1>2
  <2> HIDE DEF Good
  <2>2. QED
    BY <1>1, <2>1
<1>4. CASE T = {}
  <2>1. Sum(T) = 0
    BY <1>4, SumEmpty
  <2>2. QED
    BY <1>2, <1>4, <2>1
<1>5. CASE T # {}
  <2> DEFINE c == Chosen(T)
  <2>1. c \in T /\ Sum(T) = f[c] + Sum(T \ {c})
    BY <1>2, <1>5, ChosenIsMember, SumChosen
  <2> HIDE DEF c, Sum
  <2>2. f[c] \in Int /\ Sum(T \ {c}) \in Int
    BY <1>2, <1>3, <2>1
  <2>3. ASSUME NEW x \in T, x # c PROVE Sum(T) = f[x] + Sum(T \ {x})
    <3>1. f[x] \in Int
      BY <1>2
    <3>2. Sum(T \ {c}) = f[x] + Sum((T \ {c}) \ {x})
      <4>1. x \in T \ {c}
        BY <2>3
      <4>2. QED
        BY <1>3, <2>1, <4>1
    <3>3. Sum(T \ {x}) = f[c] + Sum((T \ {x}) \ {c}) /\ Sum(T \ {x}) \in Int
      <4>1. c \in T \ {x}
        BY <2>1, <2>3
      <4>2. QED
        BY <1>3, <4>1
    <3>4. (T \ {c}) \ {x} = (T \ {x}) \ {c}
      OBVIOUS
    <3>5. Sum((T \ {c}) \ {x}) \in Int
      <4>1. (T \ {c}) \ {x} \in SUBSET S /\ (T \ {c}) \ {x} \subseteq T /\ (T \ {c}) \ {x} # T
        BY <1>2, <2>1
      <4> HIDE DEF Good
      <4>2. Good((T \ {c}) \ {x})
        BY <1>1, <4>1
      <4>3. QED
        BY <4>2 DEF Good
    <3>6. \A a, b, d \in Int : a + (b + d) = b + (a + d)
      OBVIOUS
    <3>7. Sum(T) = f[c] + (f[x] + Sum((T \ {c}) \ {x}))
      BY <2>1, <3>2
    <3>8. Sum(T \ {x}) = f[c] + Sum((T \ {c}) \ {x})
      BY <3>3, <3>4
    <3>9. QED
      BY <2>2, <3>1, <3>5, <3>6, <3>7, <3>8
  <2>4. Good(T)
    <3>1. Sum(T) \in Int
      BY <2>1, <2>2
    <3>2. ASSUME NEW x \in T PROVE Sum(T) = f[x] + Sum(T \ {x})
      BY <2>1, <2>3
    <3>3. QED
      BY <3>1, <3>2
  <2>5. QED
    BY <1>2, <2>4
<1>6. QED
  BY <1>4, <1>5

IntOn(f, S) == \A x \in S : f[x] \in Int

(* A set within which a sum is built up, one element at a time. *)
LEMMA SumStep ==
    ASSUME NEW S, IsFiniteSet(S), NEW f, IntOn(f, S),
           NEW T \in SUBSET S, NEW x \in S \ T
    PROVE  /\ SumFunctionOnSet(f, T) \in Int
           /\ SumFunctionOnSet(f, With(T, x)) = f[x] + SumFunctionOnSet(f, T)
<1> DEFINE U == With(T, x)
<1>1. IsFiniteSet(T) /\ IsFiniteSet(U)
  BY FS_Subset DEF With
<1>2. x \in U /\ U \ {x} = T
  BY DEF With
<1>3. (\A y \in U : f[y] \in Int) /\ (\A y \in T : f[y] \in Int)
  BY DEF IntOn, With
<1>4. SumFunctionOnSet(f, U) = f[x] + SumFunctionOnSet(f, U \ {x})
  <2> HIDE DEF U
  <2> QED BY <1>1, <1>2, <1>3, SumWithout
<1>5. SumFunctionOnSet(f, T) \in Int
  BY <1>1, <1>3, SumWithout
<1>6. QED
  BY <1>2, <1>4, <1>5

LEMMA SumOfOne ==
    ASSUME NEW f, NEW x, f[x] \in Int
    PROVE  SumFunctionOnSet(f, {x}) = f[x]
<1>1. IsFiniteSet({x}) /\ {x} \ {x} = {}
  BY FS_Singleton
<1>2. SumFunctionOnSet(f, {x}) = f[x] + SumFunctionOnSet(f, {x} \ {x})
  BY <1>1, SumWithout
<1>3. QED
  BY <1>1, <1>2, SumEmpty

(* A sum of numbers that are not negative. *)
LEMMA SumNat ==
    ASSUME NEW S, IsFiniteSet(S), NEW f, \A x \in S : f[x] \in Nat
    PROVE  /\ SumFunctionOnSet(f, S) \in Nat
           /\ \A x \in S : f[x] <= SumFunctionOnSet(f, S)
<1> DEFINE P == {T \in SUBSET S : SumFunctionOnSet(f, T) \in Nat}
<1>1. {} \in P
  BY SumEmpty
<1>2. ASSUME NEW T \in SUBSET S, NEW x \in S \ T, T \in P PROVE With(T, x) \in P
  <2>1. IntOn(f, S)
    BY DEF IntOn
  <2>2. SumFunctionOnSet(f, With(T, x)) = f[x] + SumFunctionOnSet(f, T)
    BY <2>1, SumStep
  <2>3. QED
    BY <1>2, <2>2 DEF With
<1>3. ASSUME NEW T \in SUBSET S PROVE SumFunctionOnSet(f, T) \in Nat
  <2>1. IsFiniteSet(T)
    BY FS_Subset
  <2>2. {} \in P
    BY <1>1
  <2>3. \A U \in SUBSET T : \A x \in T \ U : U \in P => With(U, x) \in P
    BY <1>2
  <2> HIDE DEF P
  <2>4. T \in P
    BY <2>1, <2>2, <2>3, SetInduction
  <2>5. QED
    BY <2>4 DEF P
<1>4. ASSUME NEW x \in S PROVE f[x] <= SumFunctionOnSet(f, S)
  <2>1. SumFunctionOnSet(f, S) = f[x] + SumFunctionOnSet(f, S \ {x})
    BY SumWithout
  <2>2. SumFunctionOnSet(f, S \ {x}) \in Nat /\ SumFunctionOnSet(f, S) \in Nat
    BY <1>3
  <2>3. QED
    BY <2>1, <2>2
<1>5. QED
  BY <1>3, <1>4

(* The sum of what two functions have at each element. *)
LEMMA SumPlus ==
    ASSUME NEW S, IsFiniteSet(S), NEW f, NEW g, NEW h,
           \A x \in S : f[x] \in Int /\ g[x] \in Int /\ h[x] = f[x] + g[x]
    PROVE  SumFunctionOnSet(h, S) = SumFunctionOnSet(f, S) + SumFunctionOnSet(g, S)
<1> DEFINE P == {T \in SUBSET S :
                    SumFunctionOnSet(h, T) = SumFunctionOnSet(f, T) + SumFunctionOnSet(g, T)}
<1>0. IntOn(f, S) /\ IntOn(g, S) /\ IntOn(h, S)
  BY DEF IntOn
<1>1. {} \in P
  BY SumEmpty
<1>2. ASSUME NEW T \in SUBSET S, NEW x \in S \ T, T \in P PROVE With(T, x) \in P
  <2>1. f[x] \in Int /\ g[x] \in Int /\ h[x] = f[x] + g[x]
    OBVIOUS
  <2>2. /\ SumFunctionOnSet(f, T) \in Int
        /\ SumFunctionOnSet(f, With(T, x)) = f[x] + SumFunctionOnSet(f, T)
    BY <1>0, SumStep
  <2>3. /\ SumFunctionOnSet(g, T) \in Int
        /\ SumFunctionOnSet(g, With(T, x)) = g[x] + SumFunctionOnSet(g, T)
    BY <1>0, SumStep
  <2>4. /\ SumFunctionOnSet(h, T) \in Int
        /\ SumFunctionOnSet(h, With(T, x)) = h[x] + SumFunctionOnSet(h, T)
    BY <1>0, SumStep
  <2>5. SumFunctionOnSet(h, T) = SumFunctionOnSet(f, T) + SumFunctionOnSet(g, T)
    BY <1>2
  <2>6. SumFunctionOnSet(h, With(T, x))
            = SumFunctionOnSet(f, With(T, x)) + SumFunctionOnSet(g, With(T, x))
    BY <2>1, <2>2, <2>3, <2>4, <2>5
  <2>7. QED
    BY <2>6 DEF With
<1>3. S \in P
  <2> HIDE DEF P
  <2> QED BY <1>1, <1>2, SetInduction
<1>4. QED
  BY <1>3

(* The sum of multiples. *)
LEMMA SumTimes ==
    ASSUME NEW S, IsFiniteSet(S), NEW k \in Int, NEW f, NEW h,
           \A x \in S : f[x] \in Int,
           \A x \in S : h[x] = k * f[x]
    PROVE  SumFunctionOnSet(h, S) = k * SumFunctionOnSet(f, S)
<1> DEFINE P == {T \in SUBSET S : SumFunctionOnSet(h, T) = k * SumFunctionOnSet(f, T)}
<1>0. IntOn(f, S) /\ IntOn(h, S)
  BY DEF IntOn
<1>1. {} \in P
  BY SumEmpty
<1>2. ASSUME NEW T \in SUBSET S, NEW x \in S \ T, T \in P PROVE With(T, x) \in P
  <2> HIDE DEF P
  <2>1. f[x] \in Int /\ h[x] = k * f[x]
    OBVIOUS
  <2>2. /\ SumFunctionOnSet(f, T) \in Int
        /\ SumFunctionOnSet(f, With(T, x)) = f[x] + SumFunctionOnSet(f, T)
    BY <1>0, SumStep
  <2>3. /\ SumFunctionOnSet(h, T) \in Int
        /\ SumFunctionOnSet(h, With(T, x)) = h[x] + SumFunctionOnSet(h, T)
    BY <1>0, SumStep
  <2>4. SumFunctionOnSet(h, T) = k * SumFunctionOnSet(f, T)
    BY <1>2 DEF P
  <2>5. \A a, b \in Int : k * a + k * b = k * (a + b)
    OBVIOUS
  <2>6. SumFunctionOnSet(h, With(T, x)) = k * SumFunctionOnSet(f, With(T, x))
    BY <2>1, <2>2, <2>3, <2>4, <2>5
  <2>7. QED
    BY <2>6 DEF P, With
<1>3. S \in P
  <2> HIDE DEF P
  <2> QED BY <1>1, <1>2, SetInduction
<1>4. QED
  BY <1>3

(* Sums compare as what is summed does. *)
LEMMA SumAtMost ==
    ASSUME NEW S, IsFiniteSet(S), NEW f, NEW g,
           \A x \in S : f[x] \in Int /\ g[x] \in Int /\ f[x] <= g[x]
    PROVE  SumFunctionOnSet(f, S) <= SumFunctionOnSet(g, S)
<1> DEFINE h == [x \in S |-> g[x] - f[x]]
<1>1. SumFunctionOnSet(h, S) \in Nat
  <2>1. \A x \in S : h[x] \in Nat
    OBVIOUS
  <2> HIDE DEF h
  <2>2. QED
    BY <2>1, SumNat
<1>2. \A x \in S : f[x] \in Int /\ h[x] \in Int /\ g[x] = f[x] + h[x]
  OBVIOUS
<1>3. SumFunctionOnSet(g, S) = SumFunctionOnSet(f, S) + SumFunctionOnSet(h, S)
  <2> HIDE DEF h
  <2> QED BY <1>2, SumPlus
<1>4. SumFunctionOnSet(f, S) \in Int
  BY SumWithout
<1>5. QED
  <2> HIDE DEF h
  <2> QED BY <1>1, <1>3, <1>4

LEMMA SumSame ==
    ASSUME NEW S, IsFiniteSet(S), NEW f, NEW g,
           \A x \in S : f[x] \in Int /\ f[x] = g[x]
    PROVE  SumFunctionOnSet(f, S) = SumFunctionOnSet(g, S)
<1>1. /\ \A x \in S : f[x] \in Int /\ g[x] \in Int /\ f[x] <= g[x]
      /\ \A x \in S : g[x] \in Int /\ f[x] \in Int /\ g[x] <= f[x]
  OBVIOUS
<1>2. /\ SumFunctionOnSet(f, S) <= SumFunctionOnSet(g, S)
      /\ SumFunctionOnSet(g, S) <= SumFunctionOnSet(f, S)
  BY <1>1, SumAtMost
<1>3. SumFunctionOnSet(f, S) \in Int /\ SumFunctionOnSet(g, S) \in Int
  BY <1>1, SumWithout
<1>4. QED
  BY <1>2, <1>3

(* The sum of the same number at each element. *)
LEMMA SumConstant ==
    ASSUME NEW S, IsFiniteSet(S), NEW k \in Int, NEW f, \A x \in S : f[x] = k
    PROVE  SumFunctionOnSet(f, S) = k * Cardinality(S)
<1> DEFINE P == {T \in SUBSET S : SumFunctionOnSet(f, T) = k * Cardinality(T)}
<1>0. IntOn(f, S)
  BY DEF IntOn
<1>1. {} \in P
  BY SumEmpty, FS_EmptySet
<1>2. ASSUME NEW T \in SUBSET S, NEW x \in S \ T, T \in P PROVE With(T, x) \in P
  <2>1. SumFunctionOnSet(f, With(T, x)) = k + SumFunctionOnSet(f, T)
    <3>1. SumFunctionOnSet(f, With(T, x)) = f[x] + SumFunctionOnSet(f, T)
      BY <1>0, SumStep
    <3>2. QED
      BY <3>1
  <2>2. Cardinality(T) \in Nat /\ Cardinality(With(T, x)) = Cardinality(T) + 1
    BY FS_Subset, FS_CardinalityType, FS_AddElement DEF With
  <2>3. SumFunctionOnSet(f, T) = k * Cardinality(T)
    BY <1>2
  <2>4. \A n \in Nat : k + k * n = k * (n + 1)
    OBVIOUS
  <2>5. SumFunctionOnSet(f, With(T, x)) = k * Cardinality(With(T, x))
    BY <2>1, <2>2, <2>3, <2>4
  <2>6. QED
    BY <2>5 DEF With
<1>3. S \in P
  <2> HIDE DEF P
  <2> QED BY <1>1, <1>2, SetInduction
<1>4. QED
  BY <1>3

(* The sum after a change at one element. *)
LEMMA SumChange ==
    ASSUME NEW S, IsFiniteSet(S), NEW f, NEW g, NEW x \in S, NEW k \in Int,
           \A y \in S : f[y] \in Int,
           \A y \in S \ {x} : g[y] = f[y],
           g[x] = f[x] + k
    PROVE  SumFunctionOnSet(g, S) = SumFunctionOnSet(f, S) + k
<1> DEFINE R == S \ {x}
<1>1. IsFiniteSet(R)
  BY FS_RemoveElement
<1>2. SumFunctionOnSet(g, R) = SumFunctionOnSet(f, R) /\ SumFunctionOnSet(f, R) \in Int
  <2>1. \A y \in R : f[y] \in Int /\ f[y] = g[y]
    OBVIOUS
  <2> HIDE DEF R
  <2>2. QED
    BY <1>1, <2>1, SumSame, SumWithout
<1>3. /\ \A y \in S : g[y] \in Int
      /\ f[x] \in Int
  OBVIOUS
<1>4. /\ SumFunctionOnSet(f, S) = f[x] + SumFunctionOnSet(f, R)
      /\ SumFunctionOnSet(g, S) = g[x] + SumFunctionOnSet(g, R)
  BY <1>3, SumWithout
<1>5. QED
  <2> HIDE DEF R
  <2> QED BY <1>2, <1>3, <1>4

(* What the elements of I that m takes to c add up to, for each c: together *)
(* all of I.                                                               *)
LEMMA SumOfShares ==
    ASSUME NEW I, IsFiniteSet(I), NEW C, IsFiniteSet(C), NEW m \in [I -> C],
           NEW f, \A i \in I : f[i] \in Int
    PROVE  SumFunctionOnSet([c \in C |-> SumFunctionOnSet(f, {i \in I : m[i] = c})], C)
               = SumFunctionOnSet(f, I)
<1> DEFINE Of(J, c) == {i \in J : m[i] = c}
           Shares(J) == [c \in C |-> SumFunctionOnSet(f, Of(J, c))]
           P == {J \in SUBSET I : SumFunctionOnSet(Shares(J), C) = SumFunctionOnSet(f, J)}
<1>0. IntOn(f, I)
  BY DEF IntOn
<1>1. {} \in P
  <2>1. \A c \in C : Shares({})[c] = 0
    BY SumEmpty
  <2>2. Cardinality(C) \in Nat
    BY FS_CardinalityType
  <2> HIDE DEF Shares
  <2>3. SumFunctionOnSet(Shares({}), C) = 0 * Cardinality(C)
    BY <2>1, SumConstant
  <2>4. QED
    BY <2>2, <2>3, SumEmpty
<1>2. ASSUME NEW J \in SUBSET I, NEW x \in I \ J, J \in P PROVE With(J, x) \in P
  <2> DEFINE K == With(J, x)
  <2>1. ASSUME NEW c \in C PROVE Shares(J)[c] \in Int
    <3>1. Of(J, c) \in SUBSET I
      OBVIOUS
    <3> HIDE DEF Of
    <3>2. IsFiniteSet(Of(J, c)) /\ \A i \in Of(J, c) : f[i] \in Int
      BY <3>1, FS_Subset
    <3>3. SumFunctionOnSet(f, Of(J, c)) \in Int
      BY <3>2, SumWithout
    <3>4. QED
      BY <3>3
  <2>2. ASSUME NEW c \in C \ {m[x]} PROVE Shares(K)[c] = Shares(J)[c]
    <3>1. Of(K, c) = Of(J, c)
      BY DEF With
    <3>2. QED
      BY <3>1
  <2>3. Shares(K)[m[x]] = Shares(J)[m[x]] + f[x]
    <3>1. Of(K, m[x]) = With(Of(J, m[x]), x) /\ x \in I \ Of(J, m[x]) /\ Of(J, m[x]) \in SUBSET I
      BY DEF With
    <3> HIDE DEF Of
    <3>2. /\ SumFunctionOnSet(f, Of(J, m[x])) \in Int
          /\ SumFunctionOnSet(f, Of(K, m[x])) = f[x] + SumFunctionOnSet(f, Of(J, m[x]))
      BY <1>0, <3>1, SumStep
    <3>3. m[x] \in C /\ f[x] \in Int
      OBVIOUS
    <3>4. Shares(K)[m[x]] = SumFunctionOnSet(f, Of(K, m[x]))
          /\ Shares(J)[m[x]] = SumFunctionOnSet(f, Of(J, m[x]))
      BY <3>3
    <3> HIDE DEF Shares, K
    <3>5. QED
      BY <3>2, <3>3, <3>4
  <2>4. m[x] \in C /\ f[x] \in Int
    OBVIOUS
  <2>5. SumFunctionOnSet(Shares(K), C) = SumFunctionOnSet(Shares(J), C) + f[x]
    <3> HIDE DEF P, Shares, K
    <3>1. \A y \in C : Shares(J)[y] \in Int
      BY <2>1
    <3>2. \A y \in C \ {m[x]} : Shares(K)[y] = Shares(J)[y]
      BY <2>2
    <3>3. QED
      BY <2>3, <2>4, <3>1, <3>2, SumChange, Z3
  <2>6. SumFunctionOnSet(f, K) = f[x] + SumFunctionOnSet(f, J) /\ SumFunctionOnSet(f, J) \in Int
    BY <1>0, SumStep
  <2>7. SumFunctionOnSet(Shares(J), C) = SumFunctionOnSet(f, J)
    BY <1>2
  <2>8. SumFunctionOnSet(Shares(K), C) = SumFunctionOnSet(f, K)
    <3> HIDE DEF Shares, K
    <3> QED BY <2>4, <2>5, <2>6, <2>7
  <2>9. QED
    <3> HIDE DEF Shares
    <3> QED BY <2>8 DEF With
<1>3. I \in P
  <2> HIDE DEF P
  <2> QED BY <1>1, <1>2, SetInduction
<1>4. QED
  BY <1>3

-----------------------------------------------------------------------------
(* Hands. *)

LEMMA RanksAreFinite == IsFiniteSet(Ranks)
<1> DEFINE n == [r \in DOMAIN rankValues |->
                    CASE r = "ACE" -> 1 [] r = "TWO" -> 2 [] r = "THREE" -> 3
                      [] r = "FOUR" -> 4 [] r = "FIVE" -> 5 [] r = "SIX" -> 6
                      [] r = "SEVEN" -> 7 [] r = "EIGHT" -> 8 [] r = "NINE" -> 9
                      [] r = "TEN" -> 10 [] r = "JACK" -> 11 [] r = "QUEEN" -> 12
                      [] r = "KING" -> 13]
<1>1. DOMAIN rankValues = {"ACE", "TWO", "THREE", "FOUR", "FIVE", "SIX", "SEVEN", "EIGHT",
                           "NINE", "TEN", "JACK", "QUEEN", "KING"}
  BY DEF rankValues
<1>2. n \in Injection(DOMAIN rankValues, 1 .. 13)
  BY <1>1 DEF Injection, IsInjective
<1>3. IsFiniteSet(DOMAIN rankValues)
  <2> DEFINE D == DOMAIN rankValues
             I == 1 .. 13
  <2>1. IsFiniteSet(I)
    <3>1. \A m \in Int : IsFiniteSet(1 .. m)
      BY FS_Interval
    <3> DEFINE last == 13
    <3>2. last \in Int
      OBVIOUS
    <3> HIDE DEF last
    <3>3. IsFiniteSet(1 .. last)
      BY <3>1, <3>2
    <3>4. QED
      BY <3>3, Zenon DEF last
  <2> HIDE DEF n, D, I
  <2>2. n \in Injection(D, I)
    BY <1>2 DEF D, I
  <2>3. IsFiniteSet(D)
    BY <2>1, <2>2, FS_Injection
  <2>4. QED
    BY <2>3 DEF D
<1>4. QED
  BY <1>3, RanksAssumption, FS_Subset

(* What the ranks count. *)
LEMMA RankValues ==
    /\ \A r \in Ranks : /\ rankValues[r] \in Nat /\ 1 <= rankValues[r] /\ rankValues[r] <= 10
                        /\ softValues[r] \in Nat /\ rankValues[r] <= softValues[r]
    /\ rankValues["ACE"] = 1 /\ softValues["ACE"] = 11
    /\ \A r \in {"TEN", "JACK", "QUEEN", "KING"} : rankValues[r] = 10 /\ softValues[r] = 10
BY RanksAssumption DEF rankValues, softValues, ACE_SOFT_VALUE

IsValuation(values) == \A r \in Ranks : values[r] \in Nat

LEMMA Valuations == IsValuation(rankValues) /\ IsValuation(softValues)
BY RankValues DEF IsValuation

LEMMA CountedNat ==
    ASSUME NEW h \in AllHands, NEW w, IsValuation(w)
    PROVE  /\ Counted(h, w) \in Nat
           /\ Size(h) \in Nat
           /\ \A r \in Ranks : h[r] <= Size(h)
<1> DEFINE p == [r \in Ranks |-> h[r] * w[r]]
<1>1. /\ \A r \in Ranks : p[r] \in Nat
      /\ \A r \in Ranks : h[r] \in Nat
  BY DEF AllHands, IsValuation
<1>2. SumFunctionOnSet(p, Ranks) \in Nat
  <2> HIDE DEF p
  <2> QED BY <1>1, RanksAreFinite, SumNat
<1>3. SumFunctionOnSet(h, Ranks) \in Nat /\ \A r \in Ranks : h[r] <= SumFunctionOnSet(h, Ranks)
  BY <1>1, RanksAreFinite, SumNat
<1>4. QED
  BY <1>2, <1>3 DEF Counted, Size

LEMMA CountedEmpty ==
    ASSUME NEW w, IsValuation(w)
    PROVE  EmptyHand \in AllHands /\ Counted(EmptyHand, w) = 0 /\ Size(EmptyHand) = 0
<1> DEFINE p == [r \in Ranks |-> EmptyHand[r] * w[r]]
<1>1. /\ \A r \in Ranks : p[r] = 0
      /\ \A r \in Ranks : EmptyHand[r] = 0
      /\ EmptyHand \in AllHands
  BY DEF EmptyHand, AllHands, IsValuation
<1>2. IsFiniteSet(Ranks) /\ Cardinality(Ranks) \in Nat
  BY RanksAreFinite, FS_CardinalityType
<1>3. SumFunctionOnSet(p, Ranks) = 0
  <2> HIDE DEF p
  <2>1. SumFunctionOnSet(p, Ranks) = 0 * Cardinality(Ranks)
    BY <1>1, <1>2, SumConstant
  <2>2. QED
    BY <1>2, <2>1
<1>4. SumFunctionOnSet(EmptyHand, Ranks) = 0 * Cardinality(Ranks)
  BY <1>1, <1>2, SumConstant
<1>5. QED
  BY <1>1, <1>2, <1>3, <1>4 DEF Counted, Size

(* A card adds its value. *)
LEMMA CountedAddCard ==
    ASSUME NEW h \in AllHands, NEW r \in Ranks, NEW w, IsValuation(w)
    PROVE  /\ AddCard(h, r) \in AllHands
           /\ Counted(AddCard(h, r), w) = Counted(h, w) + w[r]
           /\ Size(AddCard(h, r)) = Size(h) + 1
<1> DEFINE g == AddCard(h, r)
           p == [x \in Ranks |-> h[x] * w[x]]
           q == [x \in Ranks |-> g[x] * w[x]]
<1>1. /\ \A x \in Ranks : h[x] \in Nat /\ w[x] \in Nat
      /\ g[r] = h[r] + 1
      /\ \A x \in Ranks \ {r} : g[x] = h[x]
      /\ g \in AllHands
  BY DEF AllHands, AddCard, IsValuation
<1>2. /\ \A x \in Ranks : p[x] \in Int
      /\ \A x \in Ranks \ {r} : q[x] = p[x]
      /\ q[r] = p[r] + w[r]
  <2> HIDE DEF g
  <2>1. (h[r] + 1) * w[r] = h[r] * w[r] + w[r]
    BY <1>1
  <2>2. QED
    BY <1>1, <2>1
<1>3. SumFunctionOnSet(q, Ranks) = SumFunctionOnSet(p, Ranks) + w[r]
  <2> HIDE DEF g, p, q
  <2>1. w[r] \in Int
    BY <1>1
  <2>2. QED
    BY <1>2, <2>1, RanksAreFinite, SumChange
<1>4. SumFunctionOnSet(g, Ranks) = SumFunctionOnSet(h, Ranks) + 1
  <2> HIDE DEF g
  <2>1. \A x \in Ranks : h[x] \in Int
    BY <1>1
  <2>2. QED
    BY <1>1, <2>1, RanksAreFinite, SumChange
<1>5. QED
  BY <1>1, <1>3, <1>4 DEF Counted, Size

(* What two hands count together. *)
LEMMA CountedPlus ==
    ASSUME NEW h \in AllHands, NEW g \in AllHands, NEW w, IsValuation(w),
           NEW u, \A r \in Ranks : u[r] = h[r] + g[r]
    PROVE  /\ Counted(u, w) = Counted(h, w) + Counted(g, w)
           /\ Size(u) = Size(h) + Size(g)
<1> DEFINE p == [r \in Ranks |-> h[r] * w[r]]
           q == [r \in Ranks |-> g[r] * w[r]]
           s == [r \in Ranks |-> u[r] * w[r]]
<1>1. ASSUME NEW r \in Ranks
      PROVE  /\ h[r] \in Int /\ g[r] \in Int /\ u[r] = h[r] + g[r]
             /\ p[r] \in Int /\ q[r] \in Int /\ s[r] = p[r] + q[r]
  <2>1. h[r] \in Nat /\ g[r] \in Nat /\ w[r] \in Nat /\ u[r] = h[r] + g[r]
    BY DEF AllHands, IsValuation
  <2>2. (h[r] + g[r]) * w[r] = h[r] * w[r] + g[r] * w[r]
    BY <2>1
  <2>3. QED
    BY <2>1, <2>2
<1>2. SumFunctionOnSet(s, Ranks) = SumFunctionOnSet(p, Ranks) + SumFunctionOnSet(q, Ranks)
  <2> HIDE DEF p, q, s
  <2> QED BY <1>1, RanksAreFinite, SumPlus
<1>3. SumFunctionOnSet(u, Ranks) = SumFunctionOnSet(h, Ranks) + SumFunctionOnSet(g, Ranks)
  <2> HIDE DEF p, q, s
  <2> QED BY <1>1, RanksAreFinite, SumPlus
<1>4. QED
  BY <1>2, <1>3 DEF Counted, Size

(* A hand counts at most the highest value for each of its cards. *)
LEMMA CountedAtMost ==
    ASSUME NEW h \in AllHands, NEW w, IsValuation(w), NEW k \in Nat,
           \A r \in Ranks : w[r] <= k
    PROVE  Counted(h, w) <= k * Size(h)
<1> DEFINE p == [r \in Ranks |-> h[r] * w[r]]
           q == [r \in Ranks |-> k * h[r]]
<1>1. ASSUME NEW r \in Ranks
      PROVE  p[r] \in Int /\ q[r] \in Int /\ p[r] <= q[r] /\ h[r] \in Int
  <2>1. h[r] \in Nat /\ w[r] \in Nat /\ w[r] <= k
    BY DEF AllHands, IsValuation
  <2>2. \A a, b \in Nat : b <= k => a * b <= k * a
    OBVIOUS
  <2>3. QED
    BY <2>1, <2>2
<1>2. SumFunctionOnSet(p, Ranks) <= SumFunctionOnSet(q, Ranks)
  <2> HIDE DEF p, q
  <2> QED BY <1>1, RanksAreFinite, SumAtMost
<1>3. SumFunctionOnSet(q, Ranks) = k * SumFunctionOnSet(h, Ranks)
  <2>1. \A r \in Ranks : h[r] \in Int /\ q[r] = k * h[r]
    BY <1>1
  <2> HIDE DEF p, q
  <2>2. QED
    BY <2>1, RanksAreFinite, SumTimes
<1>4. QED
  BY <1>2, <1>3 DEF Counted, Size

(* The hands of T, put together. *)
Together(hs, T) == [r \in Ranks |-> SumFunctionOnSet([i \in T |-> hs[i][r]], T)]

LEMMA TogetherWith ==
    ASSUME NEW S, IsFiniteSet(S), NEW hs, \A i \in S : hs[i] \in AllHands,
           NEW T \in SUBSET S
    PROVE  /\ Together(hs, T) \in AllHands
           /\ \A x \in S \ T : \A r \in Ranks :
                 Together(hs, With(T, x))[r] = hs[x][r] + Together(hs, T)[r]
<1> DEFINE all(r) == [i \in S |-> hs[i][r]]
           some(r, U) == [i \in U |-> hs[i][r]]
<1>1. ASSUME NEW r \in Ranks, NEW U \in SUBSET S
      PROVE  /\ SumFunctionOnSet(some(r, U), U) = SumFunctionOnSet(all(r), U)
             /\ SumFunctionOnSet(all(r), U) \in Nat
             /\ IntOn(all(r), S)
             /\ Together(hs, U)[r] = SumFunctionOnSet(all(r), U)
  <2>1. /\ \A i \in U : some(r, U)[i] \in Int /\ some(r, U)[i] = all(r)[i]
        /\ \A i \in U : all(r)[i] \in Nat
        /\ IntOn(all(r), S)
    BY DEF AllHands, IntOn
  <2>2. IsFiniteSet(U)
    BY FS_Subset
  <2>3. Together(hs, U)[r] = SumFunctionOnSet(some(r, U), U)
    BY DEF Together
  <2> HIDE DEF all, some
  <2>4. /\ SumFunctionOnSet(some(r, U), U) = SumFunctionOnSet(all(r), U)
        /\ SumFunctionOnSet(all(r), U) \in Nat
    BY <2>1, <2>2, SumSame, SumNat
  <2>5. QED
    BY <2>1, <2>3, <2>4
<1>2. Together(hs, T) \in AllHands
  <2>1. \A r \in Ranks : Together(hs, T)[r] \in Nat
    BY <1>1
  <2>2. Together(hs, T) = [r \in Ranks |-> Together(hs, T)[r]]
    BY DEF Together
  <2>3. QED
    BY <2>1, <2>2 DEF AllHands
<1>3. ASSUME NEW x \in S \ T, NEW r \in Ranks
      PROVE  Together(hs, With(T, x))[r] = hs[x][r] + Together(hs, T)[r]
  <2>1. With(T, x) \in SUBSET S
    BY DEF With
  <2>2. all(r)[x] = hs[x][r]
    OBVIOUS
  <2>3. /\ Together(hs, With(T, x))[r] = SumFunctionOnSet(all(r), With(T, x))
        /\ Together(hs, T)[r] = SumFunctionOnSet(all(r), T)
        /\ IntOn(all(r), S)
    BY <1>1, <2>1
  <2> HIDE DEF all
  <2>4. QED
    BY <2>2, <2>3, SumStep
<1>4. QED
  BY <1>2, <1>3

(* Put together, hands count the sum of what each counts. *)
LEMMA CountedTogether ==
    ASSUME NEW S, IsFiniteSet(S), NEW hs, \A i \in S : hs[i] \in AllHands,
           NEW w, IsValuation(w), NEW c, \A i \in S : c[i] = Counted(hs[i], w)
    PROVE  Counted(Together(hs, S), w) = SumFunctionOnSet(c, S)
<1> DEFINE P == {T \in SUBSET S : Counted(Together(hs, T), w) = SumFunctionOnSet(c, T)}
<1>0. IntOn(c, S)
  BY CountedNat DEF IntOn
<1>1. {} \in P
  <2>1. Together(hs, {}) = EmptyHand
    BY SumEmpty DEF Together, EmptyHand
  <2>2. QED
    BY <2>1, CountedEmpty, SumEmpty
<1>2. ASSUME NEW T \in SUBSET S, NEW x \in S \ T, T \in P PROVE With(T, x) \in P
  <2>1. /\ Together(hs, T) \in AllHands
        /\ \A r \in Ranks : Together(hs, With(T, x))[r] = hs[x][r] + Together(hs, T)[r]
    BY TogetherWith
  <2>2. hs[x] \in AllHands
    OBVIOUS
  <2> HIDE DEF P
  <2>3. Counted(Together(hs, With(T, x)), w) = Counted(hs[x], w) + Counted(Together(hs, T), w)
    BY <2>1, <2>2, CountedPlus
  <2>4. SumFunctionOnSet(c, With(T, x)) = c[x] + SumFunctionOnSet(c, T)
    BY <1>0, SumStep
  <2>5. c[x] = Counted(hs[x], w)
    OBVIOUS
  <2>6. Counted(Together(hs, T), w) = SumFunctionOnSet(c, T)
    BY <1>2 DEF P
  <2>7. QED
    BY <2>3, <2>4, <2>5, <2>6 DEF P, With
<1>3. S \in P
  <2> HIDE DEF P
  <2> QED BY <1>1, <1>2, SetInduction
<1>4. QED
  BY <1>3

-----------------------------------------------------------------------------
(* Blackjacks and results. *)

(* An ace and a card that counts ten, and nothing else: 21 with the ace    *)
(* as 11.                                                                  *)
LEMMA BlackjackCounts21 ==
    ASSUME NEW h \in AllHands, hasBlackjack(h)
    PROVE  getHardHandValue(h) = 11 /\ getSoftHandValue(h) = 21
<1>1. PICK t \in {"TEN", "JACK", "QUEEN", "KING"} : handContainsRank(h, t)
  BY DEF hasBlackjack
<1>2. /\ "ACE" \in Ranks /\ t \in Ranks /\ "ACE" # t
      /\ h["ACE"] \in Nat /\ h["ACE"] >= 1 /\ h[t] \in Nat /\ h[t] >= 1
      /\ \A r \in Ranks : h[r] \in Nat
  BY <1>1 DEF hasBlackjack, handContainsRank, AllHands
<1> DEFINE A == Ranks \ {"ACE"}
           R == A \ {t}
<1>3. IsFiniteSet(A) /\ IsFiniteSet(R)
  BY RanksAreFinite, FS_RemoveElement
<1>4. /\ SumFunctionOnSet(h, Ranks) = h["ACE"] + SumFunctionOnSet(h, A)
      /\ SumFunctionOnSet(h, A) = h[t] + SumFunctionOnSet(h, R)
      /\ SumFunctionOnSet(h, R) \in Nat
      /\ \A r \in R : h[r] <= SumFunctionOnSet(h, R)
  <2>1. /\ \A r \in Ranks : h[r] \in Int
        /\ \A r \in A : h[r] \in Int
        /\ \A r \in R : h[r] \in Nat
        /\ t \in A
    BY <1>2
  <2>2. SumFunctionOnSet(h, Ranks) = h["ACE"] + SumFunctionOnSet(h, A)
    BY <1>2, <2>1, RanksAreFinite, SumWithout
  <2> HIDE DEF R
  <2>3. /\ SumFunctionOnSet(h, R) \in Nat
        /\ \A r \in R : h[r] <= SumFunctionOnSet(h, R)
    BY <1>3, <2>1, SumNat
  <2> HIDE DEF A
  <2>4. SumFunctionOnSet(h, A) = h[t] + SumFunctionOnSet(h, R)
    BY <1>3, <2>1, SumWithout DEF R
  <2>5. QED
    BY <2>2, <2>3, <2>4
<1>5. SumFunctionOnSet(h, Ranks) = 2
  BY DEF hasBlackjack, Size
<1>6. h["ACE"] = 1 /\ h[t] = 1 /\ SumFunctionOnSet(h, R) = 0
  <2> HIDE DEF R, A
  <2> QED BY <1>2, <1>4, <1>5
<1>7. \A r \in R : h[r] = 0
  <2> HIDE DEF R
  <2>1. \A r \in R : h[r] \in Nat
    BY <1>2 DEF R
  <2>2. QED
    BY <1>4, <1>6, <2>1
<1> DEFINE g == AddCard(EmptyHand, "ACE")
<1>8. h = AddCard(g, t)
  <2>1. /\ h = [r \in Ranks |-> h[r]]
        /\ AddCard(g, t) = [r \in Ranks |-> IF r = "ACE" \/ r = t THEN 1 ELSE 0]
    <3>1. g = [r \in Ranks |-> IF r = "ACE" THEN 1 ELSE 0]
      <4>1. g = [r \in Ranks |-> IF r = "ACE" THEN EmptyHand["ACE"] + 1 ELSE EmptyHand[r]]
        BY DEF AddCard, EmptyHand
      <4>2. EmptyHand["ACE"] = 0 /\ \A r \in Ranks : EmptyHand[r] = 0
        BY <1>2 DEF EmptyHand
      <4>3. QED
        BY <4>1, <4>2
    <3> HIDE DEF g
    <3>2. AddCard(g, t) = [r \in Ranks |-> IF r = t THEN g[t] + 1 ELSE g[r]]
      BY <3>1 DEF AddCard
    <3>3. g[t] = 0 /\ \A r \in Ranks : g[r] = IF r = "ACE" THEN 1 ELSE 0
      BY <1>2, <3>1
    <3>4. QED
      BY <1>2, <3>2, <3>3 DEF AllHands
  <2>2. \A r \in Ranks : h[r] = IF r = "ACE" \/ r = t THEN 1 ELSE 0
    BY <1>6, <1>7
  <2>3. QED
    BY <2>1, <2>2
<1>9. ASSUME NEW w, IsValuation(w) PROVE Counted(h, w) = w["ACE"] + w[t]
  <2>1. g \in AllHands /\ Counted(g, w) = 0 + w["ACE"]
    BY <1>2, <1>9, CountedEmpty, CountedAddCard
  <2>2. Counted(AddCard(g, t), w) = Counted(g, w) + w[t]
    <3> HIDE DEF g
    <3> QED BY <1>2, <1>9, <2>1, CountedAddCard
  <2>3. w["ACE"] \in Nat
    BY <1>2, <1>9 DEF IsValuation
  <2>4. QED
    BY <1>8, <2>1, <2>2, <2>3
<1>10. /\ Counted(h, rankValues) = rankValues["ACE"] + rankValues[t]
       /\ Counted(h, softValues) = softValues["ACE"] + softValues[t]
  BY <1>9, Valuations
<1>11. QED
  BY <1>10, RankValues DEF getHardHandValue, getSoftHandValue

LEMMA ValuesOfAHand ==
    ASSUME NEW h \in AllHands
    PROVE  /\ getHardHandValue(h) \in Nat /\ getSoftHandValue(h) \in Nat
           /\ getTotal(h) \in Nat
           /\ ~ isBusted(h) => getTotal(h) <= 21
<1>1. getHardHandValue(h) \in Nat /\ getSoftHandValue(h) \in Nat
  BY CountedNat, Valuations DEF getHardHandValue, getSoftHandValue
<1>2. QED
  BY <1>1 DEF getTotal, isBusted, BLACKJACK

(* Who is paid, and for what. *)
LEMMA AmountIsDeserved ==
    ASSUME NEW p \in AllHands, NEW d \in AllHands, NEW b \in Nat
    PROVE  /\ AmountWon(p, d, b) > 0 =>
                 /\ ~ isBusted(p)
                 /\ \/ isBusted(d)
                    \/ getTotal(p) > getTotal(d)
                    \/ (hasBlackjack(p) /\ getTotal(p) = getTotal(d))
           /\ hasBlackjack(p) => AmountWon(p, d, b) >= b
<1>1. getTotal(p) \in Nat /\ getTotal(d) \in Nat /\ (~ isBusted(d) => getTotal(d) <= 21)
  BY ValuesOfAHand
<1>2. hasBlackjack(p) => getTotal(p) = 21 /\ ~ isBusted(p)
  <2>1. hasBlackjack(p) => getHardHandValue(p) = 11 /\ getSoftHandValue(p) = 21
    BY BlackjackCounts21
  <2>2. QED
    BY <2>1 DEF getTotal, isBusted, BLACKJACK
<1>3. TwoAndAHalf(b) >= b /\ 2 * b >= b
  BY DEF TwoAndAHalf
<1>4. hasBlackjack(p) => AmountWon(p, d, b) >= b
  BY <1>2, <1>3 DEF AmountWon
<1>5. ASSUME AmountWon(p, d, b) > 0, ~ isBusted(d)
      PROVE  getTotal(p) > getTotal(d) \/ (hasBlackjack(p) /\ getTotal(p) = getTotal(d))
  <2>1. hasBlackjack(p) \/ getTotal(p) > getTotal(d)
    BY <1>5 DEF AmountWon
  <2>2. CASE hasBlackjack(p)
    <3>1. getTotal(p) = 21 /\ getTotal(d) \in Nat /\ getTotal(d) <= 21
      BY <1>1, <1>2, <1>5, <2>2
    <3>2. QED
      BY <2>2, <3>1
  <2>3. QED
    BY <2>1, <2>2
<1>6. AmountWon(p, d, b) > 0 => ~ isBusted(p)
  BY DEF AmountWon
<1>7. QED
  BY <1>4, <1>5, <1>6
=============================================================================
