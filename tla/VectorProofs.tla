---------------------------- MODULE VectorProofs ----------------------------
(***************************************************************************)
(* What the operators of module Vector return.  Without is a recursive     *)
(* function on the positions of a sequence, so its facts need induction    *)
(* over an interval, for a set of positions rather than for a predicate.   *)
(***************************************************************************)
EXTENDS Vector, FiniteSetTheorems, WellFoundedInduction, TLAPS

(* Every set of natural numbers has a least element: the intervals 1 .. m  *)
(* for m in S are finite sets, and strict inclusion of those is            *)
(* well-founded.                                                           *)
LEMMA LeastNumber ==
    ASSUME NEW S \in SUBSET Nat, S # {}
    PROVE  \E n \in S : \A m \in S : n <= m
<1> DEFINE T == {1 .. m : m \in S}
<1>1. IsWellFoundedOn(StrictSubsetOrdering(Nat), FiniteSubsetsOf(Nat))
  BY FS_StrictSubsetOrderingWellFounded
<1>2. T \subseteq FiniteSubsetsOf(Nat)
  <2>1. ASSUME NEW m \in S PROVE 1 .. m \in FiniteSubsetsOf(Nat)
    BY FS_Interval DEF FiniteSubsetsOf
  <2>2. QED
    BY <2>1
<1>3. PICK x \in T : \A y \in T : ~ (<<y, x>> \in StrictSubsetOrdering(Nat))
  <2>1. T # {}
    OBVIOUS
  <2>2. QED
    BY <1>1, <1>2, <2>1, WFMin
<1>4. PICK n \in S : x = 1 .. n
  OBVIOUS
<1>5. ASSUME NEW m \in S PROVE n <= m
  <2>1. ~ (<<1 .. m, 1 .. n>> \in StrictSubsetOrdering(Nat))
    BY <1>3, <1>4
  <2>2. CASE m < n
    <3>1. /\ 1 .. m \in SUBSET Nat /\ 1 .. n \in SUBSET Nat
          /\ 1 .. m \subseteq 1 .. n /\ n \in 1 .. n /\ n \notin 1 .. m
      BY <2>2
    <3>2. <<1 .. m, 1 .. n>> \in StrictSubsetOrdering(Nat)
      BY <3>1, Zenon DEF StrictSubsetOrdering
    <3>3. QED
      BY <2>1, <3>2
  <2>3. QED
    BY <2>2
<1>6. QED
  BY <1>5

(* Induction over the interval 0 .. n: a set with 0 and with the successor *)
(* of each of its members below n has all of it.                           *)
LEMMA IntervalInduction ==
    ASSUME NEW n \in Nat, NEW P,
           0 \in P,
           \A i \in 1 .. n : i - 1 \in P => i \in P
    PROVE  \A i \in 0 .. n : i \in P
<1> DEFINE Bad == {i \in 0 .. n : i \notin P}
<1> SUFFICES ASSUME Bad # {} PROVE FALSE
  OBVIOUS
<1>1. Bad \in SUBSET Nat
  OBVIOUS
<1>2. PICK i \in Bad : \A j \in Bad : i <= j
  <2> HIDE DEF Bad
  <2> QED BY <1>1, LeastNumber
<1>3. i \in 1 .. n /\ i - 1 \in 0 .. n
  BY <1>2
<1>4. i - 1 \in P
  BY <1>2, <1>3
<1>5. QED
  BY <1>2, <1>3, <1>4

(* A new client at the end of a vector. *)
LEMMA AppendMembers ==
    ASSUME NEW S, NEW s \in Seq(S), NEW c \in S
    PROVE  Members(Append(s, c)) = Members(s) \union {c}
<1> DEFINE t == Append(s, c)
<1>1. /\ Len(s) \in Nat /\ DOMAIN s = 1 .. Len(s)
      /\ t \in Seq(S) /\ DOMAIN t = 1 .. Len(s) + 1
      /\ t[Len(s) + 1] = c
      /\ \A i \in 1 .. Len(s) : t[i] = s[i]
  OBVIOUS
<1> HIDE DEF t
<1>2. ASSUME NEW x \in Members(t) PROVE x \in Members(s) \union {c}
  <2>1. PICK i \in 1 .. Len(s) + 1 : x = t[i]
    BY <1>1 DEF Members
  <2>2. i = Len(s) + 1 \/ i \in 1 .. Len(s)
    BY <1>1
  <2>3. QED
    BY <1>1, <2>1, <2>2 DEF Members
<1>3. ASSUME NEW x \in Members(s) PROVE x \in Members(t)
  <2>1. PICK i \in 1 .. Len(s) : x = s[i]
    BY <1>1 DEF Members
  <2>2. i \in 1 .. Len(s) + 1 /\ x = t[i]
    BY <1>1, <2>1
  <2>3. QED
    BY <1>1, <2>2 DEF Members
<1>4. c \in Members(t)
  <2>1. Len(s) + 1 \in 1 .. Len(s) + 1
    BY <1>1
  <2>2. QED
    BY <1>1, <2>1 DEF Members
<1>5. Members(t) = Members(s) \union {c}
  BY <1>2, <1>3, <1>4
<1>6. QED
  BY <1>5 DEF t

(* F is the recursive function in the definition of Without. *)
IsKept(F, s, D) ==
    F = [i \in 0 .. Len(s) |->
            IF i = 0 THEN << >>
            ELSE IF s[i] \in D THEN F[i - 1] ELSE Append(F[i - 1], s[i])]

(* There is such a function. *)
LEMMA KeptExists ==
    ASSUME NEW S, NEW s \in Seq(S), NEW D
    PROVE  \E F : IsKept(F, s, D)
<1> DEFINE Body(F, i) == IF i = 0 THEN << >>
                         ELSE IF s[i] \in D THEN F[i - 1] ELSE Append(F[i - 1], s[i])
           Good(n) == \E F : F = [i \in 0 .. n |-> Body(F, i)]
           P == {n \in 0 .. Len(s) : Good(n)}
<1>1. 0 \in P
  <2> DEFINE F == [i \in 0 .. 0 |-> << >>]
  <2>1. F = [i \in 0 .. 0 |-> Body(F, i)]
    OBVIOUS
  <2>2. Good(0)
    <3> HIDE DEF F
    <3> QED BY <2>1
  <2>3. QED
    <3> HIDE DEF Good
    <3> QED BY <2>2
<1>2. ASSUME NEW n \in 1 .. Len(s), n - 1 \in P PROVE n \in P
  <2>1. PICK F : F = [i \in 0 .. n - 1 |-> Body(F, i)]
    BY <1>2
  <2> DEFINE G == [i \in 0 .. n |->
                      IF i = n THEN (IF s[n] \in D THEN F[n - 1] ELSE Append(F[n - 1], s[n]))
                      ELSE F[i]]
  <2>2. ASSUME NEW i \in 0 .. n PROVE G[i] = Body(G, i)
    <3>1. CASE i = n
      <4>1. G[n - 1] = F[n - 1]
        OBVIOUS
      <4>2. QED
        BY <4>1, <3>1
    <3>2. CASE i # n
      <4>1. G[i] = F[i] /\ i \in 0 .. n - 1
        BY <3>2
      <4>2. i # 0 => G[i - 1] = F[i - 1]
        BY <3>2
      <4>3. F[i] = Body(F, i)
        BY <2>1, <4>1
      <4>4. QED
        BY <4>1, <4>2, <4>3
    <3>3. QED
      BY <3>1, <3>2
  <2>3. G = [i \in 0 .. n |-> Body(G, i)]
    BY <2>2
  <2>4. Good(n)
    <3> HIDE DEF G
    <3> QED BY <2>3
  <2>5. QED
    <3> HIDE DEF Good
    <3> QED BY <2>4
<1>3. Len(s) \in P
  <2> HIDE DEF P
  <2>1. \A i \in 1 .. Len(s) : i - 1 \in P => i \in P
    BY <1>2
  <2>2. Len(s) \in Nat
    OBVIOUS
  <2>3. \A i \in 0 .. Len(s) : i \in P
    BY <1>1, <2>1, <2>2, IntervalInduction
  <2>4. QED
    BY <2>2, <2>3
<1>4. Good(Len(s))
  <2> HIDE DEF Good
  <2> QED BY <1>3
<1>5. QED
  BY <1>4 DEF IsKept

(* Erasing the elements of D leaves a vector of clients, which holds those *)
(* that were there and are not in D.                                       *)
THEOREM WithoutMembers ==
    ASSUME NEW S, NEW s \in Seq(S), NEW D
    PROVE  /\ Without(s, D) \in Seq(S)
           /\ Members(Without(s, D)) = Members(s) \ D
<1> DEFINE kept[i \in 0 .. Len(s)] ==
               IF i = 0 THEN << >>
               ELSE IF s[i] \in D THEN kept[i - 1] ELSE Append(kept[i - 1], s[i])
           First(i) == {s[j] : j \in 1 .. i}
           P == {i \in 0 .. Len(s) : /\ kept[i] \in Seq(S)
                                     /\ Members(kept[i]) = First(i) \ D}
<1>1. ASSUME NEW i \in 0 .. Len(s)
      PROVE  kept[i] = IF i = 0 THEN << >>
                       ELSE IF s[i] \in D THEN kept[i - 1] ELSE Append(kept[i - 1], s[i])
  <2>1. \E F : IsKept(F, s, D)
    BY KeptExists
  <2>2. kept = [j \in 0 .. Len(s) |->
                  IF j = 0 THEN << >>
                  ELSE IF s[j] \in D THEN kept[j - 1] ELSE Append(kept[j - 1], s[j])]
    BY <2>1 DEF IsKept
  <2>3. QED
    <3> HIDE DEF kept
    <3> QED BY <2>2
<1> HIDE DEF kept
<1>2. 0 \in P
  <2>1. kept[0] = << >>
    BY <1>1
  <2>2. /\ << >> \in Seq(S) /\ Members(<< >>) = {} /\ First(0) = {}
        /\ 0 \in 0 .. Len(s)
    BY DEF Members
  <2>3. QED
    BY <2>1, <2>2
<1>3. ASSUME NEW i \in 1 .. Len(s), i - 1 \in P PROVE i \in P
  <2>1. kept[i] = IF s[i] \in D THEN kept[i - 1] ELSE Append(kept[i - 1], s[i])
    BY <1>1
  <2>2. /\ kept[i - 1] \in Seq(S) /\ s[i] \in S
        /\ Members(kept[i - 1]) = First(i - 1) \ D
    BY <1>3
  <2>3. First(i) = First(i - 1) \union {s[i]}
    OBVIOUS
  <2>4. CASE s[i] \in D
    BY <2>1, <2>2, <2>3, <2>4
  <2>5. CASE s[i] \notin D
    <3>1. Members(Append(kept[i - 1], s[i])) = Members(kept[i - 1]) \union {s[i]}
      BY <2>2, AppendMembers
    <3>2. kept[i] = Append(kept[i - 1], s[i])
      BY <2>1, <2>5
    <3>3. kept[i] \in Seq(S)
      BY <2>2, <3>2
    <3>4. Members(kept[i]) = First(i) \ D
      <4> HIDE DEF First
      <4> QED BY <2>2, <2>3, <2>5, <3>1, <3>2
    <3>5. QED
      BY <3>3, <3>4
  <2>6. QED
    BY <2>4, <2>5
<1>4. Len(s) \in P
  <2> HIDE DEF P
  <2>1. \A i \in 1 .. Len(s) : i - 1 \in P => i \in P
    BY <1>3
  <2>2. Len(s) \in Nat
    OBVIOUS
  <2>3. \A i \in 0 .. Len(s) : i \in P
    BY <1>2, <2>1, <2>2, IntervalInduction
  <2>4. QED
    BY <2>2, <2>3
<1>5. First(Len(s)) = Members(s)
  BY DEF Members
<1>6. Without(s, D) = kept[Len(s)]
  BY DEF Without, kept
<1>7. QED
  BY <1>4, <1>5, <1>6
=============================================================================
