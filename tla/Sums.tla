-------------------------------- MODULE Sums --------------------------------
(***************************************************************************)
(* Facts about the sum of a function over a finite set: it can be taken in *)
(* any order, over parts and under other names, and compared value by      *)
(* value; and about finite sets in an order: their places, and what is     *)
(* handed out along them.  The induction is over sets of numbers and sets  *)
(* of sets, so that no fact has an operator as a parameter.                *)
(***************************************************************************)
EXTENDS Integers, Functions, FiniteSetTheorems, WellFoundedInduction, TLAPS

LEMMA NatSetInduction ==
  ASSUME NEW T, 0 \in T, \A n \in Nat : n \in T => n + 1 \in T PROVE Nat \subseteq T
<1> DEFINE less == {ss \in Nat \X Nat : ss[1] < ss[2]}
           rest == Nat \ T
<1>1. IsWellFoundedOn(less, Nat)
  BY NatLessThanWellFounded DEF OpToRel
<1> SUFFICES ASSUME rest # {} PROVE FALSE
  OBVIOUS
<1>2. \E n \in rest : \A m \in rest : ~(<<m, n>> \in less)
  <2> HIDE DEF less
  <2>1. rest \subseteq Nat OBVIOUS
  <2> HIDE DEF rest
  <2>q. QED BY <1>1, <2>1, WFMin
<1>3. PICK n \in rest : \A m \in rest : ~(m < n)
  BY <1>2
<1>4. n # 0 /\ n - 1 \in Nat /\ n - 1 < n BY <1>3
<1>5. n - 1 \in T BY <1>3, <1>4
<1>q. QED BY <1>3, <1>4, <1>5

\* A set of subsets that contains the empty set and grows by one element contains all.
LEMMA SetInduction ==
  ASSUME NEW D, IsFiniteSet(D), NEW T, {} \in T,
         \A s \in SUBSET D : \A y \in D \ s : s \in T => s \cup {y} \in T
  PROVE  D \in T
<1> DEFINE N == {n \in Nat : \A s \in SUBSET D : Cardinality(s) = n => s \in T}
<1>1. \A s \in SUBSET D : IsFiniteSet(s) /\ Cardinality(s) \in Nat
  BY FS_Subset, FS_CardinalityType
<1>2. 0 \in N BY <1>1, FS_EmptySet
<1>3. ASSUME NEW n \in Nat, n \in N PROVE n + 1 \in N
  <2> SUFFICES ASSUME NEW s \in SUBSET D, Cardinality(s) = n + 1 PROVE s \in T
    OBVIOUS
  <2>1. s # {}
    <3>1. n + 1 # 0 OBVIOUS
    <3>q. QED BY <3>1, FS_EmptySet
  <2>2. PICK y \in s : TRUE BY <2>1
  <2>3. Cardinality(s \ {y}) = n
    <3>1. IsFiniteSet(s) BY <1>1
    <3>2. Cardinality(s \ {y}) = Cardinality(s) - 1 BY <3>1, FS_RemoveElement
    <3>q. QED BY <3>2
  <2>4. s \ {y} \in T BY <1>3, <2>3
  <2>5. s = (s \ {y}) \cup {y} OBVIOUS
  <2>6. (s \ {y}) \cup {y} \in T BY <2>4
  <2>q. QED BY <2>5, <2>6
<1>4. Nat \subseteq N
  <2> HIDE DEF N
  <2>q. QED BY <1>2, <1>3, NatSetInduction
<1>q. QED BY <1>1, <1>4

-----------------------------------------------------------------------------
(* The recursion behind the sum.                                           *)

Picked(s) == CHOOSE x \in s : TRUE

Step(f, g, s) == IF s = {} THEN 0 ELSE f[Picked(s)] + g[s \ {Picked(s)}]

Recursion(f, D, g) == g = [s \in SUBSET D |-> Step(f, g, s)]

Sums(f, D) == CHOOSE g : Recursion(f, D, g)

LEMMA SumIsRecursive ==
  ASSUME NEW f, NEW D PROVE SumFunctionOnSet(f, D) = Sums(f, D)[D]
BY Zenon DEF SumFunctionOnSet, FoldFunctionOnSet, MapThenFoldSet, Sums, Recursion, Step, Picked

LEMMA Smaller ==
  ASSUME NEW s, IsFiniteSet(s), s # {}
  PROVE  /\ Picked(s) \in s /\ IsFiniteSet(s \ {Picked(s)})
         /\ Cardinality(s) \in Nat /\ Cardinality(s \ {Picked(s)}) = Cardinality(s) - 1
<1>1. Picked(s) \in s BY Zenon DEF Picked
<1>q. QED BY <1>1, FS_RemoveElement, FS_CardinalityType

LEMMA SumsExist ==
  ASSUME NEW f, NEW D, IsFiniteSet(D) PROVE Recursion(f, D, Sums(f, D))
<1> DEFINE Until(g, n) == \A s \in SUBSET D : Cardinality(s) <= n => g[s] = Step(f, g, s)
           N == {n \in Nat : \E g : Until(g, n)}
<1>0. \A s \in SUBSET D :
        IsFiniteSet(s) /\ Cardinality(s) \in Nat /\ Cardinality(s) <= Cardinality(D)
  BY FS_Subset, FS_CardinalityType
<1>1. 0 \in N
  <2>1. \A s \in SUBSET D : Cardinality(s) <= 0 => s = {} BY <1>0, FS_EmptySet
  <2>2. Until([s \in SUBSET D |-> 0], 0) BY <2>1 DEF Step
  <2>q. QED BY <2>2
<1>2. ASSUME NEW n \in Nat, n \in N PROVE n + 1 \in N
  <2>1. PICK g : Until(g, n) BY <1>2
  <2> DEFINE h == [s \in SUBSET D |-> Step(f, g, s)]
  <2>2. ASSUME NEW s \in SUBSET D, Cardinality(s) <= n + 1 PROVE h[s] = Step(f, h, s)
    <3>1. CASE s = {} BY <3>1 DEF Step
    <3>2. CASE s # {}
      <4> DEFINE r == s \ {Picked(s)}
      <4>1. r \in SUBSET D /\ Cardinality(r) <= n
        BY <1>0, <2>2, <3>2, Smaller
      <4>2. h[r] = g[r] BY <2>1, <4>1
      <4> HIDE DEF r
      <4>3. Step(f, g, s) = Step(f, h, s) BY <3>2, <4>2 DEF Step, r
      <4>q. QED BY <4>3
    <3>q. QED BY <3>1, <3>2
  <2>3. Until(h, n + 1) BY <2>2
  <2> HIDE DEF Until, h
  <2>q. QED BY <2>3
<1>3. Nat \subseteq N
  <2> HIDE DEF N
  <2>q. QED BY <1>1, <1>2, NatSetInduction
<1>4. PICK g : Until(g, Cardinality(D)) BY <1>0, <1>3
<1> DEFINE h == [s \in SUBSET D |-> g[s]]
<1>5. \A s \in SUBSET D : h[s] = Step(f, h, s)
  <2> TAKE s \in SUBSET D
  <2>1. g[s] = Step(f, g, s) BY <1>0, <1>4
  <2>2. s # {} => s \ {Picked(s)} \in SUBSET D OBVIOUS
  <2>q. QED BY <2>1, <2>2 DEF Step
<1>6. Recursion(f, D, h) BY <1>5, Zenon DEF Recursion
<1> HIDE DEF h
<1>q. QED BY <1>6, Zenon DEF Sums

\* What is summed over a set depends on the values there alone.
LEMMA SumsAgree ==
  ASSUME NEW f, NEW h, NEW D, NEW E, NEW s, IsFiniteSet(D), IsFiniteSet(E),
         s \subseteq D, s \subseteq E, \A x \in s : f[x] = h[x]
  PROVE  Sums(f, D)[s] = Sums(h, E)[s]
<1> DEFINE F == Sums(f, D)
           H == Sums(h, E)
           N == {n \in Nat : \A t \in SUBSET s : Cardinality(t) = n => F[t] = H[t]}
<1>0. \A t \in SUBSET s : IsFiniteSet(t) /\ Cardinality(t) \in Nat
  BY FS_Subset, FS_CardinalityType
<1>1. \A t \in SUBSET s : F[t] = Step(f, F, t) /\ H[t] = Step(h, H, t)
  <2>1. Recursion(f, D, F) /\ Recursion(h, E, H) BY SumsExist
  <2> HIDE DEF F, H
  <2>2. \A t \in SUBSET D : F[t] = Step(f, F, t) BY <2>1, Zenon DEF Recursion
  <2>3. \A t \in SUBSET E : H[t] = Step(h, H, t) BY <2>1, Zenon DEF Recursion
  <2>q. QED BY <2>2, <2>3
<1> HIDE DEF F, H
<1>2. 0 \in N
  <2>1. \A t \in SUBSET s : Cardinality(t) = 0 => t = {} BY <1>0, FS_EmptySet
  <2>q. QED BY <1>1, <2>1 DEF Step
<1>3. ASSUME NEW n \in Nat, n \in N PROVE n + 1 \in N
  <2> SUFFICES ASSUME NEW t \in SUBSET s, Cardinality(t) = n + 1 PROVE F[t] = H[t]
    OBVIOUS
  <2>1. t # {} BY FS_EmptySet
  <2> DEFINE x == Picked(t)
             r == t \ {x}
  <2>2. x \in t /\ r \in SUBSET s /\ Cardinality(r) = n BY <1>0, <2>1, Smaller
  <2>3. F[r] = H[r] BY <1>3, <2>2
  <2>4. f[x] = h[x] BY <2>2
  <2>q. QED BY <1>1, <2>1, <2>3, <2>4 DEF Step
<1>4. Nat \subseteq N
  <2> HIDE DEF N
  <2>q. QED BY <1>2, <1>3, NatSetInduction
<1>5. F[s] = H[s] BY <1>0, <1>4
<1>q. QED BY <1>5 DEF F, H

-----------------------------------------------------------------------------
(* The sum itself.                                                         *)

LEMMA SumSame ==
  ASSUME NEW f, NEW h, NEW S, IsFiniteSet(S), \A x \in S : f[x] = h[x]
  PROVE  SumFunctionOnSet(f, S) = SumFunctionOnSet(h, S)
<1>1. Sums(f, S)[S] = Sums(h, S)[S] BY SumsAgree
<1>q. QED BY <1>1, SumIsRecursive

LEMMA SumUnfolds ==
  ASSUME NEW f, NEW S, IsFiniteSet(S)
  PROVE  SumFunctionOnSet(f, S) =
           IF S = {} THEN 0 ELSE f[Picked(S)] + SumFunctionOnSet(f, S \ {Picked(S)})
<1> DEFINE r == S \ {Picked(S)}
<1>1. Sums(f, S)[S] = Step(f, Sums(f, S), S)
  <2>1. Recursion(f, S, Sums(f, S)) BY SumsExist
  <2>2. \A t \in SUBSET S : Sums(f, S)[t] = Step(f, Sums(f, S), t)
    BY <2>1, Zenon DEF Recursion
  <2>q. QED BY <2>2
<1>2. Sums(f, S)[r] = Sums(f, r)[r]
  <2>1. IsFiniteSet(r) /\ r \subseteq S BY FS_Subset
  <2> HIDE DEF r
  <2>q. QED BY <2>1, SumsAgree
<1>q. QED BY <1>1, <1>2, SumIsRecursive DEF Step

LEMMA SumEmpty == ASSUME NEW f PROVE SumFunctionOnSet(f, {}) = 0
BY SumUnfolds, FS_EmptySet

LEMMA SumType ==
  ASSUME NEW f, NEW S, IsFiniteSet(S), \A x \in S : f[x] \in Int
  PROVE  SumFunctionOnSet(f, S) \in Int
<1> DEFINE N == {n \in Nat : \A t \in SUBSET S :
                               Cardinality(t) = n => SumFunctionOnSet(f, t) \in Int}
<1>0. \A t \in SUBSET S : IsFiniteSet(t) /\ Cardinality(t) \in Nat
  BY FS_Subset, FS_CardinalityType
<1>1. 0 \in N
  <2>1. \A t \in SUBSET S : Cardinality(t) = 0 => t = {} BY <1>0, FS_EmptySet
  <2>q. QED BY <2>1, SumEmpty
<1>2. ASSUME NEW n \in Nat, n \in N PROVE n + 1 \in N
  <2> SUFFICES ASSUME NEW t \in SUBSET S, Cardinality(t) = n + 1
               PROVE  SumFunctionOnSet(f, t) \in Int
    OBVIOUS
  <2>1. t # {} BY FS_EmptySet
  <2> DEFINE r == t \ {Picked(t)}
  <2>2. Picked(t) \in S /\ r \in SUBSET S /\ Cardinality(r) = n BY <1>0, <2>1, Smaller
  <2>3. SumFunctionOnSet(f, r) \in Int BY <1>2, <2>2
  <2>4. SumFunctionOnSet(f, t) = f[Picked(t)] + SumFunctionOnSet(f, r)
    BY <1>0, <2>1, SumUnfolds
  <2>q. QED BY <2>2, <2>3, <2>4
<1>3. Nat \subseteq N
  <2> HIDE DEF N
  <2>q. QED BY <1>1, <1>2, NatSetInduction
<1>q. QED BY <1>0, <1>3

\* The sum does not depend on the order: any element may be taken last.
LEMMA SumAdds ==
  ASSUME NEW f, NEW S, IsFiniteSet(S), \A x \in S : f[x] \in Int, NEW y \in S
  PROVE  SumFunctionOnSet(f, S) = f[y] + SumFunctionOnSet(f, S \ {y})
<1> DEFINE Any(t) == \A z \in t :
                       SumFunctionOnSet(f, t) = f[z] + SumFunctionOnSet(f, t \ {z})
           N == {n \in Nat : \A t \in SUBSET S : Cardinality(t) = n => Any(t)}
<1>0. \A t \in SUBSET S : IsFiniteSet(t) /\ Cardinality(t) \in Nat
  BY FS_Subset, FS_CardinalityType
<1>1. 0 \in N
  <2>1. \A t \in SUBSET S : Cardinality(t) = 0 => t = {} BY <1>0, FS_EmptySet
  <2>q. QED BY <2>1
<1>2. ASSUME NEW n \in Nat, n \in N PROVE n + 1 \in N
  <2> SUFFICES ASSUME NEW t \in SUBSET S, Cardinality(t) = n + 1, NEW z \in t
               PROVE  SumFunctionOnSet(f, t) = f[z] + SumFunctionOnSet(f, t \ {z})
    OBVIOUS
  <2> DEFINE x == Picked(t)
             r == t \ {x}
             u == t \ {z}
             b == (t \ {x}) \ {z}
  <2>1. x \in t /\ Cardinality(r) = n BY <1>0, Smaller
  <2>2. SumFunctionOnSet(f, t) = f[x] + SumFunctionOnSet(f, r) BY <1>0, SumUnfolds
  <2>3. CASE x = z BY <2>2, <2>3
  <2>4. CASE x # z
    <3>1. Cardinality(u) = n
      BY <1>0, FS_RemoveElement
    <3>2. r \in SUBSET S /\ u \in SUBSET S /\ b \in SUBSET S /\ z \in r /\ x \in u
          /\ b = u \ {x}
      BY <2>1, <2>4
    <3>3. Any(r) /\ Any(u) BY <1>2, <2>1, <3>1, <3>2
    <3>4. SumFunctionOnSet(f, r) = f[z] + SumFunctionOnSet(f, b) BY <3>2, <3>3
    <3>5. SumFunctionOnSet(f, u) = f[x] + SumFunctionOnSet(f, b) BY <3>2, <3>3
    <3>6. f[x] \in Int /\ f[z] \in Int /\ SumFunctionOnSet(f, b) \in Int
      <4>1. IsFiniteSet(b) /\ \A v \in b : f[v] \in Int BY <1>0, <3>2
      <4>q. QED BY <2>1, <4>1, SumType
    <3> HIDE DEF x, r, u, b
    <3>q. QED BY <2>2, <3>4, <3>5, <3>6 DEF u
  <2>q. QED BY <2>3, <2>4
<1>3. Nat \subseteq N
  <2> HIDE DEF N
  <2>q. QED BY <1>1, <1>2, NatSetInduction
<1>4. Any(S) BY <1>0, <1>3
<1>q. QED BY <1>4

LEMMA SumAtMost ==
  ASSUME NEW f, NEW h, NEW S, IsFiniteSet(S),
         \A x \in S : f[x] \in Int /\ h[x] \in Int /\ f[x] <= h[x]
  PROVE  SumFunctionOnSet(f, S) <= SumFunctionOnSet(h, S)
<1> DEFINE T == {s \in SUBSET S : SumFunctionOnSet(f, s) <= SumFunctionOnSet(h, s)}
<1>1. {} \in T BY SumEmpty
<1>2. ASSUME NEW s \in SUBSET S, NEW y \in S \ s, s \in T PROVE s \cup {y} \in T
  <2> DEFINE t == s \cup {y}
  <2>1. IsFiniteSet(t) /\ IsFiniteSet(s) /\ y \in t /\ t \ {y} = s /\ t \in SUBSET S
    BY FS_Subset
  <2> HIDE DEF t
  <2>2. /\ SumFunctionOnSet(f, t) = f[y] + SumFunctionOnSet(f, s)
        /\ SumFunctionOnSet(h, t) = h[y] + SumFunctionOnSet(h, s)
    BY <2>1, SumAdds
  <2>3. SumFunctionOnSet(f, s) \in Int /\ SumFunctionOnSet(h, s) \in Int
    BY <2>1, SumType
  <2>4. SumFunctionOnSet(f, s) <= SumFunctionOnSet(h, s) BY <1>2
  <2>5. t \in T BY <2>1, <2>2, <2>3, <2>4
  <2>q. QED BY <2>5 DEF t
<1>3. S \in T
  <2> HIDE DEF T
  <2>q. QED BY <1>1, <1>2, SetInduction
<1>q. QED BY <1>3

LEMMA SumOfParts ==
  ASSUME NEW f, NEW A, NEW B, IsFiniteSet(A), IsFiniteSet(B), A \cap B = {},
         \A x \in A \cup B : f[x] \in Int
  PROVE  SumFunctionOnSet(f, A \cup B) = SumFunctionOnSet(f, A) + SumFunctionOnSet(f, B)
<1> DEFINE T == {s \in SUBSET B :
                   SumFunctionOnSet(f, A \cup s)
                     = SumFunctionOnSet(f, A) + SumFunctionOnSet(f, s)}
<1>0. SumFunctionOnSet(f, A) \in Int BY SumType
<1>1. {} \in T
  <2>1. A \cup {} = A OBVIOUS
  <2>q. QED BY <1>0, <2>1, SumEmpty
<1>2. ASSUME NEW s \in SUBSET B, NEW y \in B \ s, s \in T PROVE s \cup {y} \in T
  <2> DEFINE t == s \cup {y}
             a == A \cup t
  <2>1. /\ IsFiniteSet(t) /\ IsFiniteSet(s) /\ y \in t /\ t \ {y} = s /\ t \in SUBSET B
        /\ IsFiniteSet(a) /\ y \in a /\ a \ {y} = A \cup s
    BY FS_Subset, FS_Union
  <2>2. \A x \in a : f[x] \in Int OBVIOUS
  <2>3. a = A \cup t OBVIOUS
  <2> HIDE DEF t, a
  <2>4. SumFunctionOnSet(f, t) = f[y] + SumFunctionOnSet(f, s) BY <2>1, SumAdds
  <2>5. SumFunctionOnSet(f, a) = f[y] + SumFunctionOnSet(f, A \cup s) BY <2>1, <2>2, SumAdds
  <2>6. SumFunctionOnSet(f, s) \in Int /\ f[y] \in Int BY <2>1, SumType
  <2>7. SumFunctionOnSet(f, A \cup s) = SumFunctionOnSet(f, A) + SumFunctionOnSet(f, s)
    BY <1>2
  <2>8. t \in T BY <1>0, <2>1, <2>3, <2>4, <2>5, <2>6, <2>7
  <2>q. QED BY <2>8 DEF t
<1>3. B \in T
  <2> HIDE DEF T
  <2>q. QED BY <1>1, <1>2, SetInduction
<1>q. QED BY <1>3

-----------------------------------------------------------------------------
(* Sums of zeros, of sums, of products and of single values.               *)

LEMMA SumSingle ==
  ASSUME NEW f, NEW x, f[x] \in Int PROVE SumFunctionOnSet(f, {x}) = f[x]
<1>1. IsFiniteSet({x}) /\ {x} \ {x} = {} BY FS_Singleton
<1>2. SumFunctionOnSet(f, {x}) = f[x] + SumFunctionOnSet(f, {x} \ {x}) BY <1>1, SumAdds
<1>q. QED BY <1>1, <1>2, SumEmpty

\* How the sum over a set follows from the sum over the set without an element.
LEMMA SumGrows ==
  ASSUME NEW f, NEW S, IsFiniteSet(S), \A x \in S : f[x] \in Int,
         NEW s \in SUBSET S, NEW y \in S \ s
  PROVE  /\ IsFiniteSet(s) /\ f[y] \in Int /\ SumFunctionOnSet(f, s) \in Int
         /\ SumFunctionOnSet(f, s \cup {y}) = f[y] + SumFunctionOnSet(f, s)
<1> DEFINE t == s \cup {y}
<1>1. IsFiniteSet(t) /\ IsFiniteSet(s) /\ y \in t /\ t \ {y} = s /\ t \in SUBSET S
  BY FS_Subset
<1> HIDE DEF t
<1>2. SumFunctionOnSet(f, t) = f[y] + SumFunctionOnSet(f, s) BY <1>1, SumAdds
<1>3. SumFunctionOnSet(f, s) \in Int BY <1>1, SumType
<1>q. QED BY <1>1, <1>2, <1>3 DEF t

LEMMA SumZero ==
  ASSUME NEW f, NEW S, IsFiniteSet(S), \A x \in S : f[x] = 0
  PROVE  SumFunctionOnSet(f, S) = 0
<1> DEFINE T == {s \in SUBSET S : SumFunctionOnSet(f, s) = 0}
<1>1. {} \in T BY SumEmpty
<1>2. ASSUME NEW s \in SUBSET S, NEW y \in S \ s, s \in T PROVE s \cup {y} \in T
  <2>1. SumFunctionOnSet(f, s \cup {y}) = f[y] + SumFunctionOnSet(f, s) BY SumGrows
  <2>2. SumFunctionOnSet(f, s) = 0 /\ f[y] = 0 BY <1>2
  <2>q. QED BY <2>1, <2>2
<1>3. S \in T
  <2> HIDE DEF T
  <2>q. QED BY <1>1, <1>2, SetInduction
<1>q. QED BY <1>3

\* A sum of naturals is one, and at least each of them.
LEMMA SumBounds ==
  ASSUME NEW f, NEW S, IsFiniteSet(S), \A x \in S : f[x] \in Nat
  PROVE  SumFunctionOnSet(f, S) \in Nat /\ \A x \in S : f[x] <= SumFunctionOnSet(f, S)
<1>1. ASSUME NEW s \in SUBSET S PROVE SumFunctionOnSet(f, s) \in Nat
  <2> DEFINE zero == [x \in s |-> 0]
  <2>1. IsFiniteSet(s) BY FS_Subset
  <2>2. \A x \in s : zero[x] = 0 /\ zero[x] \in Int /\ f[x] \in Int /\ zero[x] <= f[x] OBVIOUS
  <2> HIDE DEF zero
  <2>3. SumFunctionOnSet(zero, s) = 0 BY <2>1, <2>2, SumZero
  <2>4. SumFunctionOnSet(zero, s) <= SumFunctionOnSet(f, s) BY <2>1, <2>2, SumAtMost
  <2>5. SumFunctionOnSet(f, s) \in Int BY <2>1, <2>2, SumType
  <2>q. QED BY <2>3, <2>4, <2>5
<1>2. ASSUME NEW x \in S PROVE f[x] <= SumFunctionOnSet(f, S)
  <2>1. SumFunctionOnSet(f, S) = f[x] + SumFunctionOnSet(f, S \ {x}) BY SumAdds
  <2>2. SumFunctionOnSet(f, S \ {x}) \in Nat BY <1>1
  <2>q. QED BY <2>1, <2>2
<1>q. QED BY <1>1, <1>2

LEMMA SumPlus ==
  ASSUME NEW f, NEW g, NEW h, NEW S, IsFiniteSet(S),
         \A x \in S : f[x] \in Int /\ g[x] \in Int /\ h[x] = f[x] + g[x]
  PROVE  SumFunctionOnSet(h, S) = SumFunctionOnSet(f, S) + SumFunctionOnSet(g, S)
<1> DEFINE T == {s \in SUBSET S : SumFunctionOnSet(h, s)
                                    = SumFunctionOnSet(f, s) + SumFunctionOnSet(g, s)}
<1>0. \A x \in S : f[x] \in Int /\ g[x] \in Int /\ h[x] \in Int OBVIOUS
<1>1. {} \in T BY SumEmpty
<1>2. ASSUME NEW s \in SUBSET S, NEW y \in S \ s, s \in T PROVE s \cup {y} \in T
  <2>1. SumFunctionOnSet(h, s \cup {y}) = h[y] + SumFunctionOnSet(h, s) BY <1>0, SumGrows
  <2>2. /\ SumFunctionOnSet(f, s \cup {y}) = f[y] + SumFunctionOnSet(f, s)
        /\ SumFunctionOnSet(f, s) \in Int /\ f[y] \in Int
    BY <1>0, SumGrows
  <2>3. /\ SumFunctionOnSet(g, s \cup {y}) = g[y] + SumFunctionOnSet(g, s)
        /\ SumFunctionOnSet(g, s) \in Int /\ g[y] \in Int
    BY <1>0, SumGrows
  <2>4. SumFunctionOnSet(h, s) = SumFunctionOnSet(f, s) + SumFunctionOnSet(g, s) BY <1>2
  <2>5. h[y] = f[y] + g[y] OBVIOUS
  <2>q. QED BY <2>1, <2>2, <2>3, <2>4, <2>5
<1>3. S \in T
  <2> HIDE DEF T
  <2>q. QED BY <1>1, <1>2, SetInduction
<1>q. QED BY <1>3

LEMMA Distributes == \A k, a, b \in Int : k * (a + b) = k * a + k * b
OBVIOUS

\* All of h are the same multiple of f.
Multiple(h, k, f, S) == k \in Int /\ \A x \in S : f[x] \in Int /\ h[x] = k * f[x]

LEMMA SumTimes ==
  ASSUME NEW f, NEW h, NEW k, NEW S, IsFiniteSet(S), Multiple(h, k, f, S)
  PROVE  SumFunctionOnSet(h, S) = k * SumFunctionOnSet(f, S)
<1> DEFINE T == {s \in SUBSET S : SumFunctionOnSet(h, s) = k * SumFunctionOnSet(f, s)}
<1>k. k \in Int /\ \A x \in S : f[x] \in Int /\ h[x] = k * f[x] BY DEF Multiple
<1>0. \A x \in S : f[x] \in Int /\ h[x] \in Int BY <1>k
<1>1. {} \in T BY <1>k, SumEmpty
<1>2. ASSUME NEW s \in SUBSET S, NEW y \in S \ s, s \in T PROVE s \cup {y} \in T
  <2>1. SumFunctionOnSet(h, s \cup {y}) = h[y] + SumFunctionOnSet(h, s) BY <1>0, SumGrows
  <2>2. /\ SumFunctionOnSet(f, s \cup {y}) = f[y] + SumFunctionOnSet(f, s)
        /\ SumFunctionOnSet(f, s) \in Int /\ f[y] \in Int
    BY <1>0, SumGrows
  <2>3. k * (f[y] + SumFunctionOnSet(f, s)) = k * f[y] + k * SumFunctionOnSet(f, s)
    BY <1>k, <2>2, Distributes
  <2>4. SumFunctionOnSet(h, s) = k * SumFunctionOnSet(f, s) BY <1>2
  <2>5. h[y] = k * f[y] BY <1>k
  <2>q. QED BY <2>1, <2>2, <2>3, <2>4, <2>5
<1>3. S \in T
  <2> HIDE DEF T
  <2>q. QED BY <1>1, <1>2, SetInduction
<1>q. QED BY <1>3

-----------------------------------------------------------------------------
(* Sums by class, and under another name for each element.                 *)

\* The sum over a set from the sums over the parts it falls into.
LEMMA SumOfFamily ==
  ASSUME NEW f, NEW g, NEW S, NEW C, NEW part, IsFiniteSet(S), IsFiniteSet(C),
         \A x \in S : f[x] \in Int, \A x \in S : \E c \in C : x \in part[c],
         \A c \in C : part[c] \subseteq S /\ g[c] = SumFunctionOnSet(f, part[c]),
         \A c, d \in C : c # d => part[c] \cap part[d] = {}
  PROVE  SumFunctionOnSet(g, C) = SumFunctionOnSet(f, S)
<1> DEFINE In(s) == {x \in S : \E c \in s : x \in part[c]}
           T == {s \in SUBSET C : SumFunctionOnSet(g, s) = SumFunctionOnSet(f, In(s))}
<1>0. \A c \in C : g[c] \in Int
  <2> TAKE c \in C
  <2>1. IsFiniteSet(part[c]) /\ \A x \in part[c] : f[x] \in Int BY FS_Subset
  <2>q. QED BY <2>1, SumType
<1>1. {} \in T
  <2>1. In({}) = {} OBVIOUS
  <2> HIDE DEF In
  <2>q. QED BY <2>1, SumEmpty
<1>2. ASSUME NEW s \in SUBSET C, NEW y \in C \ s, s \in T PROVE s \cup {y} \in T
  <2> DEFINE A == In(s)  B == part[y]
  <2>1. A \cap B = {} /\ In(s \cup {y}) = A \cup B
    <3>1. \A c \in s : part[c] \cap part[y] = {} OBVIOUS
    <3>2. B \subseteq S OBVIOUS
    <3>q. QED BY <3>1, <3>2
  <2>2. IsFiniteSet(A) /\ IsFiniteSet(B) BY FS_Subset
  <2>3. \A x \in A \cup B : f[x] \in Int OBVIOUS
  <2>4. g[y] = SumFunctionOnSet(f, B) OBVIOUS
  <2>5. SumFunctionOnSet(g, s) = SumFunctionOnSet(f, A) BY <1>2
  <2> HIDE DEF A, B, In
  <2>6. SumFunctionOnSet(f, A \cup B) = SumFunctionOnSet(f, A) + SumFunctionOnSet(f, B)
    BY <2>1, <2>2, <2>3, SumOfParts
  <2>7. SumFunctionOnSet(g, s \cup {y}) = g[y] + SumFunctionOnSet(g, s)
    BY <1>0, SumGrows
  <2>8. SumFunctionOnSet(f, A) \in Int /\ SumFunctionOnSet(f, B) \in Int
    BY <2>2, <2>3, SumType
  <2>9. SumFunctionOnSet(g, s \cup {y}) = SumFunctionOnSet(f, A \cup B)
    BY <2>4, <2>5, <2>6, <2>7, <2>8
  <2>10. SumFunctionOnSet(g, s \cup {y}) = SumFunctionOnSet(f, In(s \cup {y}))
    BY <2>1, <2>9, Zenon
  <2>q. QED BY <2>10
<1>3. C \in T
  <2> HIDE DEF T
  <2>q. QED BY <1>1, <1>2, SetInduction
<1>4. In(C) = S OBVIOUS
<1>q. QED BY <1>3, <1>4

LEMMA SumOfFibres ==
  ASSUME NEW f, NEW g, NEW S, NEW C, NEW class, IsFiniteSet(S), IsFiniteSet(C),
         \A x \in S : f[x] \in Int /\ class[x] \in C,
         \A c \in C : g[c] = SumFunctionOnSet(f, {x \in S : class[x] = c})
  PROVE  SumFunctionOnSet(g, C) = SumFunctionOnSet(f, S)
<1> DEFINE part == [c \in C |-> {x \in S : class[x] = c}]
<1>1. \A c \in C : part[c] \subseteq S /\ g[c] = SumFunctionOnSet(f, part[c]) OBVIOUS
<1>2. \A x \in S : \E c \in C : x \in part[c] OBVIOUS
<1>3. \A c, d \in C : c # d => part[c] \cap part[d] = {} OBVIOUS
<1>4. \A x \in S : f[x] \in Int OBVIOUS
<1> HIDE DEF part
<1>q. QED BY <1>1, <1>2, <1>3, <1>4, SumOfFamily

LEMMA SumRenamed ==
  ASSUME NEW f, NEW g, NEW S, NEW T, IsFiniteSet(S), IsFiniteSet(T), NEW m,
         m \in Bijection(S, T), \A x \in S : f[x] \in Int /\ f[x] = g[m[x]]
  PROVE  SumFunctionOnSet(f, S) = SumFunctionOnSet(g, T)
<1> DEFINE part == [t \in T |-> {x \in S : m[x] = t}]
<1>0. /\ m \in [S -> T] /\ \A x, y \in S : m[x] = m[y] => x = y
      /\ \A t \in T : \E x \in S : m[x] = t
  BY DEF Bijection, Injection, Surjection, IsInjective
<1>1. \A t \in T : part[t] \subseteq S /\ g[t] = SumFunctionOnSet(f, part[t])
  <2> TAKE t \in T
  <2>1. PICK x \in S : m[x] = t BY <1>0
  <2>2. part[t] = {x} BY <1>0, <2>1
  <2>3. SumFunctionOnSet(f, {x}) = f[x] BY SumSingle
  <2> HIDE DEF part
  <2>q. QED BY <2>1, <2>2, <2>3
<1>2. \A x \in S : \E t \in T : x \in part[t] BY <1>0
<1>3. \A c, d \in T : c # d => part[c] \cap part[d] = {} OBVIOUS
<1>4. \A x \in S : f[x] \in Int OBVIOUS
<1> HIDE DEF part
<1>5. SumFunctionOnSet(g, T) = SumFunctionOnSet(f, S)
  BY <1>1, <1>2, <1>3, <1>4, SumOfFamily
<1>q. QED BY <1>5

\* A part of the set counts for all of it where the rest is zero.
LEMMA SumOfSupport ==
  ASSUME NEW f, NEW S, NEW T, IsFiniteSet(S), T \subseteq S,
         \A x \in S : f[x] \in Int, \A x \in S \ T : f[x] = 0
  PROVE  SumFunctionOnSet(f, S) = SumFunctionOnSet(f, T)
<1> DEFINE U == S \ T
<1>1. T \cup U = S /\ T \cap U = {} OBVIOUS
<1>2. IsFiniteSet(T) /\ IsFiniteSet(U) BY FS_Subset
<1>3. \A x \in U : f[x] = 0 OBVIOUS
<1> HIDE DEF U
<1>4. SumFunctionOnSet(f, T \cup U) = SumFunctionOnSet(f, T) + SumFunctionOnSet(f, U)
  BY <1>1, <1>2, SumOfParts
<1>5. SumFunctionOnSet(f, U) = 0 BY <1>2, <1>3, SumZero
<1>6. SumFunctionOnSet(f, T) \in Int BY <1>2, SumType
<1>q. QED BY <1>1, <1>4, <1>5, <1>6

LEMMA SumCounts ==
  ASSUME NEW f, NEW S, NEW T, IsFiniteSet(S), T \subseteq S,
         \A x \in S : f[x] = IF x \in T THEN 1 ELSE 0
  PROVE  SumFunctionOnSet(f, S) = Cardinality(T)
<1> DEFINE U == {s \in SUBSET T : SumFunctionOnSet(f, s) = Cardinality(s)}
<1>0. IsFiniteSet(T) /\ \A x \in T : f[x] = 1 /\ f[x] \in Int BY FS_Subset
<1>1. {} \in U BY SumEmpty, FS_EmptySet
<1>2. ASSUME NEW s \in SUBSET T, NEW y \in T \ s, s \in U PROVE s \cup {y} \in U
  <2>1. SumFunctionOnSet(f, s \cup {y}) = f[y] + SumFunctionOnSet(f, s) /\ IsFiniteSet(s)
    BY <1>0, SumGrows
  <2>2. Cardinality(s \cup {y}) = Cardinality(s) + 1 /\ Cardinality(s) \in Nat
    BY <2>1, FS_AddElement, FS_CardinalityType
  <2>3. SumFunctionOnSet(f, s) = Cardinality(s) /\ f[y] = 1 BY <1>0, <1>2
  <2>q. QED BY <2>1, <2>2, <2>3
<1>3. T \in U
  <2> HIDE DEF U
  <2>q. QED BY <1>0, <1>1, <1>2, SetInduction
<1>4. SumFunctionOnSet(f, S) = SumFunctionOnSet(f, T)
  <2>1. \A x \in S : f[x] \in Int OBVIOUS
  <2>q. QED BY <2>1, SumOfSupport
<1>q. QED BY <1>3, <1>4

-----------------------------------------------------------------------------
(* An order on a finite set, told by what comes before each element.       *)

Strict(before, S) ==
  /\ \A x \in S : before[x] \subseteq S /\ x \notin before[x]
  /\ \A x, y \in S : x # y => x \in before[y] \/ y \in before[x]
  /\ \A x, y \in S : x \in before[y] => before[x] \subseteq before[y]

Place(before, S) == [x \in S |-> Cardinality(before[x])]

LEMMA Places ==
  ASSUME NEW S, IsFiniteSet(S), NEW before, Strict(before, S)
  PROVE  /\ Place(before, S) \in Bijection(S, 0..(Cardinality(S) - 1))
         /\ Cardinality(S) \in Nat
         /\ \A x, y \in S : y \in before[x] <=> Place(before, S)[y] < Place(before, S)[x]
<1> DEFINE pos == Place(before, S)
           T == 0..(Cardinality(S) - 1)
<1>0. Cardinality(S) \in Nat BY FS_CardinalityType
<1>1. \A x \in S : pos[x] \in T
  <2> TAKE x \in S
  <2>1. pos[x] = Cardinality(before[x]) BY DEF Place
  <2>2. before[x] \subseteq S /\ before[x] # S BY DEF Strict
  <2>3. Cardinality(before[x]) \in Nat BY <2>2, FS_Subset, FS_CardinalityType
  <2>4. Cardinality(before[x]) <= Cardinality(S) /\ Cardinality(before[x]) # Cardinality(S)
    BY <2>2, FS_Subset
  <2>q. QED BY <1>0, <2>1, <2>3, <2>4
<1>2. \A x, y \in S : y \in before[x] => pos[y] < pos[x]
  <2> TAKE x, y \in S
  <2> SUFFICES ASSUME y \in before[x] PROVE pos[y] < pos[x] OBVIOUS
  <2> DEFINE P == before[y]  Q == before[x]
  <2>1. P \subseteq Q /\ P # Q /\ Q \subseteq S BY DEF Strict
  <2>2. pos[y] = Cardinality(P) /\ pos[x] = Cardinality(Q) BY DEF Place
  <2>3. IsFiniteSet(Q) /\ IsFiniteSet(P) BY <2>1, FS_Subset
  <2> HIDE DEF P, Q
  <2>4. Cardinality(P) <= Cardinality(Q) /\ Cardinality(P) # Cardinality(Q)
    BY <2>1, <2>3, FS_Subset
  <2>5. Cardinality(P) \in Nat /\ Cardinality(Q) \in Nat BY <2>3, FS_CardinalityType
  <2>q. QED BY <2>2, <2>4, <2>5
<1>3. \A x, y \in S : x # y => y \in before[x] \/ x \in before[y] BY DEF Strict
<1>4. \A x \in S : x \notin before[x] BY DEF Strict
<1>5. pos = [x \in S |-> pos[x]] BY DEF Place
<1> HIDE DEF pos
<1>6. \A x, y \in S : y \in before[x] <=> pos[y] < pos[x]
  <2> TAKE x, y \in S
  <2>1. pos[x] \in T /\ pos[y] \in T BY <1>1
  <2>2. pos[y] < pos[x] => ~(pos[x] < pos[y]) /\ x # y BY <2>1
  <2>q. QED BY <1>2, <1>3, <2>2
<1>7. pos \in [S -> T]
  <2> HIDE DEF T
  <2>q. QED BY <1>1, <1>5
<1>8. pos \in Injection(S, T)
  <2>1. ASSUME NEW x \in S, NEW y \in S, pos[x] = pos[y] PROVE x = y
    <3>1. pos[x] \in Int /\ pos[y] \in Int BY <1>1
    <3>q. QED BY <1>2, <1>3, <2>1, <3>1
  <2> HIDE DEF T
  <2>q. QED BY <1>7, <2>1 DEF Injection, IsInjective
<1>9. IsFiniteSet(T) /\ Cardinality(T) = Cardinality(S)
  <2>1. 0 \in Int /\ Cardinality(S) - 1 \in Int BY <1>0
  <2>2. /\ IsFiniteSet(T)
        /\ Cardinality(T) = IF 0 > Cardinality(S) - 1 THEN 0 ELSE (Cardinality(S) - 1) - 0 + 1
    BY <2>1, FS_Interval
  <2>q. QED BY <1>0, <2>2
<1>10. pos \in Surjection(S, T)
  <2> HIDE DEF T
  <2>q. QED BY <1>8, <1>9, FS_Injection
<1>11. pos \in Bijection(S, T)
  <2> HIDE DEF T
  <2>q. QED BY <1>8, <1>10 DEF Bijection
<1>q. QED BY <1>0, <1>6, <1>11 DEF pos

Firsts(before, S, n) == {x \in S : Place(before, S)[x] < n}

\* The first n + 1 are the first n and the one that has all of them before it.
LEMMA NextFirst ==
  ASSUME NEW S, IsFiniteSet(S), NEW before, Strict(before, S),
         NEW n \in Nat, n < Cardinality(S)
  PROVE  \E x \in S : /\ before[x] = Firsts(before, S, n) /\ x \notin Firsts(before, S, n)
                      /\ Firsts(before, S, n + 1) = Firsts(before, S, n) \cup {x}
<1> DEFINE pos == Place(before, S)
           T == 0..(Cardinality(S) - 1)
<1>1. /\ pos \in Bijection(S, T) /\ Cardinality(S) \in Nat
      /\ \A x, y \in S : y \in before[x] <=> pos[y] < pos[x]
  BY Places
<1>2. \A x \in S : before[x] \subseteq S BY DEF Strict
<1> HIDE DEF pos
<1>3. /\ \A x \in S : pos[x] \in T
      /\ \A x, y \in S : pos[x] = pos[y] => x = y
      /\ \A t \in T : \E x \in S : pos[x] = t
  <2> HIDE DEF T
  <2>q. QED BY <1>1 DEF Bijection, Injection, Surjection, IsInjective
<1>4. n \in T BY <1>1
<1>5. PICK x \in S : pos[x] = n BY <1>3, <1>4
<1> DEFINE F == {y \in S : pos[y] < n}  G == {y \in S : pos[y] < n + 1}
<1>6. before[x] = F BY <1>1, <1>2, <1>5
<1>7. x \notin F BY <1>5
<1>8. G = F \cup {x}
  <2>1. \A y \in S : pos[y] \in Int BY <1>3
  <2>2. ASSUME NEW y \in S PROVE pos[y] < n + 1 <=> pos[y] < n \/ y = x
    BY <1>3, <1>5, <2>1
  <2>q. QED BY <2>2
<1>9. F = Firsts(before, S, n) /\ G = Firsts(before, S, n + 1) BY DEF Firsts, pos
<1>q. QED BY <1>6, <1>7, <1>8, <1>9

LEMMA AllFirsts ==
  ASSUME NEW S, IsFiniteSet(S), NEW before, Strict(before, S)
  PROVE  /\ Firsts(before, S, 0) = {} /\ Firsts(before, S, Cardinality(S)) = S
         /\ \A n \in Nat : Firsts(before, S, n) \subseteq S
<1> DEFINE pos == Place(before, S)
<1>1. pos \in Bijection(S, 0..(Cardinality(S) - 1)) /\ Cardinality(S) \in Nat BY Places
<1>2. \A x \in S : pos[x] \in 0..(Cardinality(S) - 1)
  <2> HIDE DEF pos
  <2>q. QED BY <1>1 DEF Bijection, Injection
<1>3. \A x \in S : ~(pos[x] < 0) /\ pos[x] < Cardinality(S) BY <1>1, <1>2
<1>q. QED BY <1>3 DEF Firsts

LEMMA FirstsCount ==
  ASSUME NEW S, IsFiniteSet(S), NEW before, Strict(before, S), NEW n \in 0..Cardinality(S)
  PROVE  Cardinality(Firsts(before, S, n)) = n
<1> DEFINE N == {m \in Nat : m <= Cardinality(S) => Cardinality(Firsts(before, S, m)) = m}
<1>0. Cardinality(S) \in Nat BY FS_CardinalityType
<1>1. 0 \in N BY AllFirsts, FS_EmptySet
<1>2. ASSUME NEW m \in Nat, m \in N PROVE m + 1 \in N
  <2> SUFFICES ASSUME m + 1 <= Cardinality(S) PROVE Cardinality(Firsts(before, S, m + 1)) = m + 1
    OBVIOUS
  <2> DEFINE F == Firsts(before, S, m)  G == Firsts(before, S, m + 1)
  <2>1. PICK x \in S : x \notin F /\ G = F \cup {x} BY <1>0, NextFirst
  <2>2. Cardinality(F) = m BY <1>0, <1>2
  <2>3. IsFiniteSet(F) BY AllFirsts, FS_Subset
  <2> HIDE DEF F, G
  <2>4. Cardinality(F \cup {x}) = m + 1 BY <2>1, <2>2, <2>3, FS_AddElement
  <2>5. Cardinality(G) = m + 1 BY <2>1, <2>4
  <2>q. QED BY <2>5 DEF G
<1>3. Nat \subseteq N
  <2> HIDE DEF N
  <2>q. QED BY <1>1, <1>2, NatSetInduction
<1>q. QED BY <1>0, <1>3

\* Who takes what he needs, as far as what those before him left over reaches,
\* takes together what there is, or what is needed if that is less.
LEMMA TakenInOrder ==
  ASSUME NEW S, IsFiniteSet(S), NEW before, Strict(before, S), NEW need, NEW given,
         NEW cash \in Nat, \A x \in S : need[x] \in Nat,
         \A x \in S : LET left == cash - SumFunctionOnSet(need, before[x])
                      IN  given[x] = IF left <= 0 THEN 0
                                     ELSE IF need[x] <= left THEN need[x] ELSE left
  PROVE  /\ \A x \in S : given[x] \in Nat /\ given[x] <= need[x]
         /\ SumFunctionOnSet(given, S) = IF SumFunctionOnSet(need, S) <= cash
                                         THEN SumFunctionOnSet(need, S) ELSE cash
<1> DEFINE Taken(s) == SumFunctionOnSet(given, s)
           Need(s) == SumFunctionOnSet(need, s)
           N == {n \in Nat : n <= Cardinality(S) =>
                   Taken(Firsts(before, S, n)) =
                     IF Need(Firsts(before, S, n)) <= cash
                       THEN Need(Firsts(before, S, n)) ELSE cash}
<1>0. Cardinality(S) \in Nat BY FS_CardinalityType
<1>a. \A s \in SUBSET S : Need(s) \in Nat
  <2> TAKE s \in SUBSET S
  <2>1. IsFiniteSet(s) /\ \A x \in s : need[x] \in Nat BY FS_Subset
  <2>q. QED BY <2>1, SumBounds
<1>b. \A x \in S : before[x] \in SUBSET S BY DEF Strict
<1>c. \A x \in S : LET left == cash - Need(before[x])
                   IN  given[x] = IF left <= 0 THEN 0
                                  ELSE IF need[x] <= left THEN need[x] ELSE left
  OBVIOUS
<1> HIDE DEF Need
<1>d. \A x \in S : given[x] \in Nat /\ given[x] <= need[x]
  <2> TAKE x \in S
  <2>1. Need(before[x]) \in Nat /\ need[x] \in Nat BY <1>a, <1>b
  <2>q. QED BY <1>c, <2>1
<1>1. 0 \in N
  <2>1. Firsts(before, S, 0) = {} BY AllFirsts
  <2>2. Taken({}) = 0 /\ Need({}) = 0 BY SumEmpty DEF Need
  <2>q. QED BY <2>1, <2>2
<1>2. ASSUME NEW n \in Nat, n \in N PROVE n + 1 \in N
  <2> SUFFICES ASSUME n + 1 <= Cardinality(S)
               PROVE  Taken(Firsts(before, S, n + 1)) =
                        IF Need(Firsts(before, S, n + 1)) <= cash
                          THEN Need(Firsts(before, S, n + 1)) ELSE cash
    OBVIOUS
  <2> DEFINE F == Firsts(before, S, n)  G == Firsts(before, S, n + 1)
  <2>1. PICK x \in S : before[x] = F /\ x \notin F /\ G = F \cup {x} BY <1>0, NextFirst
  <2>2. Taken(F) = IF Need(F) <= cash THEN Need(F) ELSE cash BY <1>0, <1>2
  <2>3. F \in SUBSET S BY AllFirsts
  <2> HIDE DEF F, G
  <2>4. Taken(F \cup {x}) = given[x] + Taken(F)
    <3>1. \A y \in S : given[y] \in Int BY <1>d
    <3>2. x \in S \ F BY <2>1
    <3>q. QED BY <2>3, <3>1, <3>2, SumGrows
  <2>5. Need(F \cup {x}) = need[x] + Need(F)
    <3>1. x \in S \ F BY <2>1
    <3>2. \A y \in S : need[y] \in Int OBVIOUS
    <3>q. QED BY <2>3, <3>1, <3>2, SumGrows DEF Need
  <2>6. Need(F) \in Nat /\ need[x] \in Nat BY <1>a, <2>3
  <2>7. LET left == cash - Need(F)
        IN  given[x] = IF left <= 0 THEN 0 ELSE IF need[x] <= left THEN need[x] ELSE left
    BY <1>c, <2>1
  <2>8. Taken(F \cup {x}) = IF Need(F \cup {x}) <= cash THEN Need(F \cup {x}) ELSE cash
    <3> DEFINE a == Need(F)  b == Taken(F)
    <3> HIDE DEF a, b, Taken
    <3>q. QED BY <2>2, <2>4, <2>5, <2>6, <2>7 DEF a, b
  <2>9. Taken(G) = IF Need(G) <= cash THEN Need(G) ELSE cash BY <2>1, <2>8
  <2>q. QED BY <2>9 DEF G
<1>3. Nat \subseteq N
  <2> HIDE DEF N
  <2>q. QED BY <1>1, <1>2, NatSetInduction
<1>4. Taken(S) = IF Need(S) <= cash THEN Need(S) ELSE cash
  <2>1. Firsts(before, S, Cardinality(S)) = S BY AllFirsts
  <2>2. Cardinality(S) \in N BY <1>0, <1>3
  <2>q. QED BY <1>0, <2>1, <2>2
<1>q. QED BY <1>d, <1>4 DEF Need

\* Nothing else is needed of a set that is a part of another.
LEMMA SumInside ==
  ASSUME NEW f, NEW S, IsFiniteSet(S), \A x \in S : f[x] \in Nat, NEW T \in SUBSET S
  PROVE  SumFunctionOnSet(f, T) \in Nat /\ SumFunctionOnSet(f, T) <= SumFunctionOnSet(f, S)
<1> DEFINE U == S \ T
<1>1. IsFiniteSet(T) /\ IsFiniteSet(U) BY FS_Subset
<1>2. T \cap U = {} /\ T \cup U = S /\ U \subseteq S OBVIOUS
<1> HIDE DEF U
<1>3. \A x \in T \cup U : f[x] \in Int BY <1>2
<1>4. SumFunctionOnSet(f, T \cup U) = SumFunctionOnSet(f, T) + SumFunctionOnSet(f, U)
  BY <1>1, <1>2, <1>3, SumOfParts
<1>5. SumFunctionOnSet(f, T) \in Nat /\ SumFunctionOnSet(f, U) \in Nat
  BY <1>1, <1>2, SumBounds
<1>6. SumFunctionOnSet(f, S) = SumFunctionOnSet(f, T) + SumFunctionOnSet(f, U) BY <1>2, <1>4
<1>q. QED BY <1>5, <1>6

\* Of those that have something in common one has nobody of them before it.
LEMMA Foremost ==
  ASSUME NEW S, IsFiniteSet(S), NEW before, Strict(before, S), NEW X \in SUBSET S, X # {}
  PROVE  \E x \in X : before[x] \cap X = {}
<1> DEFINE ahead == [x \in X |-> before[x] \cap X]
<1>1. Strict(ahead, X) BY DEF Strict
<1>2. IsFiniteSet(X) BY FS_Subset
<1>3. 0 \in Nat /\ 0 < Cardinality(X)
  <2>1. Cardinality(X) \in Nat /\ Cardinality(X) # 0 BY <1>2, FS_EmptySet, FS_CardinalityType
  <2>q. QED BY <2>1
<1>4. \A x \in X : ahead[x] = before[x] \cap X OBVIOUS
<1> HIDE DEF ahead
<1>5. PICK x \in X : ahead[x] = Firsts(ahead, X, 0) BY <1>1, <1>2, <1>3, NextFirst
<1>6. Firsts(ahead, X, 0) = {} BY <1>1, <1>2, AllFirsts
<1>q. QED BY <1>4, <1>5, <1>6

=============================================================================
