----------------------------- MODULE ConsoleProofs -----------------------------
(***************************************************************************)
(* What a reader sees of the dashboard, whatever the sources, the loads that*)
(* commit and the moments at which they do: the panels of a page that no   *)
(* load disturbs agree, the rightsizing tiles and their list tell one      *)
(* story, and a drill-down adds up.                                        *)
(***************************************************************************)
EXTENDS Console, FiniteSetTheorems, TLAPS

-----------------------------------------------------------------------------

(***************************************************************************)
(* Sums over finite sets, as MapThenSumSet takes them: one element after the*)
(* other, in an order that is not known.  An induction over a finite set or*)
(* over the naturals is here a set that holds all of them.                 *)
(***************************************************************************)

\* A set of subsets that is closed under taking one more element holds the whole.
LEMMA SetInduction ==
  ASSUME NEW S, IsFiniteSet(S), NEW I, {} \in I,
         \A s \in SUBSET S : \A x \in S \ s : s \in I => s \cup {x} \in I
  PROVE  S \in I
<1> SUFFICES ASSUME S \notin I PROVE FALSE
  OBVIOUS
<1> DEFINE R == StrictSubsetOrdering(S)
           T == {s \in SUBSET S : s \notin I}
<1>1. FiniteSubsetsOf(S) = SUBSET S
  BY FS_FiniteSubsetsOfFinite
<1>2. IsWellFoundedOn(R, SUBSET S)
  BY <1>1, FS_StrictSubsetOrderingWellFounded
<1>3. T \subseteq SUBSET S /\ T # {}
  OBVIOUS
<1> HIDE DEF R
<1>4. \E s \in T : \A t \in T : <<t, s>> \notin R
  BY <1>2, <1>3, WFMin
<1>5. PICK s \in T : \A t \in T : <<t, s>> \notin R
  BY <1>4
<1>6. PICK x \in s : TRUE
  BY <1>5
<1>7. s \ {x} \in SUBSET S /\ x \in S \ (s \ {x}) /\ (s \ {x}) \cup {x} = s
  BY <1>6
<1>8. s \ {x} \notin I
  BY <1>7
<1>9. <<s \ {x}, s>> \in R
  BY <1>6, <1>7 DEF R, StrictSubsetOrdering
<1> QED
  BY <1>5, <1>7, <1>8, <1>9

\* A set that holds 0 and each successor holds the naturals.
LEMMA NatSets ==
  ASSUME NEW I, 0 \in I, \A n \in Nat : n \in I => n + 1 \in I
  PROVE  Nat \subseteq I
<1> SUFFICES ASSUME ~(Nat \subseteq I) PROVE FALSE
  OBVIOUS
<1> DEFINE R == OpToRel(<, Nat)
           T == {n \in Nat : n \notin I}
<1>1. IsWellFoundedOn(R, Nat)
  BY NatLessThanWellFounded
<1>2. T \subseteq Nat /\ T # {}
  OBVIOUS
<1> HIDE DEF R
<1>3. \E n \in T : \A m \in T : <<m, n>> \notin R
  BY <1>1, <1>2, WFMin
<1>4. PICK n \in T : \A m \in T : <<m, n>> \notin R
  BY <1>3
<1>5. n \in Nat /\ n # 0 /\ n \notin I
  BY <1>4
<1>6. n - 1 \in Nat /\ (n - 1) + 1 = n /\ n - 1 < n
  BY <1>5
<1>7. n - 1 \in T
  BY <1>5, <1>6
<1>8. <<n - 1, n>> \in R
  BY <1>5, <1>6 DEF R, OpToRel
<1> QED
  BY <1>4, <1>7, <1>8

\* The element that a sum takes first.
One(s) == CHOOSE x \in s : TRUE

\* A gives the sums of f over the subsets of S.
Sums(A, f, S) ==
  \A s \in SUBSET S : A[s] = IF s = {} THEN 0 ELSE f[One(s)] + A[s \ {One(s)}]

Recursion(A, f, S) ==
  A = [s \in SUBSET S |-> IF s = {} THEN 0 ELSE f[One(s)] + A[s \ {One(s)}]]

SumOf(f, S) == MapThenSumSet(LAMBDA x : f[x], S)

LEMMA OneOf == ASSUME NEW s, s # {} PROVE One(s) \in s
BY DEF One

LEMMA OneLess ==
  ASSUME NEW s, IsFiniteSet(s), NEW x \in s
  PROVE  IsFiniteSet(s \ {x}) /\ Cardinality(s) \in Nat /\ Cardinality(s \ {x}) \in Nat
         /\ Cardinality(s \ {x}) + 1 = Cardinality(s)
<1>1. IsFiniteSet(s \ {x}) /\ Cardinality(s \ {x}) = Cardinality(s) - 1
  BY FS_RemoveElement
<1>2. Cardinality(s) \in Nat /\ Cardinality(s \ {x}) \in Nat
  BY <1>1, FS_CardinalityType
<1> QED
  BY <1>1, <1>2

\* There is one function of sums at most.
LEMMA SumsUnique ==
  ASSUME NEW S, IsFiniteSet(S), NEW f, NEW g, \A x \in S : f[x] = g[x],
         NEW A, NEW B, Sums(A, f, S), Sums(B, g, S)
  PROVE  \A s \in SUBSET S : A[s] = B[s]
<1> DEFINE I == {n \in Nat : \A s \in SUBSET S : Cardinality(s) = n => A[s] = B[s]}
<1>0. \A s \in SUBSET S : IsFiniteSet(s) /\ Cardinality(s) \in Nat
  BY FS_Subset, FS_CardinalityType
<1>1. 0 \in I
  <2>1. ASSUME NEW s \in SUBSET S, Cardinality(s) = 0 PROVE A[s] = B[s]
    <3>1. s = {}
      BY <1>0, <2>1, FS_EmptySet
    <3> QED
      BY <3>1 DEF Sums
  <2> QED
    BY <2>1
<1>2. ASSUME NEW n \in Nat, n \in I PROVE n + 1 \in I
  <2>1. ASSUME NEW s \in SUBSET S, Cardinality(s) = n + 1 PROVE A[s] = B[s]
    <3>1. s # {}
      <4>1. Cardinality({}) = 0 /\ Cardinality(s) # 0
        BY <1>2, <2>1, FS_EmptySet
      <4> QED
        BY <4>1
    <3> DEFINE x == One(s)
    <3>2. x \in s
      BY <3>1, OneOf
    <3>3. s \ {x} \in SUBSET S /\ Cardinality(s \ {x}) = n
      BY <1>0, <2>1, <3>2, OneLess
    <3>4. A[s \ {x}] = B[s \ {x}]
      BY <1>2, <3>3
    <3>5. f[x] = g[x]
      BY <3>2
    <3>6. A[s] = f[x] + A[s \ {x}] /\ B[s] = g[x] + B[s \ {x}]
      BY <3>1 DEF Sums
    <3> QED
      BY <3>4, <3>5, <3>6
  <2> QED
    BY <2>1
<1> HIDE DEF I
<1>3. Nat \subseteq I
  BY <1>1, <1>2, NatSets
<1> QED
  BY <1>0, <1>3 DEF I

\* There is one, for every f: the levels of the subsets are filled one by one.
LEMMA SumsExist ==
  ASSUME NEW S, IsFiniteSet(S), NEW f
  PROVE  \E A : Recursion(A, f, S)
<1> DEFINE Up(n) == {s \in SUBSET S : Cardinality(s) <= n}
           Next1(A, s) == IF s = {} THEN 0 ELSE f[One(s)] + A[s \ {One(s)}]
           I == {n \in Nat : \E A : A = [s \in Up(n) |-> Next1(A, s)]}
<1>0. \A s \in SUBSET S : IsFiniteSet(s) /\ Cardinality(s) \in Nat
  BY FS_Subset, FS_CardinalityType
<1>1. 0 \in I
  <2> DEFINE A == [s \in Up(0) |-> 0]
  <2>1. \A s \in Up(0) : s = {}
    BY <1>0, FS_EmptySet
  <2>2. A = [s \in Up(0) |-> Next1(A, s)]
    BY <2>1
  <2> QED
    BY <2>2
<1>2. ASSUME NEW n \in Nat, n \in I PROVE n + 1 \in I
  <2>1. PICK A : A = [s \in Up(n) |-> Next1(A, s)]
    BY <1>2
  <2> DEFINE B == [s \in Up(n + 1) |-> Next1(A, s)]
  <2>2. \A s \in Up(n) : A[s] = Next1(A, s)
    BY <2>1
  <2>3. \A s \in Up(n) : s \in Up(n + 1)
    BY <1>0, <1>2
  <2>4. \A s \in Up(n) : B[s] = A[s]
    BY <2>2, <2>3
  <2>5. ASSUME NEW s \in Up(n + 1), s # {} PROVE s \ {One(s)} \in Up(n)
    <3>1. One(s) \in s /\ IsFiniteSet(s) /\ s \in SUBSET S /\ Cardinality(s) <= n + 1
      BY <1>0, <2>5, OneOf
    <3>2. Cardinality(s) \in Nat /\ Cardinality(s \ {One(s)}) \in Nat
          /\ Cardinality(s \ {One(s)}) + 1 = Cardinality(s)
      BY <3>1, OneLess
    <3>3. Cardinality(s \ {One(s)}) <= n
      BY <3>1, <3>2
    <3> QED
      BY <3>1, <3>3
  <2> HIDE DEF B
  <2>6. \A s \in Up(n + 1) : Next1(A, s) = Next1(B, s)
    BY <2>4, <2>5
  <2> DEFINE NA(s) == Next1(A, s)
             NB(s) == Next1(B, s)
  <2>7. B = [s \in Up(n + 1) |-> NA(s)]
    BY DEF B
  <2>8. \A s \in Up(n + 1) : NA(s) = NB(s)
    BY <2>6
  <2> HIDE DEF NA, NB, Next1, Up
  <2>9. B = [s \in Up(n + 1) |-> NB(s)]
    BY <2>7, <2>8
  <2>10. B = [s \in Up(n + 1) |-> Next1(B, s)]
    BY <2>9 DEF NB
  <2>11. \E C : C = [s \in Up(n + 1) |-> Next1(C, s)]
    BY <2>10
  <2> QED
    BY <2>11 DEF I
<1> HIDE DEF I
<1>3. Nat \subseteq I
  BY <1>1, <1>2, NatSets
<1>4. Cardinality(S) \in Nat /\ Up(Cardinality(S)) = SUBSET S
  BY FS_CardinalityType, FS_Subset
<1>5. Cardinality(S) \in I
  BY <1>3, <1>4
<1>6. \E A : A = [s \in Up(Cardinality(S)) |-> Next1(A, s)]
  BY <1>5 DEF I
<1>7. PICK A : A = [s \in Up(Cardinality(S)) |-> Next1(A, s)]
  BY <1>6
<1> HIDE DEF Up
<1>8. A = [s \in SUBSET S |-> Next1(A, s)]
  BY <1>4, <1>7
<1>9. Recursion(A, f, S)
  BY <1>8 DEF Recursion
<1> QED
  BY <1>9

\* What is defined as they are is a function of sums.
LEMMA SumsFollow ==
  ASSUME NEW S, NEW f, NEW A, Recursion(A, f, S)
  PROVE  Sums(A, f, S)
<1> DEFINE E(s) == IF s = {} THEN 0 ELSE f[One(s)] + A[s \ {One(s)}]
<1>1. A = [s \in SUBSET S |-> E(s)]
  BY DEF Recursion
<1> HIDE DEF E
<1>2. \A s \in SUBSET S : A[s] = E(s)
  BY <1>1
<1> QED
  BY <1>2 DEF E, Sums

LEMMA SumsAre ==
  ASSUME NEW S, IsFiniteSet(S), NEW f
  PROVE  \E A : Sums(A, f, S)
BY SumsExist, SumsFollow

\* Of any function of sums, its value is the sum.
LEMMA SumIs ==
  ASSUME NEW S, IsFiniteSet(S), NEW f, NEW B, Sums(B, f, S)
  PROVE  \A s \in SUBSET S : SumOf(f, s) = B[s]
<1> SUFFICES ASSUME NEW s \in SUBSET S PROVE SumOf(f, s) = B[s]
  OBVIOUS
<1>1. IsFiniteSet(s)
  BY FS_Subset
<1> DEFINE Q(A) == Recursion(A, f, s)
           C    == CHOOSE A : Q(A)
<1>2. SumOf(f, s) = C[s]
  BY DEF SumOf, MapThenSumSet, MapThenFoldSet, One, Recursion
<1>3. \E A : Q(A)
  BY <1>1, SumsExist
<1>4. Q(C)
  <2> HIDE DEF Q
  <2> QED
    BY <1>3
<1>5. Sums(C, f, s)
  <2> HIDE DEF C
  <2> QED
    BY <1>4, SumsFollow
<1>6. Sums(B, f, s)
  BY DEF Sums
<1> HIDE DEF C
<1>7. C[s] = B[s]
  BY <1>1, <1>5, <1>6, SumsUnique
<1> QED
  BY <1>2, <1>7

LEMMA SumStep ==
  ASSUME NEW S, IsFiniteSet(S), NEW f
  PROVE  SumOf(f, S) = IF S = {} THEN 0 ELSE f[One(S)] + SumOf(f, S \ {One(S)})
<1>1. \E A : Sums(A, f, S)
  BY SumsAre
<1>2. PICK A : Sums(A, f, S)
  BY <1>1
<1>3. \A s \in SUBSET S : SumOf(f, s) = A[s]
  BY <1>2, SumIs
<1>4. S \in SUBSET S /\ S \ {One(S)} \in SUBSET S
  OBVIOUS
<1>5. A[S] = IF S = {} THEN 0 ELSE f[One(S)] + A[S \ {One(S)}]
  BY <1>2, <1>4 DEF Sums
<1> QED
  BY <1>3, <1>4, <1>5

\* Sums of what agrees agree.
LEMMA SumAgrees ==
  ASSUME NEW S, IsFiniteSet(S), NEW f, NEW g, \A x \in S : f[x] = g[x]
  PROVE  SumOf(f, S) = SumOf(g, S)
<1>1. (\E A : Sums(A, f, S)) /\ (\E B : Sums(B, g, S))
  BY SumsAre
<1>2. PICK A : Sums(A, f, S)
  BY <1>1
<1>3. PICK B : Sums(B, g, S)
  BY <1>1
<1>4. SumOf(f, S) = A[S] /\ SumOf(g, S) = B[S] /\ A[S] = B[S]
  BY <1>2, <1>3, SumIs, SumsUnique
<1> QED
  BY <1>4

\* A sum of naturals is a natural, and any element may be taken first.
LEMMA SumTakes ==
  ASSUME NEW S, IsFiniteSet(S), NEW f, \A x \in S : f[x] \in Nat
  PROVE  /\ SumOf(f, S) \in Nat
         /\ \A x \in S : SumOf(f, S) = f[x] + SumOf(f, S \ {x}) /\ SumOf(f, S \ {x}) \in Nat
<1> DEFINE I == {n \in Nat : \A s \in SUBSET S : Cardinality(s) = n =>
                   /\ SumOf(f, s) \in Nat
                   /\ \A x \in s : /\ SumOf(f, s) = f[x] + SumOf(f, s \ {x})
                                   /\ SumOf(f, s \ {x}) \in Nat}
<1>0. \A s \in SUBSET S : IsFiniteSet(s) /\ Cardinality(s) \in Nat
  BY FS_Subset, FS_CardinalityType
<1>1. 0 \in I
  <2>1. ASSUME NEW s \in SUBSET S, Cardinality(s) = 0 PROVE SumOf(f, s) \in Nat /\ s = {}
    <3>1. s = {}
      BY <1>0, <2>1, FS_EmptySet
    <3> QED
      BY <1>0, <3>1, SumStep
  <2> QED
    BY <2>1
<1>2. ASSUME NEW n \in Nat, n \in I PROVE n + 1 \in I
  <2>1. ASSUME NEW s \in SUBSET S, Cardinality(s) = n + 1
        PROVE  /\ SumOf(f, s) \in Nat
               /\ \A x \in s : SumOf(f, s) = f[x] + SumOf(f, s \ {x}) /\ SumOf(f, s \ {x}) \in Nat
    <3>1. s # {}
      <4>1. Cardinality({}) = 0 /\ Cardinality(s) # 0
        BY <1>2, <2>1, FS_EmptySet
      <4> QED
        BY <4>1
    <3> DEFINE c == One(s)
    <3>2. c \in s
      BY <3>1, OneOf
    <3>3. SumOf(f, s) = f[c] + SumOf(f, s \ {c})
      BY <1>0, <3>1, SumStep
    <3> HIDE DEF c
    <3>4. \A x \in s : s \ {x} \in SUBSET S /\ Cardinality(s \ {x}) = n
      BY <1>0, <2>1, OneLess
    <3>5. \A x \in s : SumOf(f, s \ {x}) \in Nat
      BY <1>2, <3>4
    <3>6. SumOf(f, s) \in Nat
      <4>1. f[c] \in Nat /\ SumOf(f, s \ {c}) \in Nat
        BY <3>2, <3>5
      <4> QED
        BY <3>3, <4>1
    <3>7. ASSUME NEW x \in s, x # c PROVE SumOf(f, s) = f[x] + SumOf(f, s \ {x})
      <4>1. x \in s \ {c} /\ c \in s \ {x} /\ (s \ {c}) \ {x} = (s \ {x}) \ {c}
        BY <3>2, <3>7
      <4>2. SumOf(f, s \ {c}) = f[x] + SumOf(f, (s \ {c}) \ {x})
        BY <1>2, <3>2, <3>4, <4>1
      <4>3. SumOf(f, s \ {x}) = f[c] + SumOf(f, (s \ {x}) \ {c})
        BY <1>2, <3>4, <4>1
      <4> DEFINE a == SumOf(f, s) b == SumOf(f, s \ {c}) d == SumOf(f, s \ {x})
                 e == SumOf(f, (s \ {x}) \ {c})
      <4>4. a \in Nat /\ b \in Nat /\ d \in Nat /\ f[x] \in Nat /\ f[c] \in Nat
        BY <3>2, <3>5, <3>6
      <4>6. e \in Nat
        BY <1>2, <3>4, <4>1
      <4>7. a = f[c] + b /\ b = f[x] + e /\ d = f[c] + e
        BY <3>3, <4>1, <4>2, <4>3
      <4> HIDE DEF a, b, d, e
      <4>8. a = f[x] + d
        BY <4>4, <4>6, <4>7
      <4> QED
        BY <4>8 DEF a, d
    <3> QED
      BY <3>3, <3>5, <3>6, <3>7
  <2> QED
    BY <2>1
<1> HIDE DEF I
<1>3. Nat \subseteq I
  BY <1>1, <1>2, NatSets
<1>4. \A s \in SUBSET S : SumOf(f, s) \in Nat
        /\ \A x \in s : SumOf(f, s) = f[x] + SumOf(f, s \ {x}) /\ SumOf(f, s \ {x}) \in Nat
  BY <1>0, <1>3 DEF I
<1> QED
  BY <1>4

\* Sums over sets that have nothing in common add up.
LEMMA SumApart ==
  ASSUME NEW A, IsFiniteSet(A), NEW B, IsFiniteSet(B), A \cap B = {},
         NEW f, \A x \in A \cup B : f[x] \in Nat
  PROVE  SumOf(f, A \cup B) = SumOf(f, A) + SumOf(f, B)
<1> DEFINE I == {s \in SUBSET B : SumOf(f, A \cup s) = SumOf(f, A) + SumOf(f, s)}
<1>0. SumOf(f, A) \in Nat
  BY SumTakes
<1>1. {} \in I
  <2>1. SumOf(f, {}) = 0 /\ A \cup {} = A
    BY FS_EmptySet, SumStep
  <2> QED
    BY <1>0, <2>1
<1>2. ASSUME NEW s \in SUBSET B, NEW x \in B \ s, s \in I PROVE s \cup {x} \in I
  <2>1. IsFiniteSet(s \cup {x}) /\ IsFiniteSet(A \cup (s \cup {x}))
    <3>1. s \cup {x} \in SUBSET B
      OBVIOUS
    <3> DEFINE u == s \cup {x}
    <3> HIDE DEF u, I
    <3>2. IsFiniteSet(u)
      BY <3>1, FS_Subset DEF u
    <3>3. IsFiniteSet(A \cup u)
      BY <3>2, FS_Union
    <3> QED
      BY <3>2, <3>3 DEF u
  <2>2. /\ x \in s \cup {x} /\ (s \cup {x}) \ {x} = s
        /\ x \in A \cup (s \cup {x}) /\ (A \cup (s \cup {x})) \ {x} = A \cup s
    BY <1>2
  <2>3. /\ \A y \in s \cup {x} : f[y] \in Nat
        /\ \A y \in A \cup (s \cup {x}) : f[y] \in Nat
    BY <1>2
  <2>4. /\ SumOf(f, s \cup {x}) = f[x] + SumOf(f, s) /\ SumOf(f, s) \in Nat
        /\ SumOf(f, A \cup (s \cup {x})) = f[x] + SumOf(f, A \cup s)
    BY <2>1, <2>2, <2>3, SumTakes
  <2> DEFINE a == SumOf(f, A)
             b == SumOf(f, s)
             c == SumOf(f, s \cup {x})
             d == SumOf(f, A \cup (s \cup {x}))
             e == SumOf(f, A \cup s)
  <2>5. /\ a \in Nat /\ b \in Nat /\ f[x] \in Nat
        /\ c = f[x] + b /\ d = f[x] + e /\ e = a + b
    BY <1>0, <1>2, <2>3, <2>4
  <2> HIDE DEF a, b, c, d, e
  <2>6. d = a + c
    BY <2>5
  <2> QED
    BY <1>2, <2>6 DEF a, c, d
<1>3. B \in I
  <2> HIDE DEF I
  <2> QED
    BY <1>1, <1>2, SetInduction
<1> QED
  BY <1>3

\* A sum over the elements whose key is in T, taken key by key.
LEMMA SumByKey ==
  ASSUME NEW J, IsFiniteSet(J), NEW g, \A x \in J : g[x] \in Nat,
         NEW key, NEW T, IsFiniteSet(T)
  PROVE  SumOf(g, {x \in J : key[x] \in T})
           = SumOf([t \in T |-> SumOf(g, {x \in J : key[x] = t})], T)
<1> DEFINE Of(s) == {x \in J : key[x] \in s}
           h == [t \in T |-> SumOf(g, {x \in J : key[x] = t})]
           I == {s \in SUBSET T : SumOf(g, Of(s)) = SumOf(h, s)}
<1>0. \A s : IsFiniteSet(Of(s)) /\ SumOf(g, Of(s)) \in Nat
  <2>1. \A s : IsFiniteSet(Of(s)) /\ \A x \in Of(s) : g[x] \in Nat
    BY FS_Subset
  <2> QED
    BY <2>1, SumTakes
<1>1. {} \in I
  <2>1. Of({}) = {}
    OBVIOUS
  <2> HIDE DEF Of, h
  <2> QED
    BY <2>1, FS_EmptySet, SumStep
<1>h. \A t \in T : h[t] = SumOf(g, Of({t})) /\ h[t] \in Nat
  <2> SUFFICES ASSUME NEW t \in T PROVE h[t] = SumOf(g, Of({t})) /\ h[t] \in Nat
    OBVIOUS
  <2>1. {x \in J : key[x] = t} = Of({t})
    OBVIOUS
  <2>2. h[t] = SumOf(g, {x \in J : key[x] = t})
    OBVIOUS
  <2> HIDE DEF Of, h
  <2> QED
    BY <1>0, <2>1, <2>2
<1>2. ASSUME NEW s \in SUBSET T, NEW x \in T \ s, s \in I PROVE s \cup {x} \in I
  <2>1. Of(s \cup {x}) = Of(s) \cup Of({x}) /\ Of(s) \cap Of({x}) = {}
    BY <1>2
  <2>2. \A y \in Of(s) \cup Of({x}) : g[y] \in Nat
    OBVIOUS
  <2>3. SumOf(g, Of(s)) = SumOf(h, s)
    BY <1>2
  <2> HIDE DEF Of, h
  <2>4. SumOf(g, Of(s \cup {x})) = SumOf(g, Of(s)) + SumOf(g, Of({x}))
    <3> DEFINE U == Of(s)
               V == Of({x})
    <3>1. IsFiniteSet(U) /\ IsFiniteSet(V) /\ U \cap V = {} /\ \A y \in U \cup V : g[y] \in Nat
      BY <1>0, <2>1, <2>2
    <3>2. Of(s \cup {x}) = U \cup V
      BY <2>1
    <3> HIDE DEF U, V
    <3>3. SumOf(g, U \cup V) = SumOf(g, U) + SumOf(g, V)
      BY <3>1, SumApart
    <3>4. SumOf(g, Of(s \cup {x})) = SumOf(g, U) + SumOf(g, V)
      BY <3>2, <3>3
    <3> QED
      BY <3>4 DEF U, V
  <2>5. SumOf(h, s \cup {x}) = h[x] + SumOf(h, s)
    <3>1. IsFiniteSet(s \cup {x}) /\ x \in s \cup {x} /\ (s \cup {x}) \ {x} = s
      BY <1>2, FS_Subset
    <3>2. \A t \in s \cup {x} : h[t] \in Nat
      BY <1>h
    <3> QED
      BY <3>1, <3>2, SumTakes
  <2>6. h[x] = SumOf(g, Of({x})) /\ h[x] \in Nat /\ SumOf(g, Of(s)) \in Nat
    BY <1>0, <1>h
  <2>7. SumOf(g, Of(s \cup {x})) = SumOf(h, s \cup {x})
    BY <2>3, <2>4, <2>5, <2>6
  <2> QED
    BY <1>2, <2>7
<1>3. T \in I
  <2> HIDE DEF I
  <2> QED
    BY <1>1, <1>2, SetInduction
<1> QED
  BY <1>3

\* The image of a finite set is finite and no larger.
LEMMA ImageFinite ==
  ASSUME NEW S, IsFiniteSet(S), NEW f, DOMAIN f = S
  PROVE  IsFiniteSet({f[x] : x \in S}) /\ Cardinality({f[x] : x \in S}) <= Cardinality(S)
<1> DEFINE T == {f[x] : x \in S}
           g == [x \in S |-> f[x]]
<1>1. g \in [S -> T] /\ \A y \in T : \E x \in S : g[x] = y
  OBVIOUS
<1>2. g \in Surjection(S, T)
  BY <1>1 DEF Surjection
<1> HIDE DEF g
<1> QED
  BY <1>2, FS_Surjection

LEMMA MaxOf ==
  ASSUME NEW T \in SUBSET Nat, IsFiniteSet(T), T # {}
  PROVE  Max(T) \in T /\ \A y \in T : Max(T) >= y
<1> DEFINE I == {s \in SUBSET T : s = {} \/ \E x \in s : \A y \in s : x >= y}
<1>1. {} \in I
  OBVIOUS
<1>2. ASSUME NEW s \in SUBSET T, NEW z \in T \ s, s \in I PROVE s \cup {z} \in I
  <2>1. CASE s = {}
    BY <2>1
  <2>2. CASE s # {}
    <3>1. PICK x \in s : \A y \in s : x >= y
      BY <1>2, <2>2
    <3>2. x \in Nat /\ z \in Nat /\ \A y \in s : y \in Nat
      OBVIOUS
    <3>3. CASE x >= z
      <4>1. \A y \in s \cup {z} : x >= y
        BY <3>1, <3>3
      <4> QED
        BY <4>1
    <3>4. CASE ~(x >= z)
      <4>1. \A y \in s \cup {z} : z >= y
        BY <3>1, <3>2, <3>4
      <4> QED
        BY <4>1
    <3> QED
      BY <3>3, <3>4
  <2> QED
    BY <2>1, <2>2
<1>3. T \in I
  <2> HIDE DEF I
  <2> QED
    BY <1>1, <1>2, SetInduction
<1>4. \E x \in T : \A y \in T : x >= y
  BY <1>3
<1> QED
  BY <1>4 DEF Max

-----------------------------------------------------------------------------

(***************************************************************************)
(* The sums that the pages show.                                           *)
(***************************************************************************)

\* Usd is the sum of the costs that are there.
LEMMA UsdIs ==
  ASSUME NEW rows, IsFiniteSet(rows)
  PROVE  Usd(rows) = SumOf([r \in rows |-> IF r.bill.priced THEN r.bill.usd ELSE 0], rows)
<1> DEFINE f == [r \in rows |-> IF r.bill.priced THEN r.bill.usd ELSE 0]
           Q(A) == A = [s \in SUBSET rows |-> IF s = {} THEN 0
                     ELSE (IF One(s).bill.priced THEN One(s).bill.usd ELSE 0) + A[s \ {One(s)}]]
           C    == CHOOSE A : Q(A)
<1>1. Usd(rows) = C[rows]
  BY DEF Usd, MapThenSumSet, MapThenFoldSet, One
<1>2. ASSUME NEW s \in SUBSET rows, s # {}
      PROVE  f[One(s)] = IF One(s).bill.priced THEN One(s).bill.usd ELSE 0
  BY <1>2, OneOf
<1>3. PICK A : Recursion(A, f, rows)
  BY SumsExist
<1>4. ASSUME NEW A0 PROVE Recursion(A0, f, rows) <=> Q(A0)
  BY <1>2 DEF Recursion
<1>5. Q(C)
  <2> HIDE DEF Q
  <2> QED
    BY <1>3, <1>4
<1>6. Sums(C, f, rows)
  <2> HIDE DEF C, Q
  <2> QED
    BY <1>4, <1>5, SumsFollow
<1> QED
  <2> HIDE DEF C, f
  <2> QED
    BY <1>1, <1>6, SumIs DEF f

\* The count of the rows of each source.
LEMMA SourcesCount ==
  ASSUME NEW S, NEW F, IsFiniteSet(S)
  PROVE  MapThenSumSet(LAMBDA x : Cardinality(F[x]), S) = SumOf([x \in S |-> Cardinality(F[x])], S)
<1> DEFINE f == [x \in S |-> Cardinality(F[x])]
           Q(A) == A = [s \in SUBSET S |-> IF s = {} THEN 0
                                             ELSE Cardinality(F[One(s)]) + A[s \ {One(s)}]]
           C == CHOOSE A : Q(A)
<1>1. MapThenSumSet(LAMBDA x : Cardinality(F[x]), S) = C[S]
  BY DEF MapThenSumSet, MapThenFoldSet, One
<1>2. ASSUME NEW s \in SUBSET S, s # {} PROVE f[One(s)] = Cardinality(F[One(s)])
  BY <1>2, OneOf
<1>3. PICK A : Recursion(A, f, S)
  BY SumsExist
<1>4. ASSUME NEW B PROVE Recursion(B, f, S) <=> Q(B)
  BY <1>2 DEF Recursion
<1>5. Q(C)
  <2> HIDE DEF Q
  <2> QED
    BY <1>3, <1>4
<1>6. Sums(C, f, S)
  <2> HIDE DEF C, Q
  <2> QED
    BY <1>4, <1>5, SumsFollow
<1> QED
  <2> HIDE DEF C, f
  <2> QED
    BY <1>1, <1>6, SumIs DEF f

\* The count of the rows of each status.
LEMMA StatusesCount ==
  ASSUME NEW S, NEW J, IsFiniteSet(S)
  PROVE  MapThenSumSet(LAMBDA t : Cardinality({j \in J : j.status = t}), S)
           = SumOf([t \in S |-> Cardinality({j \in J : j.status = t})], S)
<1> DEFINE f == [t \in S |-> Cardinality({j \in J : j.status = t})]
           Q(A) == A = [s \in SUBSET S |-> IF s = {} THEN 0
                     ELSE Cardinality({j \in J : j.status = One(s)}) + A[s \ {One(s)}]]
           C == CHOOSE A : Q(A)
<1>1. MapThenSumSet(LAMBDA t : Cardinality({j \in J : j.status = t}), S) = C[S]
  BY DEF MapThenSumSet, MapThenFoldSet, One
<1>2. ASSUME NEW s \in SUBSET S, s # {} PROVE f[One(s)] = Cardinality({j \in J : j.status = One(s)})
  BY <1>2, OneOf
<1>3. PICK A : Recursion(A, f, S)
  BY SumsExist
<1>4. ASSUME NEW B PROVE Recursion(B, f, S) <=> Q(B)
  BY <1>2 DEF Recursion
<1>5. Q(C)
  <2> HIDE DEF Q
  <2> QED
    BY <1>3, <1>4
<1>6. Sums(C, f, S)
  <2> HIDE DEF C, Q
  <2> QED
    BY <1>4, <1>5, SumsFollow
<1> QED
  <2> HIDE DEF C, f
  <2> QED
    BY <1>1, <1>6, SumIs DEF f

\* The count of the rows of each part of a split.
LEMMA PartsCount ==
  ASSUME NEW S, IsFiniteSet(S)
  PROVE  MapThenSumSet(LAMBDA t : Cardinality(t[2]), S) = SumOf([t \in S |-> Cardinality(t[2])], S)
<1> DEFINE f == [t \in S |-> Cardinality(t[2])]
           Q(A) == A = [s \in SUBSET S |-> IF s = {} THEN 0
                                             ELSE Cardinality(One(s)[2]) + A[s \ {One(s)}]]
           C == CHOOSE A : Q(A)
<1>1. MapThenSumSet(LAMBDA t : Cardinality(t[2]), S) = C[S]
  BY DEF MapThenSumSet, MapThenFoldSet, One
<1>2. ASSUME NEW s \in SUBSET S, s # {} PROVE f[One(s)] = Cardinality(One(s)[2])
  BY <1>2, OneOf
<1>3. PICK A : Recursion(A, f, S)
  BY SumsExist
<1>4. ASSUME NEW B PROVE Recursion(B, f, S) <=> Q(B)
  BY <1>2 DEF Recursion
<1>5. Q(C)
  <2> HIDE DEF Q
  <2> QED
    BY <1>3, <1>4
<1>6. Sums(C, f, S)
  <2> HIDE DEF C, Q
  <2> QED
    BY <1>4, <1>5, SumsFollow
<1> QED
  <2> HIDE DEF C, f
  <2> QED
    BY <1>1, <1>6, SumIs DEF f

\* The sum of the dearest cost of each machine.
LEMMA MoneyIs ==
  ASSUME NEW S, NEW R, IsFiniteSet(S)
  PROVE  MapThenSumSet(LAMBDA v : Max({j.cost : j \in {k \in R : k.vms = v}}), S)
           = SumOf([v \in S |-> Max({j.cost : j \in {k \in R : k.vms = v}})], S)
<1> DEFINE f == [v \in S |-> Max({j.cost : j \in {k \in R : k.vms = v}})]
           Q(A) == A = [s \in SUBSET S |-> IF s = {} THEN 0
                     ELSE Max({j.cost : j \in {k \in R : k.vms = One(s)}}) + A[s \ {One(s)}]]
           C == CHOOSE A : Q(A)
<1>1. MapThenSumSet(LAMBDA v : Max({j.cost : j \in {k \in R : k.vms = v}}), S) = C[S]
  BY DEF MapThenSumSet, MapThenFoldSet, One
<1>2. ASSUME NEW s \in SUBSET S, s # {}
      PROVE  f[One(s)] = Max({j.cost : j \in {k \in R : k.vms = One(s)}})
  BY <1>2, OneOf
<1>3. PICK A : Recursion(A, f, S)
  BY SumsExist
<1>4. ASSUME NEW B PROVE Recursion(B, f, S) <=> Q(B)
  BY <1>2 DEF Recursion
<1>5. Q(C)
  <2> HIDE DEF Q
  <2> QED
    BY <1>3, <1>4
<1>6. Sums(C, f, S)
  <2> HIDE DEF C, Q
  <2> QED
    BY <1>4, <1>5, SumsFollow
<1> QED
  <2> HIDE DEF C, f
  <2> QED
    BY <1>1, <1>6, SumIs DEF f

\* The sum of the costs of join rows.
LEMMA CostInIs ==
  ASSUME NEW S, IsFiniteSet(S)
  PROVE  CostIn(S) = SumOf([j \in S |-> j.cost], S)
<1> DEFINE f == [j \in S |-> j.cost]
           Q(A) == A = [s \in SUBSET S |-> IF s = {} THEN 0
                                             ELSE One(s).cost + A[s \ {One(s)}]]
           C == CHOOSE A : Q(A)
<1>1. CostIn(S) = C[S]
  BY DEF CostIn, MapThenSumSet, MapThenFoldSet, One
<1>2. ASSUME NEW s \in SUBSET S, s # {}
      PROVE  f[One(s)] = One(s).cost
  BY <1>2, OneOf
<1>3. PICK A : Recursion(A, f, S)
  BY SumsExist
<1>4. ASSUME NEW B PROVE Recursion(B, f, S) <=> Q(B)
  BY <1>2 DEF Recursion
<1>5. Q(C)
  <2> HIDE DEF Q
  <2> QED
    BY <1>3, <1>4
<1>6. Sums(C, f, S)
  <2> HIDE DEF C, Q
  <2> QED
    BY <1>4, <1>5, SumsFollow
<1> QED
  <2> HIDE DEF C, f
  <2> QED
    BY <1>1, <1>6, SumIs DEF f

-----------------------------------------------------------------------------

(***************************************************************************)
(* The rows of the costs and of the join.                                  *)
(***************************************************************************)

\* The rows of the join: of the costs of a source and resource, and of a machine alone.
CostRow(rows, r) ==
  [source |-> r.source, res |-> r.bill.res, status |-> JoinStatus(r.bill.res),
   vms |-> IF r.bill.res = NoRes THEN {} ELSE VmsOf[r.bill.res],
   cats |-> {x.bill.cat : x \in GroupOf(rows, r)}, cost |-> Usd(GroupOf(rows, r))]
VmRow(v) == [source |-> "", res |-> NoRes, status |-> "unmatched_miq_only",
             vms |-> {v}, cats |-> {}, cost |-> 0]

LEMMA VmRowFields ==
  ASSUME NEW v
  PROVE  /\ VmRow(v).res = NoRes /\ VmRow(v).status = "unmatched_miq_only"
         /\ VmRow(v).vms = {v} /\ VmRow(v).cats = {} /\ VmRow(v).cost = 0
BY Zenon DEF VmRow

\* A row of the join is of the cost rows of one source and resource, or of a machine
\* that no cost row names.
LEMMA JoinRow ==
  ASSUME NEW rows, NEW j \in JoinOf(rows)
  PROVE  \/ \E r \in rows : j = CostRow(rows, r)
         \/ \E v \in Vms : j = VmRow(v)
BY Zenon DEF JoinOf, CostRow, GroupOf, VmRow

\* No rows cost nothing.
LEMMA NothingCosts == Usd({}) = 0
<1> DEFINE It == [s \in SUBSET {} |-> 0]
<1>1. SUBSET {} = {{}}
  OBVIOUS
<1> QED
  BY DEF Usd, MapThenSumSet, MapThenFoldSet

\* The cost rows: each has its source and is of what that source stores.
LEMMA RowsFinite ==
  ASSUME NEW f \in [Sources -> SUBSET Bills]
  PROVE  /\ IsFiniteSet(RowsOf(f))
         /\ \A r \in RowsOf(f) : r.source \in Sources /\ r.bill \in f[r.source] /\ r.bill \in Bills
         /\ \A s \in Sources : \A b \in f[s] : [source |-> s, bill |-> b] \in RowsOf(f)
         /\ \A r \in RowsOf(f) : r = [source |-> r.source, bill |-> r.bill]
<1> DEFINE g == [p \in Sources \X Bills |-> [source |-> p[1], bill |-> p[2]]]
           T == {g[p] : p \in Sources \X Bills}
<1>1. IsFiniteSet(Sources \X Bills)
  BY ConsoleAssumption, FS_Product
<1>2. IsFiniteSet(T)
  <2> DOMAIN g = Sources \X Bills
    OBVIOUS
  <2> HIDE DEF g
  <2> QED
    BY <1>1, ImageFinite
<1>3. ASSUME NEW r \in RowsOf(f)
      PROVE  /\ r.source \in Sources /\ r.bill \in f[r.source] /\ r.bill \in Bills
             /\ r = [source |-> r.source, bill |-> r.bill]
  <2>1. PICK s \in Sources : r \in {[source |-> s, bill |-> b] : b \in f[s]}
    BY DEF RowsOf
  <2>2. PICK b \in f[s] : r = [source |-> s, bill |-> b]
    BY <2>1
  <2> QED
    BY <2>2
<1>4. RowsOf(f) \in SUBSET T
  <2>1. ASSUME NEW r \in RowsOf(f) PROVE r \in T
    <3>1. <<r.source, r.bill>> \in Sources \X Bills /\ r = [source |-> r.source, bill |-> r.bill]
      BY <1>3
    <3>2. r = g[<<r.source, r.bill>>]
      BY <3>1
    <3> QED
      BY <3>1, <3>2
  <2> QED
    BY <2>1
<1>5. IsFiniteSet(RowsOf(f))
  BY <1>2, <1>4, FS_Subset
<1>6. \A s \in Sources : \A b \in f[s] : [source |-> s, bill |-> b] \in RowsOf(f)
  BY DEF RowsOf
<1> QED
  BY <1>3, <1>5, <1>6

\* Costs are natural numbers.
LEMMA UsdNat ==
  ASSUME NEW f \in [Sources -> SUBSET Bills], NEW rows \in SUBSET RowsOf(f)
  PROVE  Usd(rows) \in Nat
<1>1. IsFiniteSet(rows)
  BY RowsFinite, FS_Subset
<1> DEFINE g == [r \in rows |-> IF r.bill.priced THEN r.bill.usd ELSE 0]
<1>2. \A r \in rows : g[r] \in Nat
  <2>1. ASSUME NEW r \in rows PROVE r.bill.usd \in Nat
    <3>1. r.bill \in Bills
      BY RowsFinite
    <3> QED
      BY <3>1, ConsoleAssumption
  <2> QED
    BY <2>1
<1>3. Usd(rows) = SumOf(g, rows)
  BY <1>1, UsdIs
<1> HIDE DEF g
<1> QED
  BY <1>1, <1>2, <1>3, SumTakes

\* The values of join_status.
Statuses == {"matched", "unmatched_focus_only", "unmatched_miq_only", "no_resource_id", "ambiguous"}

\* A join is finite, its rows have a status and a cost.
LEMMA JoinShape ==
  ASSUME NEW f \in [Sources -> SUBSET Bills]
  PROVE  /\ IsFiniteSet(JoinOf(RowsOf(f)))
         /\ \A j \in JoinOf(RowsOf(f)) : j.cost \in Nat /\ j.status \in Statuses
<1> DEFINE rows == RowsOf(f)
           c == [r \in rows |-> CostRow(rows, r)]
           m == [v \in Vms |-> VmRow(v)]
           C == {c[r] : r \in rows}
           M == {m[v] : v \in Vms}
<1>1. IsFiniteSet(C)
  <2> DOMAIN c = rows /\ IsFiniteSet(rows)
    BY RowsFinite
  <2> HIDE DEF c, rows
  <2> QED
    BY ImageFinite
<1>2. IsFiniteSet(M)
  <2> DOMAIN m = Vms
    OBVIOUS
  <2> HIDE DEF m
  <2> QED
    BY ConsoleAssumption, ImageFinite
<1>3. IsFiniteSet(C \cup M)
  <2> HIDE DEF C, M
  <2> QED
    BY <1>1, <1>2, FS_Union
<1>4. JoinOf(rows) \in SUBSET (C \cup M)
  <2>1. ASSUME NEW j \in JoinOf(rows) PROVE j \in C \cup M
    <3> HIDE DEF rows
    <3> QED
      BY JoinRow
  <2> QED
    BY <2>1
<1>5. IsFiniteSet(JoinOf(rows))
  <2> HIDE DEF C, M, rows
  <2> QED
    BY <1>3, <1>4, FS_Subset
<1>6. ASSUME NEW j \in JoinOf(rows) PROVE j.cost \in Nat /\ j.status \in Statuses
  <2> HIDE DEF rows
  <2>1. ASSUME NEW r \in rows, j = CostRow(rows, r) PROVE j.cost \in Nat /\ j.status \in Statuses
    <3>1. j.cost = Usd(GroupOf(rows, r)) /\ j.status = JoinStatus(r.bill.res)
      BY <2>1 DEF CostRow
    <3>2. GroupOf(rows, r) \in SUBSET RowsOf(f)
      BY DEF GroupOf, rows
    <3>3. JoinStatus(r.bill.res) \in Statuses
      BY DEF JoinStatus, Statuses
    <3> QED
      BY <3>1, <3>2, <3>3, UsdNat
  <2>2. ASSUME NEW v \in Vms, j = VmRow(v) PROVE j.cost \in Nat /\ j.status \in Statuses
    BY <2>2, VmRowFields DEF Statuses
  <2> QED
    BY <2>1, <2>2, JoinRow
<1> QED
  BY <1>5, <1>6

\* Cost rows have the same row of the join when they are of one source and resource.
LEMMA CostRowKey ==
  ASSUME NEW rows, NEW q \in rows, NEW r \in rows
  PROVE  CostRow(rows, q) = CostRow(rows, r) <=> q \in GroupOf(rows, r)
<1>1. ASSUME CostRow(rows, q) = CostRow(rows, r) PROVE q \in GroupOf(rows, r)
  <2>1. q.source = r.source /\ q.bill.res = r.bill.res
    <3>1. /\ CostRow(rows, q).source = q.source /\ CostRow(rows, q).res = q.bill.res
          /\ CostRow(rows, r).source = r.source /\ CostRow(rows, r).res = r.bill.res
      BY DEF CostRow
    <3> QED
      BY <1>1, <3>1
  <2> QED
    BY <2>1 DEF GroupOf
<1>2. ASSUME q \in GroupOf(rows, r) PROVE CostRow(rows, q) = CostRow(rows, r)
  <2>1. q.source = r.source /\ q.bill.res = r.bill.res
    BY <1>2 DEF GroupOf
  <2>2. GroupOf(rows, q) = GroupOf(rows, r)
    BY <2>1 DEF GroupOf
  <2> QED
    BY <2>1, <2>2 DEF CostRow
<1> QED
  BY <1>1, <1>2

\* What rows of the join say that they cost, the cost rows that they were made of do.
LEMMA JoinCarries ==
  ASSUME NEW f \in [Sources -> SUBSET Bills], NEW Q \in SUBSET JoinOf(RowsOf(f))
  PROVE  CostIn(Q) = Usd({r \in RowsOf(f) : CostRow(RowsOf(f), r) \in Q})
<1> DEFINE rows == RowsOf(f)
           g == [r \in rows |-> IF r.bill.priced THEN r.bill.usd ELSE 0]
           key == [r \in rows |-> CostRow(rows, r)]
           Of(j) == {r \in rows : key[r] = j}
           X == {r \in rows : key[r] \in Q}
           h == [j \in Q |-> SumOf(g, Of(j))]
           c == [j \in Q |-> j.cost]
<1>1. IsFiniteSet(rows) /\ IsFiniteSet(Q) /\ IsFiniteSet(X)
  BY RowsFinite, JoinShape, FS_Subset
<1>2. \A r \in rows : g[r] \in Nat
  <2>1. ASSUME NEW r \in rows PROVE r.bill.usd \in Nat
    <3>1. r.bill \in Bills
      BY RowsFinite
    <3> QED
      BY <3>1, ConsoleAssumption
  <2> QED
    BY <2>1
<1>3. ASSUME NEW R \in SUBSET rows PROVE Usd(R) = SumOf(g, R)
  <2> DEFINE k == [r \in R |-> IF r.bill.priced THEN r.bill.usd ELSE 0]
  <2>1. IsFiniteSet(R) /\ \A r \in R : k[r] = g[r]
    BY <1>1, FS_Subset
  <2>2. Usd(R) = SumOf(k, R)
    BY <2>1, UsdIs
  <2> HIDE DEF k, g
  <2>3. SumOf(k, R) = SumOf(g, R)
    BY <2>1, SumAgrees
  <2> QED
    BY <2>2, <2>3
<1>4. SumOf(g, X) = SumOf(h, Q)
  <2> HIDE DEF rows, g, key
  <2> QED
    BY <1>1, <1>2, SumByKey
<1>5. ASSUME NEW j \in Q PROVE SumOf(g, Of(j)) = j.cost
  <2>1. CASE \E r \in rows : j = CostRow(rows, r)
    <3>1. PICK r \in rows : j = CostRow(rows, r)
      BY <2>1
    <3>2. Of(j) = GroupOf(rows, r)
      <4>1. \A q \in rows : key[q] = CostRow(rows, q)
        OBVIOUS
      <4>2. \A q : q \in GroupOf(rows, r) => q \in rows
        BY DEF GroupOf
      <4> HIDE DEF rows, key
      <4> QED
        BY <3>1, <4>1, <4>2, CostRowKey
    <3>3. j.cost = Usd(GroupOf(rows, r)) /\ GroupOf(rows, r) \in SUBSET rows
      BY <3>1 DEF CostRow, GroupOf
    <3> HIDE DEF rows, g, Of
    <3> QED
      BY <1>3, <3>2, <3>3
  <2>2. CASE ~ \E r \in rows : j = CostRow(rows, r)
    <3>1. PICK v \in Vms : j = VmRow(v)
      BY <2>2, JoinRow
    <3>2. j.cost = 0
      BY <3>1, VmRowFields
    <3>3. Of(j) = {}
      BY <2>2
    <3>4. SumOf(g, {}) = 0
      BY FS_EmptySet, SumStep
    <3> HIDE DEF rows, g, Of
    <3> QED
      BY <3>2, <3>3, <3>4
  <2> QED
    BY <2>1, <2>2
<1>6. SumOf(h, Q) = SumOf(c, Q)
  <2>1. \A j \in Q : h[j] = c[j]
    <3> HIDE DEF g, Of
    <3> QED
      BY <1>5
  <2> HIDE DEF h, c
  <2> QED
    BY <1>1, <2>1, SumAgrees
<1>7. CostIn(Q) = SumOf(c, Q)
  BY <1>1, CostInIs
<1>8. Usd(X) = SumOf(g, X)
  <2> HIDE DEF g, key, rows
  <2> QED
    BY <1>3
<1>9. X = {r \in rows : CostRow(rows, r) \in Q}
  OBVIOUS
<1> HIDE DEF X, g, h, c, key
<1> QED
  BY <1>4, <1>6, <1>7, <1>8, <1>9

\* Every cost row has its row in the join.
LEMMA CostRowsJoin ==
  ASSUME NEW rows, NEW r \in rows
  PROVE  CostRow(rows, r) \in JoinOf(rows) /\ CostRow(rows, r).res = r.bill.res
BY Zenon DEF JoinOf, CostRow

\* So nothing is lost in a join, and nothing counted twice.
LEMMA JoinReconciled ==
  ASSUME TypeOK
  PROVE  MoneyReconciles
<1> SUFFICES ASSUME join = JoinOf(Costs)
             PROVE  /\ CostIn(join) = Usd(Costs)
                    /\ \A res \in Resources :
                         CostIn({j \in join : j.res = res}) = Usd(CostsOf(res))
  BY DEF MoneyReconciles
<1>1. focus \in [Sources -> SUBSET Bills] /\ join = JoinOf(RowsOf(focus)) /\ Costs = RowsOf(focus)
  BY Zenon DEF TypeOK, Costs
<1>2. CostIn(join) = Usd(Costs)
  <2>1. {r \in Costs : CostRow(Costs, r) \in join} = Costs
    BY CostRowsJoin
  <2> QED
    BY <1>1, <2>1, JoinCarries
<1>3. ASSUME NEW res \in Resources PROVE CostIn({j \in join : j.res = res}) = Usd(CostsOf(res))
  <2> DEFINE Q == {j \in join : j.res = res}
  <2>1. Q \in SUBSET JoinOf(RowsOf(focus))
    BY <1>1
  <2>2. {r \in Costs : CostRow(Costs, r) \in Q} = {r \in Costs : r.bill.res = res}
    BY CostRowsJoin
  <2>3. res # NoRes
    BY ConsoleAssumption
  <2>4. {r \in Costs : CostRow(Costs, r) \in Q} = CostsOf(res)
    BY <2>2, <2>3 DEF CostsOf
  <2> HIDE DEF Q
  <2>5. CostIn(Q) = Usd(CostsOf(res))
    BY <1>1, <2>1, <2>4, JoinCarries
  <2> QED
    BY <2>5 DEF Q
<1> QED
  BY <1>2, <1>3

\* The rows whose key is in T, counted key by key.
LEMMA PartsAddUp ==
  ASSUME NEW J, IsFiniteSet(J), NEW key, NEW T, IsFiniteSet(T)
  PROVE  Cardinality({j \in J : key[j] \in T})
           = SumOf([t \in T |-> Cardinality({j \in J : key[j] = t})], T)
<1> DEFINE f == [t \in T |-> Cardinality({j \in J : key[j] = t})]
           Of(s) == {j \in J : key[j] \in s}
           I == {s \in SUBSET T : Cardinality(Of(s)) = SumOf(f, s)}
<1>0. \A s : IsFiniteSet(Of(s)) /\ Cardinality(Of(s)) \in Nat
  BY FS_Subset, FS_CardinalityType
<1>1. {} \in I
  <2>1. Of({}) = {}
    OBVIOUS
  <2> HIDE DEF f, Of
  <2> QED
    BY <2>1, SumStep, FS_EmptySet
<1>2. ASSUME NEW s \in SUBSET T, NEW x \in T \ s, s \in I PROVE s \cup {x} \in I
  <2>1. Of(s \cup {x}) = Of(s) \cup Of({x}) /\ Of(s) \cap Of({x}) = {}
    BY <1>2
  <2>2. f[x] = Cardinality(Of({x}))
    <3>1. Of({x}) = {j \in J : key[j] = x}
      OBVIOUS
    <3> QED
      BY <3>1
  <2>3. Cardinality(Of(s \cup {x})) = Cardinality(Of(s)) + f[x]
    <3> HIDE DEF f, Of
    <3>1. Cardinality(Of(s) \cup Of({x}))
            = Cardinality(Of(s)) + Cardinality(Of({x})) - Cardinality(Of(s) \cap Of({x}))
      BY <1>0, FS_Union
    <3>2. Cardinality(Of(s) \cap Of({x})) = 0
      BY <2>1, FS_EmptySet
    <3>3. Cardinality(Of(s)) \in Nat /\ Cardinality(Of({x})) \in Nat
      BY <1>0
    <3>4. Cardinality(Of(s \cup {x})) = Cardinality(Of(s) \cup Of({x}))
      BY <2>1
    <3> QED
      BY <2>2, <3>1, <3>2, <3>3, <3>4
  <2>4. IsFiniteSet(s \cup {x}) /\ (s \cup {x}) \ {x} = s /\ x \in s \cup {x}
    BY <1>2, FS_Subset
  <2>5. \A t \in s \cup {x} : f[t] \in Nat
    <3>1. \A t \in T : f[t] = Cardinality({j \in J : key[j] = t})
      OBVIOUS
    <3>2. \A t \in T : Cardinality({j \in J : key[j] = t}) \in Nat
      BY FS_Subset, FS_CardinalityType
    <3> HIDE DEF f
    <3> QED
      BY <3>1, <3>2
  <2>6. SumOf(f, s \cup {x}) = f[x] + SumOf(f, s)
    <3> HIDE DEF f
    <3> QED
      BY <2>4, <2>5, SumTakes
  <2>7. f[x] \in Nat
    <3> HIDE DEF f
    <3> QED
      BY <2>5
  <2>8. Cardinality(Of(s)) = SumOf(f, s)
    BY <1>2
  <2> HIDE DEF f, Of
  <2>9. Cardinality(Of(s \cup {x})) = SumOf(f, s \cup {x})
    BY <1>0, <2>3, <2>6, <2>7, <2>8
  <2> QED
    BY <1>2, <2>9
<1>3. T \in I
  <2> HIDE DEF I
  <2> QED
    BY <1>1, <1>2, SetInduction
<1> QED
  BY <1>3

\* The costs are counted by source.
LEMMA CostsBySource ==
  ASSUME NEW f \in [Sources -> SUBSET Bills]
  PROVE  Cardinality(RowsOf(f)) = MapThenSumSet(LAMBDA s : Cardinality(f[s]), Sources)
<1> DEFINE rows == RowsOf(f)
           key == [r \in rows |-> r.source]
           g == [s \in Sources |-> Cardinality({r \in rows : key[r] = s})]
           h == [s \in Sources |-> Cardinality(f[s])]
<1>0. IsFiniteSet(Sources)
  BY ConsoleAssumption
<1>1. IsFiniteSet(rows) /\ {r \in rows : key[r] \in Sources} = rows
  BY RowsFinite
<1>2. Cardinality(rows) = SumOf(g, Sources)
  <2> HIDE DEF rows, key
  <2>1. Cardinality({r \in rows : key[r] \in Sources})
          = SumOf([s \in Sources |-> Cardinality({r \in rows : key[r] = s})], Sources)
    BY <1>0, <1>1, PartsAddUp
  <2> QED
    BY <1>1, <2>1
<1>3. ASSUME NEW s \in Sources PROVE Cardinality({r \in rows : key[r] = s}) = Cardinality(f[s])
  <2> DEFINE R == {r \in rows : key[r] = s}
             c == [r \in R |-> r.bill]
  <2>1. \A r \in R : r.source = s /\ r.bill \in f[s] /\ r = [source |-> s, bill |-> r.bill]
    BY RowsFinite
  <2>2. ASSUME NEW b \in f[s] PROVE [source |-> s, bill |-> b] \in R
    <3>1. [source |-> s, bill |-> b] \in rows
      BY RowsFinite
    <3> QED
      BY <3>1
  <2>3. IsFiniteSet(R)
    BY <1>1, FS_Subset
  <2> HIDE DEF R
  <2>4. c \in [R -> f[s]]
    BY <2>1
  <2>5. \A q, r \in R : c[q] = c[r] => q = r
    BY <2>1
  <2>6. \A b \in f[s] : \E r \in R : c[r] = b
    <3>1. ASSUME NEW b \in f[s] PROVE c[[source |-> s, bill |-> b]] = b
      BY <2>2
    <3> QED
      BY <2>2, <3>1
  <2>7. c \in Bijection(R, f[s])
    <3> HIDE DEF c
    <3>1. c \in Surjection(R, f[s])
      BY <2>4, <2>6 DEF Surjection
    <3>2. c \in Injection(R, f[s])
      BY <2>4, <2>5 DEF Injection, IsInjective
    <3> QED
      BY <3>1, <3>2 DEF Bijection
  <2>8. ExistsBijection(R, f[s])
    BY <2>7 DEF ExistsBijection
  <2>9. Cardinality(f[s]) = Cardinality(R)
    BY <2>3, <2>8, FS_Bijection
  <2> QED
    BY <2>9 DEF R
<1>4. SumOf(g, Sources) = SumOf(h, Sources)
  <2>1. \A s \in Sources : g[s] = h[s]
    BY <1>3
  <2> HIDE DEF g, h
  <2> QED
    BY <1>0, <2>1, SumAgrees
<1>5. MapThenSumSet(LAMBDA s : Cardinality(f[s]), Sources) = SumOf(h, Sources)
  BY <1>0, SourcesCount
<1> QED
  <2> HIDE DEF g, h, rows
  <2>1. Cardinality(rows) = MapThenSumSet(LAMBDA s : Cardinality(f[s]), Sources)
    BY <1>2, <1>4, <1>5
  <2> QED
    BY <2>1 DEF rows

\* What rounding to cents takes or adds.
LEMMA Rounding ==
  ASSUME NEW usd \in Nat
  PROVE  /\ ToCents(usd) \in Nat
         /\ usd <= Cent * ToCents(usd) + 5 /\ Cent * ToCents(usd) <= usd + 5
<1> DEFINE c == (usd + 5) \div 10
<1>1. c \in Nat /\ usd <= 10 * c + 5 /\ 10 * c <= usd + 5
  OBVIOUS
<1>2. Cent = 10 /\ Cent \div 2 = 5
  BY DEF Cent
<1> QED
  BY <1>1, <1>2 DEF ToCents

\* Figures that differ by the rounding of each have sums that differ by no more.
LEMMA SumMargin ==
  ASSUME NEW S, IsFiniteSet(S), NEW f, NEW g,
         \A x \in S : f[x] \in Nat /\ g[x] \in Nat /\ f[x] <= 10 * g[x] + 5 /\ 10 * g[x] <= f[x] + 5
  PROVE  /\ SumOf(f, S) <= 10 * SumOf(g, S) + 5 * Cardinality(S)
         /\ 10 * SumOf(g, S) <= SumOf(f, S) + 5 * Cardinality(S)
<1> DEFINE Near(s) == /\ SumOf(f, s) <= 10 * SumOf(g, s) + 5 * Cardinality(s)
                      /\ 10 * SumOf(g, s) <= SumOf(f, s) + 5 * Cardinality(s)
           I == {s \in SUBSET S : Near(s)}
<1>1. {} \in I
  <2>1. SumOf(f, {}) = 0 /\ SumOf(g, {}) = 0 /\ Cardinality({}) = 0
    BY FS_EmptySet, SumStep
  <2> QED
    BY <2>1
<1>2. ASSUME NEW s \in SUBSET S, NEW x \in S \ s, s \in I PROVE s \cup {x} \in I
  <2> DEFINE u == s \cup {x}
  <2>1. u \in SUBSET S /\ x \in u /\ u \ {x} = s
    BY <1>2
  <2>2. IsFiniteSet(u) /\ \A y \in u : f[y] \in Nat /\ g[y] \in Nat
    <3> HIDE DEF u, I
    <3> QED
      BY <2>1, FS_Subset
  <2> HIDE DEF u, I
  <2>3. SumOf(f, u) = f[x] + SumOf(f, s) /\ SumOf(f, s) \in Nat
    BY <2>1, <2>2, SumTakes
  <2>4. SumOf(g, u) = g[x] + SumOf(g, s) /\ SumOf(g, s) \in Nat
    BY <2>1, <2>2, SumTakes
  <2>5. Cardinality(s) \in Nat /\ Cardinality(s) + 1 = Cardinality(u)
    BY <2>1, <2>2, OneLess
  <2>6. f[x] \in Nat /\ g[x] \in Nat /\ f[x] <= 10 * g[x] + 5 /\ 10 * g[x] <= f[x] + 5
    OBVIOUS
  <2>7. Near(s)
    BY <1>2 DEF I
  <2> DEFINE a == SumOf(f, s) b == SumOf(g, s) n == Cardinality(s)
             c == SumOf(f, u) d == SumOf(g, u) m == Cardinality(u)
  <2>8. /\ a \in Nat /\ b \in Nat /\ n \in Nat /\ c = f[x] + a /\ d = g[x] + b /\ m = n + 1
        /\ a <= 10 * b + 5 * n /\ 10 * b <= a + 5 * n
    BY <2>3, <2>4, <2>5, <2>7
  <2> HIDE DEF a, b, n, c, d, m
  <2>9. c <= 10 * d + 5 * m /\ 10 * d <= c + 5 * m
    BY <2>6, <2>8
  <2>10. Near(u)
    BY <2>9 DEF c, d, m
  <2> QED
    BY <2>1, <2>10 DEF I, u
<1>3. S \in I
  <2> HIDE DEF I
  <2> QED
    BY <1>1, <1>2, SetInduction
<1> QED
  BY <1>3

\* Dollars that are those of each provider but for the rounding of each.
Billed(billed, each) ==
  LET sum    == Cent * MapThenSumSet(LAMBDA p : each[p], DOMAIN each)
      margin == (Cent \div 2) * Cardinality(DOMAIN each)
  IN billed <= sum + margin /\ sum <= billed + margin

\* The dollars of the providers, each rounded to cents, are those of all the rows but for
\* the rounding.
LEMMA BilledByProvider ==
  ASSUME NEW f \in [Sources -> SUBSET Bills], NEW rows, rows = RowsOf(f),
         NEW each, each = [p \in {r.bill.prov : r \in rows} |->
                             ToCents(Usd({r \in rows : r.bill.prov = p}))]
  PROVE  Billed(Usd(rows), each)
<1> DEFINE P == {r.bill.prov : r \in rows}
           g == [r \in rows |-> IF r.bill.priced THEN r.bill.usd ELSE 0]
           key == [r \in rows |-> r.bill.prov]
           Of(p) == {r \in rows : r.bill.prov = p}
           usd == [p \in P |-> Usd(Of(p))]
           h == [p \in P |-> SumOf(g, {r \in rows : key[r] = p})]
<1>1. IsFiniteSet(rows) /\ IsFiniteSet(P)
  <2>1. P = {key[r] : r \in rows} /\ DOMAIN key = rows
    OBVIOUS
  <2>2. IsFiniteSet(rows)
    BY RowsFinite
  <2> HIDE DEF key, P
  <2> QED
    BY <2>1, <2>2, ImageFinite
<1>2. \A r \in rows : g[r] \in Nat
  <2>1. ASSUME NEW r \in rows PROVE r.bill.usd \in Nat
    <3>1. r.bill \in Bills
      BY RowsFinite
    <3> QED
      BY <3>1, ConsoleAssumption
  <2> QED
    BY <2>1
<1>3. Usd(rows) = SumOf(g, rows)
  BY <1>1, UsdIs
<1>4. SumOf(g, rows) = SumOf(h, P)
  <2>1. {r \in rows : key[r] \in P} = rows
    OBVIOUS
  <2> HIDE DEF g, key, P
  <2>2. SumOf(g, {r \in rows : key[r] \in P})
          = SumOf([p \in P |-> SumOf(g, {r \in rows : key[r] = p})], P)
    BY <1>1, <1>2, SumByKey
  <2> QED
    BY <2>1, <2>2
<1>5. ASSUME NEW p \in P PROVE h[p] = usd[p] /\ usd[p] \in Nat
  <2>1. Of(p) \in SUBSET RowsOf(f) /\ {r \in rows : key[r] = p} = Of(p)
    OBVIOUS
  <2>2. Usd(Of(p)) \in Nat
    <3> HIDE DEF Of
    <3> QED
      BY <2>1, UsdNat
  <2> DEFINE k == [r \in Of(p) |-> IF r.bill.priced THEN r.bill.usd ELSE 0]
  <2>3. \A r \in Of(p) : g[r] = k[r]
    OBVIOUS
  <2>4. IsFiniteSet(Of(p))
    BY <1>1, FS_Subset
  <2>5. SumOf(g, Of(p)) = SumOf(k, Of(p))
    <3> HIDE DEF g, k, Of
    <3> QED
      BY <2>3, <2>4, SumAgrees
  <2>6. Usd(Of(p)) = SumOf(k, Of(p))
    <3> HIDE DEF Of
    <3> QED
      BY <2>4, UsdIs
  <2>7. h[p] = SumOf(g, Of(p)) /\ usd[p] = Usd(Of(p))
    BY <2>1
  <2> QED
    BY <2>2, <2>5, <2>6, <2>7
<1>6. SumOf(h, P) = SumOf(usd, P)
  <2> HIDE DEF h, usd, P
  <2> QED
    BY <1>1, <1>5, SumAgrees
<1>7. DOMAIN each = P /\ \A p \in P : each[p] = ToCents(usd[p])
  OBVIOUS
<1>8. MapThenSumSet(LAMBDA p : each[p], DOMAIN each) = SumOf(each, P)
  BY <1>7 DEF SumOf
<1>9. \A p \in P : /\ usd[p] \in Nat /\ each[p] \in Nat
                   /\ usd[p] <= 10 * each[p] + 5 /\ 10 * each[p] <= usd[p] + 5
  <2> HIDE DEF usd, P
  <2>1. Cent = 10
    BY DEF Cent
  <2> SUFFICES ASSUME NEW p \in P
               PROVE  /\ usd[p] \in Nat /\ each[p] \in Nat
                      /\ usd[p] <= 10 * each[p] + 5 /\ 10 * each[p] <= usd[p] + 5
    OBVIOUS
  <2>2. usd[p] \in Nat /\ each[p] = ToCents(usd[p])
    BY <1>5, <1>7
  <2> DEFINE x == usd[p]
  <2> HIDE DEF x
  <2>3. ToCents(x) \in Nat /\ x <= Cent * ToCents(x) + 5 /\ Cent * ToCents(x) <= x + 5
    BY <2>2, Rounding DEF x
  <2> QED
    BY <2>1, <2>2, <2>3 DEF x
<1> HIDE DEF usd, h, g, P
<1>10. /\ SumOf(usd, P) <= 10 * SumOf(each, P) + 5 * Cardinality(P)
       /\ 10 * SumOf(each, P) <= SumOf(usd, P) + 5 * Cardinality(P)
  BY <1>1, <1>9, SumMargin
<1>11. Cent = 10 /\ Cent \div 2 = 5
  BY DEF Cent
<1>12. Usd(rows) = SumOf(usd, P)
  BY <1>3, <1>4, <1>6
<1> DEFINE m == MapThenSumSet(LAMBDA p : each[p], DOMAIN each)
<1>13. m = SumOf(each, P)
  BY <1>8
<1> HIDE DEF m
<1>14. /\ Usd(rows) <= Cent * m + (Cent \div 2) * Cardinality(DOMAIN each)
       /\ Cent * m <= Usd(rows) + (Cent \div 2) * Cardinality(DOMAIN each)
  BY <1>7, <1>10, <1>11, <1>12, <1>13
<1> QED
  BY <1>14 DEF m, Billed

\* The segments of the distribution add up to the join.
LEMMA JoinBySegment ==
  ASSUME IsFiniteSet(join), \A j \in join : j.status \in Statuses
  PROVE  Cardinality(join)
           = MapThenSumSet(LAMBDA t : Cardinality({j \in join : j.status = t}),
                           Segments \ {"expected", "worklist"})
             + MapThenSumSet(LAMBDA t : Cardinality(t[2]), FocusOnlySplit)
<1> DEFINE Four == {"matched", "unmatched_miq_only", "no_resource_id", "ambiguous"}
           key == [j \in join |-> j.status]
           K == {j \in join : key[j] \in Four}
           U == OfStatus("unmatched_focus_only")
           Part(s) == {j \in U : Segment(j) = s}
           E == Part("expected")
           W == Part("worklist")
           a == MapThenSumSet(LAMBDA t : Cardinality({j \in join : j.status = t}), Four)
           b == MapThenSumSet(LAMBDA t : Cardinality(t[2]), FocusOnlySplit)
<1>1. Segments \ {"expected", "worklist"} = Four
  BY DEF Segments
<1>f. IsFiniteSet(Four)
  <2>1. /\ IsFiniteSet({"matched", "unmatched_miq_only"})
        /\ IsFiniteSet({"no_resource_id", "ambiguous"})
    <3>1. IsFiniteSet({"matched"}) /\ IsFiniteSet({"no_resource_id"})
      BY FS_Singleton
    <3>2. /\ IsFiniteSet({"matched"} \cup {"unmatched_miq_only"})
          /\ IsFiniteSet({"no_resource_id"} \cup {"ambiguous"})
      BY <3>1, FS_AddElement
    <3>3. {"matched"} \cup {"unmatched_miq_only"} = {"matched", "unmatched_miq_only"}
          /\ {"no_resource_id"} \cup {"ambiguous"} = {"no_resource_id", "ambiguous"}
      OBVIOUS
    <3> QED
      BY <3>2, <3>3
  <2>2. Four = {"matched", "unmatched_miq_only"} \cup {"no_resource_id", "ambiguous"}
    OBVIOUS
  <2> QED
    BY <2>1, <2>2, FS_Union
<1>2. Cardinality(K) = SumOf([t \in Four |-> Cardinality({j \in join : j.status = t})], Four)
  <2>1. Cardinality(K) = SumOf([t \in Four |-> Cardinality({j \in join : key[j] = t})], Four)
    <3> HIDE DEF key, Four
    <3> QED
      BY <1>f, PartsAddUp
  <2>2. [t \in Four |-> Cardinality({j \in join : key[j] = t})]
          = [t \in Four |-> Cardinality({j \in join : j.status = t})]
    <3>1. \A t \in Four : {j \in join : key[j] = t} = {j \in join : j.status = t}
      OBVIOUS
    <3> HIDE DEF key, Four
    <3> QED
      BY <3>1
  <2> HIDE DEF key, Four, K
  <2> QED
    BY <2>1, <2>2
<1>3. a = SumOf([t \in Four |-> Cardinality({j \in join : j.status = t})], Four)
  <2> HIDE DEF Four
  <2> QED
    BY <1>f, StatusesCount
<1>4. IsFiniteSet(K) /\ IsFiniteSet(E) /\ IsFiniteSet(W)
  BY FS_Subset DEF OfStatus
<1>5. E \cap W = {} /\ E \cup W = U /\ K \cap U = {} /\ K \cup U = join
  <2>1. \A j \in U : Segment(j) \in {"expected", "worklist"}
    BY DEF OfStatus, Segment
  <2>2. E \cup W = U /\ E \cap W = {}
    BY <2>1
  <2>3. K \cap U = {} /\ K \cup U = join
    BY DEF OfStatus, Statuses
  <2> QED
    BY <2>2, <2>3
<1>6. b = Cardinality(E) + Cardinality(W)
  <2> DEFINE e == <<"expected", E>>
             w == <<"worklist", W>>
             F == {e, w}
             g == [t \in F |-> Cardinality(t[2])]
  <2>1. FocusOnlySplit = F
    BY DEF FocusOnlySplit
  <2>2. e # w /\ F \ {e} = {w} /\ {w} \ {w} = {} /\ e \in F
    OBVIOUS
  <2>3. IsFiniteSet(F) /\ IsFiniteSet({w})
    <3> HIDE DEF e, w
    <3>1. IsFiniteSet({w})
      BY FS_Singleton
    <3>2. IsFiniteSet({w} \cup {e}) /\ {w} \cup {e} = F
      BY <3>1, FS_AddElement
    <3> QED
      BY <3>1, <3>2
  <2>4. g[e] = Cardinality(E) /\ g[w] = Cardinality(W)
    <3>1. e \in F /\ w \in F /\ e[2] = E /\ w[2] = W
      OBVIOUS
    <3> HIDE DEF e, w, F
    <3> QED
      BY <3>1
  <2>5. Cardinality(E) \in Nat /\ Cardinality(W) \in Nat
    BY <1>4, FS_CardinalityType
  <2>6. b = SumOf(g, F)
    <3> HIDE DEF F
    <3> QED
      BY <2>1, <2>3, PartsCount
  <2> HIDE DEF e, w, g, b
  <2>7. \A t \in F : g[t] \in Nat
    BY <2>4, <2>5
  <2>8. SumOf(g, F) = g[e] + SumOf(g, {w})
    BY <2>2, <2>3, <2>7, SumTakes
  <2>9. SumOf(g, {w}) = g[w] + SumOf(g, {})
    BY <2>2, <2>3, <2>7, SumTakes
  <2>10. SumOf(g, {}) = 0
    BY FS_EmptySet, SumStep
  <2> QED
    BY <2>4, <2>5, <2>6, <2>8, <2>9, <2>10
<1>7. Cardinality(join) = Cardinality(K) + (Cardinality(E) + Cardinality(W))
  <2> HIDE DEF K, E, W, U
  <2>0. /\ Cardinality(E \cap W) = 0 /\ Cardinality(K \cap U) = 0
        /\ Cardinality(E \cup W) = Cardinality(U) /\ Cardinality(K \cup U) = Cardinality(join)
    BY <1>5, FS_EmptySet
  <2>1. /\ IsFiniteSet(U)
        /\ Cardinality(E \cup W) = Cardinality(E) + Cardinality(W) - Cardinality(E \cap W)
    BY <1>4, <1>5, FS_Union
  <2>2. Cardinality(K \cup U) = Cardinality(K) + Cardinality(U) - Cardinality(K \cap U)
    BY <1>4, <2>1, FS_Union
  <2>3. Cardinality(K) \in Nat /\ Cardinality(E) \in Nat /\ Cardinality(W) \in Nat
    BY <1>4, FS_CardinalityType
  <2> QED
    BY <2>0, <2>1, <2>2, <2>3
<1> QED
  <2>1. a = Cardinality(K)
    <3> HIDE DEF a, K, Four
    <3> QED
      BY <1>2, <1>3
  <2>2. Cardinality(join) = a + b
    <3> HIDE DEF a, b, K, E, W
    <3> QED
      BY <1>6, <1>7, <2>1
  <2> HIDE DEF Four
  <2> QED
    BY <1>1, <2>2, Zenon

\* What the tile of savings sums: of each idle machine the dearest of its rows.
TopOf(R, v)  == Max({j.cost : j \in {k \in R : k.vms = v}})
DearIdle(R)  == {v \in {j.vms : j \in R} : v \subseteq Idle /\ TopOf(R, v) > Worth}
MoneyOf(R)   == MapThenSumSet(LAMBDA v : Max({j.cost : j \in {k \in R : k.vms = v}}), DearIdle(R))

LEMMA AddressableIs == Addressable = MoneyOf(Sampled)
BY DEF Addressable, TopCost, MoneyOf, DearIdle, TopOf

\* The dearest cost of a machine.
LEMMA TopIs ==
  ASSUME NEW R, IsFiniteSet(R), \A j \in R : j.cost \in Nat, NEW v, \E k \in R : k.vms = v
  PROVE  /\ \E k \in R : k.vms = v /\ k.cost = TopOf(R, v)
         /\ TopOf(R, v) \in Nat
         /\ \A k \in R : k.vms = v => TopOf(R, v) >= k.cost
<1> DEFINE K == {k \in R : k.vms = v}
           cost == [k \in K |-> k.cost]
           T == {j.cost : j \in K}
<1>1. T = {cost[k] : k \in K} /\ DOMAIN cost = K /\ IsFiniteSet(K)
  BY FS_Subset
<1>2. T \in SUBSET Nat /\ T # {}
  OBVIOUS
<1>3. IsFiniteSet(T)
  <2> HIDE DEF cost, K, T
  <2>1. IsFiniteSet({cost[k] : k \in K})
    BY <1>1, ImageFinite
  <2> QED
    BY <1>1, <2>1
<1>4. TopOf(R, v) = Max(T)
  BY DEF TopOf
<1>5. TopOf(R, v) \in T /\ \A y \in T : TopOf(R, v) >= y
  <2> HIDE DEF T
  <2> QED
    BY <1>2, <1>3, <1>4, MaxOf
<1> QED
  BY <1>2, <1>5

\* The two tiles of rightsizing, of the same rows.
LEMMA TilesOf ==
  ASSUME NEW R, IsFiniteSet(R), \A j \in R : j.cost \in Nat
  PROVE  LET cands == {<<j.vms, j.cost>> : j \in {k \in R : k.vms \subseteq Idle /\ k.cost > Worth}}
         IN  /\ Cardinality(cands) = 0 <=> MoneyOf(R) = 0
             /\ \A j \in R : j.vms \subseteq Idle /\ j.cost > Worth =>
                  MoneyOf(R) >= j.cost /\ MoneyOf(R) \in Nat /\ j.vms \in DearIdle(R)
             /\ IsFiniteSet(DearIdle(R))
             /\ \A v \in DearIdle(R) : \E k \in R : k.vms = v
<1> DEFINE C == {k \in R : k.vms \subseteq Idle /\ k.cost > Worth}
           cands == {<<j.vms, j.cost>> : j \in C}
           V == DearIdle(R)
           top == [v \in V |-> Max({j.cost : j \in {k \in R : k.vms = v}})]
           CostsAt(v) == {j.cost : j \in {k \in R : k.vms = v}}
           c == [k \in C |-> <<k.vms, k.cost>>]
           vm == [k \in R |-> k.vms]
<1>w. Worth \in Nat /\ Worth >= 0
  BY DEF Worth, Cent
<1>1. IsFiniteSet(C) /\ Cardinality(C) <= Cardinality(R)
  BY FS_Subset
<1>2. IsFiniteSet(cands) /\ Cardinality(cands) <= Cardinality(C)
  <2>1. cands = {c[k] : k \in C} /\ DOMAIN c = C
    OBVIOUS
  <2> HIDE DEF c, C, cands
  <2>2. IsFiniteSet({c[k] : k \in C}) /\ Cardinality({c[k] : k \in C}) <= Cardinality(C)
    BY <1>1, <2>1, ImageFinite
  <2> QED
    BY <2>1, <2>2
<1>4. IsFiniteSet(V)
  <2>1. V \in SUBSET {vm[k] : k \in R} /\ DOMAIN vm = R
    BY DEF DearIdle
  <2> HIDE DEF vm, V
  <2>2. IsFiniteSet({vm[k] : k \in R})
    BY <2>1, ImageFinite
  <2> QED
    BY <2>1, <2>2, FS_Subset
<1>5. ASSUME NEW v, \E k \in R : k.vms = v
      PROVE  TopOf(R, v) \in CostsAt(v) /\ TopOf(R, v) \in Nat /\ \A y \in CostsAt(v) : TopOf(R, v) >= y
  <2>1. PICK k \in R : k.vms = v /\ k.cost = TopOf(R, v)
    BY <1>5, TopIs
  <2>2. TopOf(R, v) \in CostsAt(v)
    BY <2>1
  <2>3. TopOf(R, v) \in Nat /\ \A j \in R : j.vms = v => TopOf(R, v) >= j.cost
    BY <1>5, TopIs
  <2> QED
    BY <2>2, <2>3
<1>6. \A v \in V : \E k \in R : k.vms = v
  BY DEF DearIdle
<1>7. \A v \in V : top[v] = TopOf(R, v) /\ top[v] \in Nat /\ TopOf(R, v) > Worth
  <2>1. \A v \in V : top[v] = TopOf(R, v) /\ TopOf(R, v) > Worth
    BY DEF TopOf, DearIdle
  <2> HIDE DEF top, V
  <2> QED
    BY <1>5, <1>6, <2>1
<1>8. MoneyOf(R) = SumOf(top, V)
  <2> HIDE DEF V
  <2>1. MapThenSumSet(LAMBDA v : Max({j.cost : j \in {k \in R : k.vms = v}}), V) = SumOf(top, V)
    BY <1>4, MoneyIs
  <2> QED
    BY <2>1, Zenon DEF MoneyOf, V
<1> HIDE DEF top, V
<1>9. ASSUME NEW v \in V PROVE MoneyOf(R) >= TopOf(R, v) /\ MoneyOf(R) # 0
  <2>1. SumOf(top, V) = top[v] + SumOf(top, V \ {v}) /\ SumOf(top, V \ {v}) \in Nat
    BY <1>4, <1>7, SumTakes
  <2>2. top[v] = TopOf(R, v) /\ top[v] \in Nat /\ TopOf(R, v) > Worth
    BY <1>7
  <2> QED
    BY <1>8, <1>w, <2>1, <2>2
<1>10. ASSUME NEW j \in R, j.vms \subseteq Idle, j.cost > Worth
       PROVE  j.vms \in V /\ TopOf(R, j.vms) >= j.cost
  <2>1. j.cost \in CostsAt(j.vms)
    OBVIOUS
  <2>2. TopOf(R, j.vms) >= j.cost /\ TopOf(R, j.vms) \in Nat
    <3> HIDE DEF CostsAt
    <3> QED
      BY <1>5, <2>1
  <2>3. TopOf(R, j.vms) > Worth
    <3>1. j.cost \in Nat
      OBVIOUS
    <3> QED
      BY <1>10, <1>w, <2>2, <3>1
  <2> QED
    BY <1>10, <2>2, <2>3 DEF V, DearIdle
<1>11. ASSUME NEW j \in R, j.vms \subseteq Idle, j.cost > Worth 
       PROVE  MoneyOf(R) >= j.cost /\ MoneyOf(R) \in Nat /\ j.vms \in V
  <2>1. MoneyOf(R) >= TopOf(R, j.vms) /\ TopOf(R, j.vms) >= j.cost
    BY <1>9, <1>10, <1>11
  <2>3. j.vms \in V
    BY <1>10, <1>11
  <2>2. MoneyOf(R) \in Nat /\ TopOf(R, j.vms) \in Nat /\ j.cost \in Nat
    BY <1>4, <1>5, <1>7, <1>8, SumTakes
  <2> QED
    BY <2>1, <2>2, <2>3
<1>12. C = {} => MoneyOf(R) = 0
  <2>1. ASSUME NEW v \in V PROVE C # {}
    <3>1. TopOf(R, v) \in CostsAt(v) /\ TopOf(R, v) > Worth /\ v \subseteq Idle
      BY <1>5, <1>6, <1>7 DEF V, DearIdle
    <3>2. PICK k \in R : k.vms = v /\ k.cost = TopOf(R, v)
      BY <3>1
    <3> QED
      BY <3>1, <3>2
  <2>2. C = {} => V = {}
    BY <2>1
  <2>3. SumOf(top, {}) = 0
    BY FS_EmptySet, SumStep
  <2> QED
    BY <1>8, <2>2, <2>3
<1>13. C # {} => MoneyOf(R) # 0
  <2>1. ASSUME NEW k \in C PROVE MoneyOf(R) # 0
    BY <1>9, <1>10
  <2> QED
    BY <2>1
<1>14. Cardinality(cands) = 0 <=> C = {}
  <2>1. cands = {} <=> C = {}
    OBVIOUS
  <2> HIDE DEF cands, C
  <2> QED
    BY <1>2, <2>1, FS_EmptySet
<1>15. Cardinality(cands) = 0 <=> MoneyOf(R) = 0
  BY <1>12, <1>13, <1>14
<1> QED
  BY <1>4, <1>6, <1>11, <1>15 DEF V

\* The list of the rightsizing panel, of the same rows: what it leaves out has a place
\* only behind what it shows.
LEMMA ListOf ==
  ASSUME NEW R, IsFiniteSet(R), \A j \in R : j.cost \in Nat,
         NEW rows, rows = {[vms |-> j.vms, source |-> j.source, cost |-> j.cost] : j \in R},
         NEW list \in SUBSET rows, Cardinality(list) <= TopLimit,
         Cardinality(list) < TopLimit => list = rows,
         \A a \in list, b \in rows \ list : ~Before(b, a)
  PROVE  LET cands == {<<j.vms, j.cost>> : j \in {k \in R : k.vms \subseteq Idle /\ k.cost > Worth}}
             dear  == {r \in list : r.vms \subseteq Idle /\ r.cost > Worth}
         IN  /\ Cardinality(cands) <= Cardinality(dear) \/ Cardinality(dear) = TopLimit
             /\ \A r \in dear : r.cost <= MoneyOf(R)
             /\ Cardinality(dear) < TopLimit => MoneyOf(R) = DearestIn(dear)
<1> DEFINE C == {k \in R : k.vms \subseteq Idle /\ k.cost > Worth}
           cands == {<<j.vms, j.cost>> : j \in C}
           D == {r \in rows : r.vms \subseteq Idle /\ r.cost > Worth}
           dear == {r \in list : r.vms \subseteq Idle /\ r.cost > Worth}
           row == [j \in R |-> [vms |-> j.vms, source |-> j.source, cost |-> j.cost]]
           pair == [r \in D |-> <<r.vms, r.cost>>]
<1>w. Worth \in Nat
  BY DEF Worth, Cent
<1>0. rows = {row[j] : j \in R} /\ DOMAIN row = R
      /\ \A j \in R : row[j].vms = j.vms /\ row[j].cost = j.cost
  OBVIOUS
<1>1. IsFiniteSet(rows) /\ \A r \in rows : r.cost \in Nat /\ \E j \in R : j.vms = r.vms /\ j.cost = r.cost
  <2>1. \A r \in rows : r.cost \in Nat /\ \E j \in R : j.vms = r.vms /\ j.cost = r.cost
    OBVIOUS
  <2>2. IsFiniteSet(rows)
    <3> HIDE DEF row
    <3>1. IsFiniteSet({row[j] : j \in R})
      BY <1>0, ImageFinite
    <3> QED
      BY <1>0, <3>1
  <2> QED
    BY <2>1, <2>2
<1>2. \A j \in R : \E r \in rows : r.vms = j.vms /\ r.cost = j.cost
  BY <1>0
<1> HIDE DEF row
<1>3. IsFiniteSet(list) /\ IsFiniteSet(dear) /\ IsFiniteSet(D)
  BY <1>1, FS_Subset
<1>4. Cardinality(list) \in Nat /\ Cardinality(dear) \in Nat /\ Cardinality(D) \in Nat
  BY <1>3, FS_CardinalityType
\* A dear row outside is one that only dear rows come before.
<1>5. D = dear \/ Cardinality(dear) = TopLimit
  <2> SUFFICES ASSUME D # dear PROVE Cardinality(dear) = TopLimit
    OBVIOUS
  <2>1. PICK b \in D : b \notin list
    OBVIOUS
  <2>2. Cardinality(list) = TopLimit
    <3>1. list # rows
      BY <2>1
    <3> QED
      BY <1>4, <3>1, ConsoleAssumption
  <2>3. ASSUME NEW a \in list PROVE a.vms \subseteq Idle /\ a.cost > Worth
    <3>1. ~Before(b, a) /\ b.vms \subseteq Idle /\ b.cost > Worth
      BY <2>1
    <3>2. a.vms \subseteq Idle /\ ~(b.cost > a.cost)
      BY <3>1 DEF Before
    <3>3. a.cost \in Nat /\ b.cost \in Nat
      BY <1>1
    <3> QED
      BY <1>w, <3>1, <3>2, <3>3
  <2>4. dear = list
    BY <2>3
  <2> QED
    BY <2>2, <2>4
<1>6. D = dear => Cardinality(cands) <= Cardinality(dear)
  <2>1. cands = {pair[r] : r \in D} /\ DOMAIN pair = D
    <3>1. ASSUME NEW x \in cands PROVE \E r \in D : x = pair[r]
      <4>1. PICK j \in C : x = <<j.vms, j.cost>>
        OBVIOUS
      <4>2. PICK r \in rows : r.vms = j.vms /\ r.cost = j.cost
        BY <1>2
      <4> QED
        BY <4>1, <4>2
    <3>2. ASSUME NEW r \in D PROVE pair[r] \in cands
      <4>1. PICK j \in R : j.vms = r.vms /\ j.cost = r.cost
        BY <1>1
      <4> QED
        BY <4>1
    <3> HIDE DEF cands, D
    <3>3. DOMAIN pair = D
      OBVIOUS
    <3> HIDE DEF pair
    <3> QED
      BY <3>1, <3>2, <3>3
  <2> HIDE DEF pair, cands, D, dear
  <2>2. Cardinality({pair[r] : r \in D}) <= Cardinality(D)
    BY <1>3, <2>1, ImageFinite
  <2> QED
    BY <2>1, <2>2
<1>7. ASSUME NEW r \in dear PROVE r.cost <= MoneyOf(R)
  <2>1. PICK j \in R : j.vms = r.vms /\ j.cost = r.cost
    BY <1>1
  <2>2. j.vms \subseteq Idle /\ j.cost > Worth
    BY <2>1
  <2>3. MoneyOf(R) >= j.cost /\ MoneyOf(R) \in Nat /\ j.cost \in Nat
    BY <2>2, TilesOf
  <2> QED
    BY <2>1, <2>3
<1>8. D = dear => MoneyOf(R) = DearestIn(dear)
  <2> DEFINE V == DearIdle(R)
             W == {r.vms : r \in D}
             f == [v \in V |-> Max({j.cost : j \in {k \in R : k.vms = v}})]
             g == [v \in V |-> Max({j.cost : j \in {k \in D : k.vms = v}})]
  <2>1. IsFiniteSet(V) /\ \A v \in V : \E k \in R : k.vms = v
    BY TilesOf
  <2>2. \A r \in D : r.cost \in Nat
    BY <1>1
  <2>3. ASSUME NEW v \in V
        PROVE  \E r \in D : r.vms = v /\ r.cost = TopOf(R, v)
    <3>1. PICK k \in R : k.vms = v /\ k.cost = TopOf(R, v)
      BY <2>1, TopIs
    <3>2. v \subseteq Idle /\ TopOf(R, v) > Worth
      BY DEF DearIdle
    <3>3. PICK r \in rows : r.vms = k.vms /\ r.cost = k.cost
      BY <1>2
    <3> QED
      BY <3>1, <3>2, <3>3
  <2>4. ASSUME NEW r \in D PROVE r.vms \in V
    <3>1. PICK j \in R : j.vms = r.vms /\ j.cost = r.cost
      BY <1>1
    <3>2. j.vms \subseteq Idle /\ j.cost > Worth
      BY <3>1
    <3> QED
      BY <3>1, <3>2, TilesOf
  <2>5. V = W
    BY <2>3, <2>4
  <2>6. ASSUME NEW v \in V PROVE TopOf(R, v) = TopOf(D, v)
    <3> HIDE DEF D
    <3>1. PICK r \in D : r.vms = v /\ r.cost = TopOf(R, v)
      BY <2>3
    <3>2. TopOf(D, v) \in Nat /\ TopOf(D, v) >= TopOf(R, v)
      BY <1>3, <2>2, <3>1, TopIs
    <3>3. PICK q \in D : q.vms = v /\ q.cost = TopOf(D, v)
      BY <1>3, <2>2, <3>1, TopIs
    <3>4. PICK j \in R : j.vms = q.vms /\ j.cost = q.cost
      BY <1>1 DEF D
    <3>5. TopOf(R, v) \in Nat /\ TopOf(R, v) >= j.cost
      BY <3>3, <3>4, TopIs
    <3> QED
      BY <3>2, <3>3, <3>4, <3>5
  <2>7. \A v \in V : f[v] = g[v]
    <3>1. \A v \in V : f[v] = TopOf(R, v) /\ g[v] = TopOf(D, v)
      BY DEF TopOf
    <3> QED
      BY <2>6, <3>1
  <2> HIDE DEF D
  <2>8. MoneyOf(R) = SumOf(f, V)
    <3> DEFINE S == DearIdle(R)
    <3> HIDE DEF S
    <3>1. IsFiniteSet(S)
      BY <2>1 DEF S
    <3>2. MapThenSumSet(LAMBDA v : Max({j.cost : j \in {k \in R : k.vms = v}}), S)
            = SumOf([v \in S |-> Max({j.cost : j \in {k \in R : k.vms = v}})], S)
      BY <3>1, MoneyIs
    <3> QED
      BY <3>2, Zenon DEF MoneyOf, S
  <2>9. DearestIn(D) = SumOf(g, V)
    <3>1. MapThenSumSet(LAMBDA v : Max({j.cost : j \in {k \in D : k.vms = v}}), V)
            = SumOf([v \in V |-> Max({j.cost : j \in {k \in D : k.vms = v}})], V)
      <4> HIDE DEF V
      <4> QED
        BY <2>1, MoneyIs
    <3>2. DearestIn(D) = MapThenSumSet(LAMBDA v : Max({j.cost : j \in {k \in D : k.vms = v}}), W)
      BY Zenon DEF DearestIn
    <3> HIDE DEF V, W
    <3> QED
      BY <2>5, <3>1, <3>2 DEF g
  <2> HIDE DEF f, g, V, W, dear
  <2>10. SumOf(f, V) = SumOf(g, V)
    BY <2>1, <2>7, SumAgrees
  <2> QED
    BY <2>8, <2>9, <2>10
<1>9. Cardinality(dear) < TopLimit => D = dear
  BY <1>4, <1>5, ConsoleAssumption
<1> HIDE DEF cands, dear, D, C
<1>10. Cardinality(cands) <= Cardinality(dear) \/ Cardinality(dear) = TopLimit
  BY <1>5, <1>6
<1>11. Cardinality(dear) < TopLimit => MoneyOf(R) = DearestIn(dear)
  BY <1>8, <1>9
<1> QED
  BY <1>7, <1>10, <1>11 DEF cands, dear, C

-----------------------------------------------------------------------------

(***************************************************************************)
(* The tables.                                                             *)
(***************************************************************************)

\* Every stored row has passed the gate of its own load.
AllConformant == \A s \in Sources : \A b \in focus[s] : Conformant(b)

ConsoleInv == TypeOK /\ AllConformant

-----------------------------------------------------------------------------

LEMMA NoAnswers == DOMAIN <<>> = {}
<1>1. <<>> \in Seq({}) /\ Len(<<>>) = 0
  OBVIOUS
<1>2. DOMAIN <<>> = 1..Len(<<>>)
  BY <1>1
<1> QED
  BY <1>1, <1>2

\* Whatever partitions the sources have, they are of bills.
LEMMA ContentsAreBills == Contents \subseteq [Sources -> SUBSET Bills]
<1> SUFFICES ASSUME NEW f \in Contents PROVE f \in [Sources -> SUBSET Bills]
  OBVIOUS
<1>1. f \in [Sources -> UNION {Partitions[s] : s \in Sources}] /\ \A s \in Sources : f[s] \in Partitions[s]
  BY DEF Contents
<1>2. \A s \in Sources : f[s] \in SUBSET Bills
  BY <1>1, ConsoleAssumption
<1> QED
  BY <1>1, <1>2

LEMMA ConsoleInit == Init => ConsoleInv
<1> SUFFICES ASSUME Init PROVE ConsoleInv
  OBVIOUS
<1>1. focus \in [Sources -> SUBSET Bills] /\ AllConformant
  BY ContentsAreBills DEF Init, AllConformant
<1>2. 0 \in 0..MaxCommits
  BY ConsoleAssumption
<1>3. TypeOK
  BY <1>1, <1>2 DEF Init, TypeOK
<1> QED
  BY <1>1, <1>3 DEF ConsoleInv

\* A commit does not touch the page under way.
LEMMA CommitKeeps ==
  ASSUME ConsoleInv, Commit
  PROVE  /\ commits' \in 0..MaxCommits /\ quiet' \in BOOLEAN
         /\ page' \in Pages \cup {""} /\ wanted' \subseteq Vms /\ asked' \in Nat
<1>1. commits \in 0..MaxCommits /\ commits < MaxCommits /\ commits' = commits + 1
  BY DEF ConsoleInv, TypeOK, Commit
<1>2. commits' \in 0..MaxCommits
  BY <1>1, ConsoleAssumption
<1>3. quiet' \in BOOLEAN
  BY DEF Commit
<1>4. UNCHANGED <<page, wanted, asked>>
  BY DEF Commit
<1>5. page' \in Pages \cup {""} /\ wanted' \subseteq Vms /\ asked' \in Nat
  BY <1>4 DEF ConsoleInv, TypeOK
<1> QED
  BY <1>2, <1>3, <1>5

\* A page that asks and answers does not touch the tables.
LEMMA PageKeeps ==
  ASSUME ConsoleInv, UNCHANGED <<focus, join, util, onprem, exported, commits>>
  PROVE  /\ focus' \in [Sources -> SUBSET Bills]
         /\ util' \subseteq Vms /\ onprem' \subseteq DOMAIN Recharge
         /\ exported' \in [Sources -> SUBSET Bills] \cup {NoExport}
         /\ commits' \in 0..MaxCommits
         /\ AllConformant'
<1>1. /\ focus' = focus /\ util' = util /\ onprem' = onprem /\ exported' = exported
      /\ commits' = commits
  OBVIOUS
<1> QED
  BY <1>1 DEF ConsoleInv, TypeOK, AllConformant

LEMMA ConsoleNext == ConsoleInv /\ [Next]_vars => ConsoleInv'
<1> SUFFICES ASSUME ConsoleInv, [Next]_vars PROVE ConsoleInv'
  OBVIOUS
<1>t. TypeOK /\ AllConformant
  BY DEF ConsoleInv
<1>o. ASSUME NEW p \in Pages, NEW vs \in SUBSET Vms, Open(p, vs) PROVE ConsoleInv'
  <2>1. /\ UNCHANGED <<focus, join, util, onprem, exported, commits>>
        /\ page' = p /\ wanted' = vs /\ quiet' = TRUE /\ asked' = asked /\ got' = got
    BY <1>o DEF Open
  <2>2. quiet' \in BOOLEAN /\ asked' \in Nat
    BY <1>t, <2>1 DEF TypeOK
  <2>3. TypeOK' /\ AllConformant'
    BY <2>1, <2>2, PageKeeps DEF TypeOK
  <2> QED
    BY <2>3 DEF ConsoleInv
<1>1. ASSUME NEW p \in Pages \ {"detail"}, Open(p, {}) PROVE ConsoleInv'
  BY <1>o, <1>1
<1>2. ASSUME NEW vs \in Drills, Open("detail", vs) PROVE ConsoleInv'
  <2>1. vs \in SUBSET Vms /\ "detail" \in Pages
    BY ConsoleAssumption DEF Pages
  <2> QED
    BY <1>o, <1>2, <2>1
<1>3. CASE Query
  <2>1. /\ UNCHANGED <<focus, join, util, onprem, exported, commits>>
        /\ quiet' = quiet /\ page' = page /\ wanted' = wanted /\ asked' = asked + 1
    BY <1>3 DEF Query, loads
  <2>2. asked' \in Nat
    <3>1. asked' = asked + 1 /\ asked \in Nat
      BY <1>t, <2>1 DEF TypeOK
    <3> QED
      BY <3>1
  <2>3. TypeOK' /\ AllConformant'
    BY <1>t, <2>1, <2>2, PageKeeps DEF TypeOK
  <2> QED
    BY <2>3 DEF ConsoleInv
<1>4. CASE Respond
  <2>1. /\ UNCHANGED <<focus, join, util, onprem, exported, commits>>
        /\ quiet' = quiet /\ page' = "" /\ wanted' = {} /\ asked' = 0 /\ got' = <<>>
    BY <1>4 DEF Respond, loads
  <2>2. TypeOK' /\ AllConformant'
    BY <1>t, <2>1, PageKeeps DEF TypeOK
  <2> QED
    BY <2>2 DEF ConsoleInv
<1>5. ASSUME NEW s \in Sources, NEW rows \in Partitions[s], LoadSource(s, rows)
      PROVE  ConsoleInv'
  <2>1. rows \in SUBSET Bills
    BY ConsoleAssumption
  <2>2. /\ Commit /\ \A b \in rows : Conformant(b)
        /\ focus' = [focus EXCEPT ![s] = rows]
        /\ util' = util /\ onprem' = onprem /\ exported' = exported
    BY <1>5 DEF LoadSource
  <2>3. focus' \in [Sources -> SUBSET Bills] /\ AllConformant'
    BY <1>t, <2>1, <2>2 DEF TypeOK, AllConformant
  <2>4. TypeOK'
    BY <1>t, <2>2, <2>3, CommitKeeps DEF TypeOK
  <2> QED
    BY <2>2, <2>3, <2>4, CommitKeeps DEF ConsoleInv
<1>6. CASE Export
  <2>1. /\ exported' = focus /\ UNCHANGED <<focus, util, onprem, commits, page, wanted, asked, got>>
        /\ quiet' = quiet
    BY <1>6 DEF Export
  <2>2. TypeOK' /\ AllConformant'
    BY <1>t, <2>1 DEF TypeOK, AllConformant
  <2> QED
    BY <2>2 DEF ConsoleInv
<1>7. CASE LoadJoin
  <2>1. /\ Commit /\ exported' = NoExport
        /\ focus' = focus /\ util' = util /\ onprem' = onprem
    BY <1>7 DEF LoadJoin
  <2>2. TypeOK' /\ AllConformant'
    BY <1>t, <2>1, CommitKeeps DEF TypeOK, AllConformant
  <2> QED
    BY <2>1, <2>2, CommitKeeps DEF ConsoleInv
<1>8. CASE LoadOnprem
  <2>1. /\ Commit /\ onprem' = DOMAIN Recharge
        /\ focus' = focus /\ util' = util /\ exported' = exported
    BY <1>8 DEF LoadOnprem
  <2>2. TypeOK' /\ AllConformant'
    BY <1>t, <2>1, CommitKeeps DEF TypeOK, AllConformant
  <2> QED
    BY <2>1, <2>2, CommitKeeps DEF ConsoleInv
<1>9. ASSUME NEW f \in Contents, Seed(f) PROVE ConsoleInv'
  <2>1. /\ Commit /\ focus' = f /\ util' = Vms /\ onprem' = {} /\ exported' = exported
        /\ \A s \in Sources : \A b \in f[s] : Conformant(b)
    BY <1>9 DEF Seed
  <2>2. f \in [Sources -> SUBSET Bills]
    BY ContentsAreBills
  <2>3. TypeOK' /\ AllConformant'
    BY <1>t, <2>1, <2>2, CommitKeeps DEF TypeOK, AllConformant
  <2> QED
    BY <2>1, <2>3, CommitKeeps DEF ConsoleInv
<1>10. CASE UNCHANGED vars
  <2>1. /\ UNCHANGED <<focus, join, util, onprem, exported, commits, page, wanted, asked, got>>
        /\ quiet' = quiet
    BY <1>10 DEF vars, loads
  <2>2. TypeOK' /\ AllConformant'
    BY <1>t, <2>1, PageKeeps DEF TypeOK
  <2> QED
    BY <2>2 DEF ConsoleInv
<1> QED
  BY <1>1, <1>2, <1>3, <1>4, <1>5, <1>6, <1>7, <1>8, <1>9, <1>10 DEF Next

-----------------------------------------------------------------------------

(***************************************************************************)
(* A drill-down.                                                           *)
(***************************************************************************)

\* The queries of a drill-down that the property is about, and the row it shows.
HeadOf == <<"detail", "head">>
Daily  == <<"detail", "daily">>
HeadRow == CHOOSE x \in got[HeadOf] : TRUE

\* Nothing is asked before a page is opened.
BlankPage == page = "" => DOMAIN got = {} /\ asked = 0

\* The head of a drill-down is one row of the join or none, and the daily costs are
\* asked for only after it was found.
DrillDown ==
  page = "detail" =>
    /\ asked <= 4
    /\ asked = 0 => DOMAIN got = {}
    /\ asked > 0 => Asked(HeadOf)
    /\ Asked(HeadOf) /\ got[HeadOf] # {} =>
         /\ got[HeadOf] = {HeadRow}
         /\ HeadRow.vms # {}
         /\ quiet => HeadRow \in join
    /\ Asked(Daily) =>
         /\ Asked(HeadOf) /\ got[HeadOf] # {}
         /\ \A r \in got[Daily] : r.bill.res = HeadRow.res /\ r.bill.res \in Resources
         /\ quiet => got[Daily] = CostsOf(HeadRow.res)

\* The queries of the drill-down.
LEMMA DetailQueries ==
  /\ QueriesOf("detail") = <<HeadOf, <<"detail", "util">>, Daily, <<"detail", "decomp">>>>
  /\ Len(QueriesOf("detail")) = 4
<1>1. QueriesOf("detail") = WorkloadDetail
  BY DEF QueriesOf
<1>2. DOMAIN <<"head", "util", "daily", "decomp">> = 1..4
  OBVIOUS
<1>3. WorkloadDetail = [i \in 1..4 |-> <<"detail", <<"head", "util", "daily", "decomp">>[i]>>]
  BY <1>2 DEF WorkloadDetail, Panel
<1>4. WorkloadDetail = <<HeadOf, <<"detail", "util">>, Daily, <<"detail", "decomp">>>>
  BY <1>3 DEF HeadOf, Daily
<1> QED
  BY <1>1, <1>4

\* The costs of a resource are rows of it.
LEMMA CostsAreNamed ==
  ASSUME TypeOK, NEW res, NEW r \in CostsOf(res)
  PROVE  r.bill.res = res /\ r.bill.res \in Resources
<1>1. r \in Costs /\ r.bill.res = res /\ res # NoRes
  BY DEF CostsOf
<1>2. focus \in [Sources -> SUBSET Bills]
  BY Zenon DEF TypeOK
<1>3. r.bill \in Bills
  <2>1. PICK s \in Sources : \E b \in focus[s] : r = [source |-> s, bill |-> b]
    BY <1>1 DEF Costs, RowsOf
  <2> QED
    BY <1>2, <2>1
<1>4. r.bill.res \in Resources \cup {NoRes}
  BY <1>3, ConsoleAssumption
<1> QED
  BY <1>1, <1>4

\* What a commit changes makes the page no longer quiet.
LEMMA DrillSurvives ==
  ASSUME DrillDown, UNCHANGED <<page, asked, got>>,
         UNCHANGED <<focus, join, quiet>> \/ quiet' = FALSE
  PROVE  DrillDown'
<1>1. page' = page /\ asked' = asked /\ got' = got
  OBVIOUS
<1>2. HeadRow' = HeadRow /\ \A q : Asked(q)' <=> Asked(q)
  BY <1>1 DEF HeadRow, Asked
<1>3. CASE quiet' = FALSE
  BY <1>1, <1>2, <1>3 DEF DrillDown
<1>4. CASE UNCHANGED <<focus, join, quiet>>
  <2>1. join' = join /\ quiet' = quiet /\ focus' = focus
    BY <1>4
  <2>2. CostsOf(HeadRow.res)' = CostsOf(HeadRow.res)
    BY <1>2, <2>1 DEF CostsOf, Costs, RowsOf
  <2> QED
    BY <1>1, <1>2, <2>1, <2>2 DEF DrillDown
<1> QED
  BY <1>3, <1>4

\* The third query of a drill-down finds the head, and the first none of the others.
LEMMA DrillQuery ==
  ASSUME TypeOK, DrillDown, Query
  PROVE  DrillDown'
<1> DEFINE q == QueriesOf(page)[asked + 1]
<1>1. /\ UNCHANGED <<focus, join, util, onprem, exported, commits, quiet, page, wanted>>
      /\ asked' = asked + 1 /\ ~Rendered /\ ~Missing
      /\ \E a \in Answers(q) :
           got' = [x \in DOMAIN got \cup {q} |-> IF x = q THEN a ELSE got[x]]
  BY DEF Query, loads
<1>2. asked \in Nat /\ asked' > 0 /\ asked' # 0
  <2>1. asked \in Nat
    BY Zenon DEF TypeOK
  <2> QED
    BY <1>1, <2>1
<1>3. CASE page # "detail"
  BY <1>1, <1>3 DEF DrillDown
<1>4. CASE page = "detail"
  <2>1. asked \in 0..3
    <3>1. asked # 4
      BY <1>1, <1>4, DetailQueries DEF Rendered
    <3>2. asked <= 4
      BY <1>4 DEF DrillDown
    <3> QED
      BY <1>2, <3>1, <3>2
  <2>b. asked' <= 4
    BY <1>1, <2>1
  <2>2. DOMAIN got' = DOMAIN got \cup {q} /\ \A x \in DOMAIN got : x # q => got'[x] = got[x]
    BY <1>1
  <2>3. HeadOf # Daily /\ HeadOf[2] = "head" /\ Daily[2] = "daily"
    BY DEF HeadOf, Daily
  <2>4. CASE asked = 0
    <3>1. q = HeadOf /\ DOMAIN got = {}
      BY <2>4, <1>4, DetailQueries DEF DrillDown
    <3>2. \E a \in IF DetailRows = {} THEN {{}} ELSE {{j} : j \in DetailRows} :
            got' = [x \in DOMAIN got \cup {q} |-> IF x = q THEN a ELSE got[x]]
      BY <1>1, <2>3, <3>1 DEF Answers
    <3>3. DOMAIN got' = {HeadOf} /\ (got'[HeadOf] = {} \/ \E j \in DetailRows : got'[HeadOf] = {j})
      BY <3>1, <3>2
    <3>4. HeadOf \in DOMAIN got' /\ Daily \notin DOMAIN got'
      BY <2>3, <3>3
    <3>5. ASSUME got'[HeadOf] # {}
          PROVE  got'[HeadOf] = {HeadRow'} /\ HeadRow'.vms # {} /\ HeadRow' \in join'
      <4>1. PICK j \in DetailRows : got'[HeadOf] = {j}
        BY <3>3, <3>5
      <4>2. HeadRow' = j
        BY <4>1 DEF HeadRow
      <4>3. j \in join /\ j.vms # {}
        BY DEF DetailRows
      <4> QED
        BY <1>1, <4>1, <4>2, <4>3
    <3> QED
      BY <1>1, <1>2, <1>4, <2>b, <3>4, <3>5 DEF DrillDown, Asked
  <2>5. CASE asked # 0
    <3>1. asked > 0 /\ asked \in 1..3
      BY <2>1, <2>5
    <3>2. Asked(HeadOf) /\ got[HeadOf] # {} /\ got[HeadOf] = {HeadRow} /\ HeadRow.vms # {}
          /\ (quiet => HeadRow \in join)
      BY <1>1, <1>4, <3>1 DEF DrillDown, Missing, HeadOf
    <3>3. q \in {<<"detail", "util">>, Daily, <<"detail", "decomp">>}
      BY <1>4, <3>1, DetailQueries
    <3>4. q # HeadOf
      BY <3>3 DEF HeadOf, Daily
    <3>5. got'[HeadOf] = got[HeadOf] /\ HeadOf \in DOMAIN got'
      BY <2>2, <3>2, <3>4 DEF Asked
    <3>6. HeadRow' = HeadRow
      BY <3>5 DEF HeadRow
    <3>7. CASE q = Daily
      <4>1. got'[Daily] = Answer(Daily)
        <5>1. Answers(Daily) = {Answer(Daily)}
          BY <2>3 DEF Answers
        <5> QED
          BY <1>1, <3>7, <5>1
      <4>2. Answer(Daily) = CostsOf(HeadRow.res)
        BY DEF Answer, Daily, HeadOf, HeadRow
      <4>3. \A r \in got'[Daily] : r.bill.res = HeadRow.res /\ r.bill.res \in Resources
        BY <4>1, <4>2, CostsAreNamed
      <4>4. CostsOf(HeadRow.res)' = CostsOf(HeadRow.res)
        BY <1>1, <3>6 DEF CostsOf, Costs, RowsOf
      <4> QED
        BY <1>1, <1>2, <1>4, <2>b, <3>2, <3>5, <3>6, <4>1, <4>2, <4>3, <4>4 DEF DrillDown, Asked
    <3>8. CASE q # Daily
      <4>1. Asked(Daily)' => Asked(Daily) /\ got'[Daily] = got[Daily]
        BY <2>2, <3>8 DEF Asked
      <4>2. CostsOf(HeadRow.res)' = CostsOf(HeadRow.res)
        BY <1>1, <3>6 DEF CostsOf, Costs, RowsOf
      <4>3. Asked(Daily) =>
              /\ \A r \in got[Daily] : r.bill.res = HeadRow.res /\ r.bill.res \in Resources
              /\ quiet => got[Daily] = CostsOf(HeadRow.res)
        BY <1>4 DEF DrillDown
      <4> QED
        BY <1>1, <1>2, <1>4, <2>b, <3>2, <3>5, <3>6, <4>1, <4>2, <4>3 DEF DrillDown, Asked
    <3> QED
      BY <3>7, <3>8
  <2> QED
    BY <2>4, <2>5
<1> QED
  BY <1>3, <1>4

\* What a drill-down has shown follows from its head, at every step.
LEMMA DetailNext ==
  ASSUME TypeOK, BlankPage, DrillDown, [Next]_vars
  PROVE  BlankPage' /\ DrillDown'
<1>o. ASSUME NEW p \in Pages, NEW vs, Open(p, vs) PROVE BlankPage' /\ DrillDown'
  <2>1. page = "" /\ page' = p /\ UNCHANGED <<asked, got>>
    BY <1>o, Zenon DEF Open
  <2>2. DOMAIN got' = {} /\ asked' = 0
    BY <2>1 DEF BlankPage
  <2>4. BlankPage'
    BY <2>2 DEF BlankPage
  <2>5. asked' <= 4 /\ ~(asked' > 0)
    BY <2>2
  <2>6. DrillDown'
    BY <2>2, <2>5 DEF DrillDown, Asked
  <2> QED
    BY <2>4, <2>6
<1>1. CASE \E p \in Pages \ {"detail"} : Open(p, {})
  BY <1>1, <1>o
<1>2. CASE \E vs \in Drills : Open("detail", vs)
  BY <1>2, <1>o DEF Pages
<1>3. CASE Query
  <2>1. page # "" /\ page' = page
    BY <1>3 DEF Query
  <2> QED
    BY <1>3, <2>1, DrillQuery DEF BlankPage
<1>4. CASE Respond
  BY <1>4, NoAnswers DEF Respond, BlankPage, DrillDown
<1>c. ASSUME UNCHANGED <<page, asked, got>> PROVE BlankPage'
  BY <1>c DEF BlankPage
<1>5. CASE \/ \E s \in Sources : \E rows \in Partitions[s] : LoadSource(s, rows)
           \/ LoadJoin \/ LoadOnprem \/ \E f \in Contents : Seed(f)
  <2>1. Commit
    BY <1>5 DEF LoadSource, LoadJoin, LoadOnprem, Seed
  <2> QED
    BY <1>c, <2>1, DrillSurvives DEF Commit
<1>6. CASE Export
  BY <1>c, <1>6, DrillSurvives DEF Export
<1>7. CASE UNCHANGED vars
  BY <1>c, <1>7, DrillSurvives DEF vars, loads
<1> QED
  BY <1>1, <1>2, <1>3, <1>4, <1>5, <1>6, <1>7 DEF Next

-----------------------------------------------------------------------------

(***************************************************************************)
(* The index page.                                                         *)
(***************************************************************************)

\* The elements of a sequence.
ElementsOf(s) == {s[i] : i \in 1..Len(s)}
\* The queries of the index page: a panel, and what it asks for.
Kinds == {"billed", "recharged", "costs", "statuses", "candidates", "addressable", "joined",
          "samples", "charged", "perSource", "perProvider", "categories", "top", "missing", "oddCategory",
          "unpriced", "oddCode"}
PanelNames == {"kpis", "pipeline", "ingest", "join", "rightsizing", "budget", "conformance"}
Queries == PanelNames \X Kinds

\* Panels put one after the other ask what either asks.
LEMMA ElementsOfBoth ==
  ASSUME NEW s \in Seq(Queries), NEW t \in Seq(Queries)
  PROVE  s \o t \in Seq(Queries) /\ ElementsOf(s \o t) = ElementsOf(s) \cup ElementsOf(t)
<1>1. s \o t \in Seq(Queries) /\ Len(s \o t) = Len(s) + Len(t) /\ Len(s) \in Nat /\ Len(t) \in Nat
  OBVIOUS
<1>2. \A i \in 1..Len(s) : (s \o t)[i] = s[i]
  OBVIOUS
<1>3. \A i \in 1..Len(t) : (s \o t)[Len(s) + i] = t[i]
  OBVIOUS
<1>4. \A i \in 1..Len(s \o t) : i \in 1..Len(s) \/ \E j \in 1..Len(t) : i = Len(s) + j
  <2> SUFFICES ASSUME NEW i \in 1..Len(s \o t), i \notin 1..Len(s)
               PROVE  \E j \in 1..Len(t) : i = Len(s) + j
    OBVIOUS
  <2>1. i - Len(s) \in 1..Len(t) /\ i = Len(s) + (i - Len(s))
    BY <1>1
  <2> QED
    BY <2>1
<1>5. (\A i \in 1..Len(s) : i \in 1..Len(s \o t)) /\ (\A i \in 1..Len(t) : Len(s) + i \in 1..Len(s \o t))
  BY <1>1
<1>6. ElementsOf(s \o t) \subseteq ElementsOf(s) \cup ElementsOf(t)
  BY <1>2, <1>3, <1>4 DEF ElementsOf
<1>7. ElementsOf(s) \subseteq ElementsOf(s \o t)
  BY <1>2, <1>5 DEF ElementsOf
<1>8. ElementsOf(t) \subseteq ElementsOf(s \o t)
  BY <1>3, <1>5 DEF ElementsOf
<1> QED
  BY <1>1, <1>6, <1>7, <1>8

\* A panel asks its own queries.
LEMMA PanelQueries ==
  ASSUME NEW name \in PanelNames, NEW qs \in Seq(Kinds)
  PROVE  /\ Panel(name, qs) \in Seq(Queries)
         /\ ElementsOf(Panel(name, qs)) = {<<name, qs[i]>> : i \in 1..Len(qs)}
<1>1. DOMAIN qs = 1..Len(qs) /\ Len(qs) \in Nat
  OBVIOUS
<1>2. Panel(name, qs) = [i \in 1..Len(qs) |-> <<name, qs[i]>>]
  BY <1>1 DEF Panel
<1>3. \A i \in 1..Len(qs) : <<name, qs[i]>> \in Queries
  BY DEF Queries
<1> DEFINE p == [i \in 1..Len(qs) |-> <<name, qs[i]>>]
<1>4. p \in [1..Len(qs) -> Queries] /\ \A i \in 1..Len(qs) : p[i] = <<name, qs[i]>>
  BY <1>3
<1> HIDE DEF p
<1>5. p \in Seq(Queries) /\ Len(p) = Len(qs)
  BY <1>1, <1>4
<1>6. ElementsOf(p) = {<<name, qs[i]>> : i \in 1..Len(qs)}
  BY <1>4, <1>5 DEF ElementsOf
<1> QED
  BY <1>2, <1>5, <1>6 DEF p

\* The index page asks for every figure that the properties compare.
LEMMA IndexQueries ==
  /\ QueriesOf("index") \in Seq(Queries)
  /\ \A q \in ElementsOf(QueriesOf("index")) : q[2] # "head"
  /\ {<<"kpis", "costs">>, <<"ingest", "perSource">>, <<"kpis", "billed">>,
      <<"budget", "perProvider">>, <<"pipeline", "joined">>,
      <<"join", "statuses">>, <<"join", "categories">>, <<"kpis", "candidates">>,
      <<"kpis", "addressable">>, <<"rightsizing", "top">>} \subseteq ElementsOf(QueriesOf("index"))
<1> DEFINE a == <<"billed", "recharged", "costs", "statuses", "candidates", "addressable">>
           b == <<"costs", "joined", "samples", "charged">>
           c == <<"perSource">>
           d == <<"statuses", "categories">>
           e == <<"top">>
           f == <<"perProvider", "recharged">>
           g == <<"costs", "missing", "oddCategory", "unpriced", "oddCode">>
<1>1. /\ a \in Seq(Kinds) /\ Len(a) = 6 /\ b \in Seq(Kinds) /\ Len(b) = 4
      /\ c \in Seq(Kinds) /\ Len(c) = 1 /\ d \in Seq(Kinds) /\ Len(d) = 2
      /\ e \in Seq(Kinds) /\ Len(e) = 1 /\ f \in Seq(Kinds) /\ Len(f) = 2
      /\ g \in Seq(Kinds) /\ Len(g) = 5
  <2>1. a \in Seq(Kinds) /\ Len(a) = 6
    BY DEF Kinds
  <2>2. b \in Seq(Kinds) /\ Len(b) = 4
    BY DEF Kinds
  <2>3. c \in Seq(Kinds) /\ Len(c) = 1
    BY DEF Kinds
  <2>4. d \in Seq(Kinds) /\ Len(d) = 2
    BY DEF Kinds
  <2>5. e \in Seq(Kinds) /\ Len(e) = 1
    BY DEF Kinds
  <2>6. f \in Seq(Kinds) /\ Len(f) = 2
    BY DEF Kinds
  <2>7. g \in Seq(Kinds) /\ Len(g) = 5
    BY DEF Kinds
  <2> HIDE DEF a, b, c, d, e, f, g
  <2> QED
    BY <2>1, <2>2, <2>3, <2>4, <2>5, <2>6, <2>7
<1> DEFINE A == {<<"kpis", a[i]>> : i \in 1..6}
           B == {<<"pipeline", b[i]>> : i \in 1..4}
           C == {<<"ingest", c[i]>> : i \in 1..1}
           D == {<<"join", d[i]>> : i \in 1..2}
           E == {<<"rightsizing", e[i]>> : i \in 1..1}
           F == {<<"budget", f[i]>> : i \in 1..2}
           G == {<<"conformance", g[i]>> : i \in 1..5}
<1>2. HeadlineKpis \in Seq(Queries) /\ ElementsOf(HeadlineKpis) = A
  <2>1. HeadlineKpis = Panel("kpis", a) /\ "kpis" \in PanelNames
    BY DEF HeadlineKpis, PanelNames
  <2> HIDE DEF a
  <2> QED
    BY <1>1, <2>1, PanelQueries
<1>3. PipelineSnapshot \in Seq(Queries) /\ ElementsOf(PipelineSnapshot) = B
  <2>1. PipelineSnapshot = Panel("pipeline", b) /\ "pipeline" \in PanelNames
    BY DEF PipelineSnapshot, PanelNames
  <2> HIDE DEF b
  <2> QED
    BY <1>1, <2>1, PanelQueries
<1>4. ProviderIngest \in Seq(Queries) /\ ElementsOf(ProviderIngest) = C
  <2>1. ProviderIngest = Panel("ingest", c) /\ "ingest" \in PanelNames
    BY DEF ProviderIngest, PanelNames
  <2> HIDE DEF c
  <2> QED
    BY <1>1, <2>1, PanelQueries
<1>5. JoinDistribution \in Seq(Queries) /\ ElementsOf(JoinDistribution) = D
  <2>1. JoinDistribution = Panel("join", d) /\ "join" \in PanelNames
    BY DEF JoinDistribution, PanelNames
  <2> HIDE DEF d
  <2> QED
    BY <1>1, <2>1, PanelQueries
<1>6. TopRightsizing \in Seq(Queries) /\ ElementsOf(TopRightsizing) = E
  <2>1. TopRightsizing = Panel("rightsizing", e) /\ "rightsizing" \in PanelNames
    BY DEF TopRightsizing, PanelNames
  <2> HIDE DEF e
  <2> QED
    BY <1>1, <2>1, PanelQueries
<1>7. CloudVsOnprem \in Seq(Queries) /\ ElementsOf(CloudVsOnprem) = F
  <2>1. CloudVsOnprem = Panel("budget", f) /\ "budget" \in PanelNames
    BY DEF CloudVsOnprem, PanelNames
  <2> HIDE DEF f
  <2> QED
    BY <1>1, <2>1, PanelQueries
<1>8. FocusConformance \in Seq(Queries) /\ ElementsOf(FocusConformance) = G
  <2>1. FocusConformance = Panel("conformance", g) /\ "conformance" \in PanelNames
    BY DEF FocusConformance, PanelNames
  <2> HIDE DEF g
  <2> QED
    BY <1>1, <2>1, PanelQueries
<1>9. QueriesOf("index") = HeadlineKpis \o PipelineSnapshot \o ProviderIngest
                             \o JoinDistribution \o TopRightsizing \o CloudVsOnprem
                             \o FocusConformance
  BY DEF QueriesOf
<1>10. /\ QueriesOf("index") \in Seq(Queries)
       /\ ElementsOf(QueriesOf("index")) = A \cup B \cup C \cup D \cup E \cup F \cup G
  <2> HIDE DEF A, B, C, D, E, F, G
  <2>1. /\ HeadlineKpis \o PipelineSnapshot \in Seq(Queries)
        /\ ElementsOf(HeadlineKpis \o PipelineSnapshot) = A \cup B
    BY <1>2, <1>3, ElementsOfBoth
  <2>2. /\ HeadlineKpis \o PipelineSnapshot \o ProviderIngest \in Seq(Queries)
        /\ ElementsOf(HeadlineKpis \o PipelineSnapshot \o ProviderIngest) = A \cup B \cup C
    BY <1>4, <2>1, ElementsOfBoth
  <2>3. /\ HeadlineKpis \o PipelineSnapshot \o ProviderIngest \o JoinDistribution \in Seq(Queries)
        /\ ElementsOf(HeadlineKpis \o PipelineSnapshot \o ProviderIngest \o JoinDistribution)
             = A \cup B \cup C \cup D
    BY <1>5, <2>2, ElementsOfBoth
  <2>4. /\ HeadlineKpis \o PipelineSnapshot \o ProviderIngest \o JoinDistribution
             \o TopRightsizing \in Seq(Queries)
        /\ ElementsOf(HeadlineKpis \o PipelineSnapshot \o ProviderIngest \o JoinDistribution
             \o TopRightsizing) = A \cup B \cup C \cup D \cup E
    BY <1>6, <2>3, ElementsOfBoth
  <2>5. /\ HeadlineKpis \o PipelineSnapshot \o ProviderIngest \o JoinDistribution
             \o TopRightsizing \o CloudVsOnprem \in Seq(Queries)
        /\ ElementsOf(HeadlineKpis \o PipelineSnapshot \o ProviderIngest \o JoinDistribution
             \o TopRightsizing \o CloudVsOnprem) = A \cup B \cup C \cup D \cup E \cup F
    BY <1>7, <2>4, ElementsOfBoth
  <2> QED
    BY <1>8, <1>9, <2>5, ElementsOfBoth
<1>11. /\ \A q \in A \cup B : q[2] # "head"
       /\ \A q \in C \cup D \cup E \cup F : q[2] # "head"
       /\ \A q \in G : q[2] # "head"
  OBVIOUS
<1>12. /\ <<"kpis", "billed">> = <<"kpis", a[1]>>
       /\ <<"kpis", "costs">> = <<"kpis", a[3]>> /\ <<"kpis", "candidates">> = <<"kpis", a[5]>>
       /\ <<"kpis", "addressable">> = <<"kpis", a[6]>>
       /\ <<"pipeline", "joined">> = <<"pipeline", b[2]>>
       /\ <<"ingest", "perSource">> = <<"ingest", c[1]>>
       /\ <<"join", "statuses">> = <<"join", d[1]>> /\ <<"join", "categories">> = <<"join", d[2]>>
       /\ <<"rightsizing", "top">> = <<"rightsizing", e[1]>>
       /\ <<"budget", "perProvider">> = <<"budget", f[1]>>
  OBVIOUS
<1>13. /\ {<<"kpis", "costs">>, <<"kpis", "billed">>,
           <<"kpis", "candidates">>, <<"kpis", "addressable">>} \subseteq A
       /\ <<"pipeline", "joined">> \in B
       /\ <<"ingest", "perSource">> \in C
       /\ {<<"join", "statuses">>, <<"join", "categories">>} \subseteq D
       /\ <<"rightsizing", "top">> \in E
       /\ <<"budget", "perProvider">> \in F
  <2>1. 1 \in 1..6 /\ 2 \in 1..6 /\ 3 \in 1..6 /\ 5 \in 1..6 /\ 6 \in 1..6 /\ 1 \in 1..4 /\ 2 \in 1..4
        /\ 1 \in 1..1 /\ 1 \in 1..2 /\ 2 \in 1..2 /\ 1 \in 1..5
    OBVIOUS
  <2> HIDE DEF a, b, c, d, e, f, g
  <2> QED
    BY <1>12, <2>1
<1> HIDE DEF A, B, C, D, E, F, G
<1>14. \A q \in ElementsOf(QueriesOf("index")) : q[2] # "head"
  BY <1>10, <1>11
<1> QED
  BY <1>10, <1>13, <1>14

\* What the recharge of machines sums.
RechargeOf(vms) == MapThenSumSet(LAMBDA v : Recharge[v], vms)

\* A query has the answers that it had, unless a table changed.
LEMMA AnswerStays ==
  ASSUME UNCHANGED tables, NEW q \in Queries
  PROVE  Answers(q)' = Answers(q)
<1>1. focus' = focus /\ join' = join /\ util' = util /\ onprem' = onprem
  BY DEF tables
<1>2. q[2] \in Kinds
  BY DEF Queries
<1>3. Costs' = Costs
  BY <1>1 DEF Costs, RowsOf
<1>4. OfStatus("matched")' = OfStatus("matched") /\ OfStatus("unmatched_focus_only")' = OfStatus("unmatched_focus_only")
  BY <1>1 DEF OfStatus
<1>5. Sampled' = Sampled
  BY <1>1, <1>4 DEF Sampled
<1>6. Candidates' = Candidates
  BY <1>5 DEF Candidates
<1>7. Addressable' = Addressable
  <2>1. Addressable' = MoneyOf(Sampled)'
    BY DEF Addressable, TopCost, MoneyOf, DearIdle, TopOf
  <2>2. MoneyOf(Sampled)' = MoneyOf(Sampled)
    BY <1>5
  <2> QED
    BY <2>1, <2>2, AddressableIs
<1>8. Recharged' = Recharged
  <2>1. Recharged = RechargeOf(onprem)
    BY DEF Recharged, RechargeOf
  <2>2. Recharged' = RechargeOf(onprem)'
    BY DEF Recharged, RechargeOf
  <2> QED
    BY <1>1, <2>1, <2>2
<1>9. FocusOnlySplit' = FocusOnlySplit
  BY <1>4 DEF FocusOnlySplit
<1>10. PerSource' = PerSource
  BY <1>1 DEF PerSource
<1>11. MissingRows' = MissingRows /\ OddRows' = OddRows /\ UnpricedRows' = UnpricedRows /\ OddCodeRows' = OddCodeRows
  BY <1>3 DEF MissingRows, OddRows, UnpricedRows, OddCodeRows
<1>13. TopLists' = TopLists
  <2>1. TopRows' = TopRows
    BY <1>5 DEF TopRows
  <2> QED
    BY <2>1 DEF TopLists, Before
<1>14. PerProvider' = PerProvider
  BY <1>3 DEF PerProvider
<1>12. Usd(Costs)' = Usd(Costs) /\ Cardinality(Costs)' = Cardinality(Costs)
       /\ Cardinality(Candidates)' = Cardinality(Candidates)
  BY <1>3, <1>6
<1>15. q[2] # "top" => Answer(q)' = Answer(q)
  BY <1>1, <1>2, <1>7, <1>8, <1>9, <1>10, <1>11, <1>12, <1>14 DEF Answer, Kinds
<1>16. q[2] # "head"
  BY <1>2 DEF Kinds
<1> QED
  BY <1>13, <1>15, <1>16 DEF Answers

\* On the index page every query is answered with what the tables hold, as long as
\* nothing commits.
IndexPage ==
  page = "index" =>
    /\ asked <= Len(QueriesOf("index"))
    /\ \A i \in 1..asked : Asked(QueriesOf("index")[i])
    /\ quiet => \A q \in DOMAIN got : q \in Queries /\ got[q] \in Answers(q)

\* The join table is a join: of the costs that some export held.
Joined == \E f \in [Sources -> SUBSET Bills] : join = JoinOf(RowsOf(f))

\* A commit makes the page no longer quiet.
LEMMA IndexSurvives ==
  ASSUME IndexPage, UNCHANGED <<page, asked, got>>,
         UNCHANGED <<tables, quiet>> \/ quiet' = FALSE
  PROVE  IndexPage'
<1>1. page' = page /\ asked' = asked /\ got' = got /\ \A q : Asked(q)' <=> Asked(q)
  BY DEF Asked
<1>2. QueriesOf("index")' = QueriesOf("index")
  BY DEF QueriesOf
<1>3. CASE quiet' = FALSE
  BY <1>1, <1>2, <1>3 DEF IndexPage
<1>4. CASE UNCHANGED <<tables, quiet>>
  <2>1. quiet' = quiet /\ \A q \in Queries : Answers(q)' = Answers(q)
    BY <1>4, AnswerStays
  <2> QED
    BY <1>1, <1>2, <2>1 DEF IndexPage
<1> QED
  BY <1>3, <1>4

\* The next query of the index page is asked of the tables.
LEMMA IndexQuery ==
  ASSUME TypeOK, IndexPage, Query
  PROVE  IndexPage'
<1> DEFINE q == QueriesOf(page)[asked + 1]
           n == Len(QueriesOf("index"))
<1>1. /\ UNCHANGED tables /\ quiet' = quiet /\ page' = page
      /\ asked' = asked + 1 /\ ~Rendered
      /\ \E a \in Answers(q) :
           got' = [x \in DOMAIN got \cup {q} |-> IF x = q THEN a ELSE got[x]]
  BY DEF Query, loads, tables
<1>2. asked \in Nat
  BY Zenon DEF TypeOK
<1>3. CASE page # "index"
  BY <1>1, <1>3 DEF IndexPage
<1>4. CASE page = "index"
  <2>0. "index" # ""
    OBVIOUS
  <2>1. asked # n
    BY <1>1, <1>4, <2>0 DEF Rendered
  <2>2. n \in Nat /\ asked <= n
    BY <1>4, IndexQueries DEF IndexPage
  <2>3. asked + 1 \in 1..n /\ asked' <= n
    <3> HIDE DEF n
    <3> QED
      BY <1>1, <1>2, <2>1, <2>2
  <2>4. q = QueriesOf("index")[asked + 1]
    BY <1>4
  <2>5. q \in ElementsOf(QueriesOf("index"))
    BY <2>3, <2>4 DEF ElementsOf
  <2>6. q \in Queries /\ q[2] # "head"
    <3>1. QueriesOf("index") \in Seq(Queries)
      BY IndexQueries
    <3>2. QueriesOf("index")[asked + 1] \in Queries
      BY <2>3, <3>1
    <3> QED
      BY <2>4, <2>5, <3>2, IndexQueries
  <2> HIDE DEF q, n
  <2>8. DOMAIN got' = DOMAIN got \cup {q} /\ got'[q] \in Answers(q)
        /\ \A x \in DOMAIN got : x # q => got'[x] = got[x]
    BY <1>1
  <2>9. QueriesOf("index")' = QueriesOf("index")
    BY DEF QueriesOf
  <2>10. \A i \in 1..asked' : Asked(QueriesOf("index")[i])'
    <3>1. ASSUME NEW i \in 1..asked' PROVE QueriesOf("index")[i] \in DOMAIN got'
      <4>1. i \in 1..asked \/ i = asked + 1
        BY <1>1, <1>2
      <4>2. i \in 1..asked => QueriesOf("index")[i] \in DOMAIN got
        BY <1>4 DEF IndexPage, Asked
      <4> QED
        BY <2>4, <2>8, <4>1, <4>2
    <3> QED
      BY <2>9, <3>1 DEF Asked
  <2>11. quiet' => \A x \in DOMAIN got' : x \in Queries /\ got'[x] \in Answers(x)'
    <3>1. ASSUME quiet, NEW x \in DOMAIN got' PROVE x \in Queries /\ got'[x] \in Answers(x)
      BY <1>4, <2>6, <2>8, <3>1 DEF IndexPage
    <3>2. \A x \in Queries : Answers(x)' = Answers(x)
      BY <1>1, AnswerStays
    <3> QED
      BY <1>1, <3>1, <3>2
  <2> QED
    BY <2>3, <2>9, <2>10, <2>11 DEF IndexPage, n
<1> QED
  BY <1>3, <1>4

\* What the index page has shown follows from the tables, and the join stays one.
LEMMA IndexNext ==
  ASSUME TypeOK, BlankPage, IndexPage, Joined, [Next]_vars
  PROVE  IndexPage' /\ Joined'
<1>j. (join' = join \/ \E f \in [Sources -> SUBSET Bills] : join' = JoinOf(RowsOf(f))) => Joined'
  BY DEF Joined
<1>o. ASSUME NEW p \in Pages, NEW vs, Open(p, vs) PROVE IndexPage' /\ Joined'
  <2>1. page = "" /\ page' = p /\ UNCHANGED <<join, asked, got>>
    BY <1>o, Zenon DEF Open
  <2>2. DOMAIN got' = {} /\ asked' = 0
    BY <2>1 DEF BlankPage
  <2>3. Len(QueriesOf("index")) \in Nat /\ QueriesOf("index")' = QueriesOf("index")
    BY IndexQueries DEF QueriesOf
  <2>4. asked' <= Len(QueriesOf("index")) /\ 1..asked' = {}
    BY <2>2, <2>3
  <2>5. IndexPage'
    BY <2>2, <2>3, <2>4 DEF IndexPage
  <2> QED
    BY <1>j, <2>1, <2>5
<1>c. ASSUME UNCHANGED <<page, asked, got>>, UNCHANGED <<tables, quiet>> \/ quiet' = FALSE PROVE IndexPage'
  BY <1>c, IndexSurvives
<1>1. CASE \E p \in Pages \ {"detail"} : Open(p, {})
  BY <1>1, <1>o
<1>2. CASE \E vs \in Drills : Open("detail", vs)
  BY <1>2, <1>o DEF Pages
<1>3. CASE Query
  <2>1. join' = join
    BY <1>3 DEF Query, loads
  <2> QED
    BY <1>3, <1>j, <2>1, IndexQuery
<1>4. CASE Respond
  <2>1. page' # "index" /\ join' = join
    BY <1>4 DEF Respond, loads
  <2> QED
    BY <1>j, <2>1 DEF IndexPage
<1>5. CASE LoadOnprem \/ \E s \in Sources : \E rows \in Partitions[s] : LoadSource(s, rows)
  <2>1. Commit /\ join' = join
    BY <1>5 DEF LoadSource, LoadOnprem
  <2> QED
    BY <1>c, <1>j, <2>1 DEF Commit
<1>6. CASE LoadJoin
  <2>1. exported \in [Sources -> SUBSET Bills] \cup {NoExport}
    BY Zenon DEF TypeOK
  <2>2. Commit /\ exported \in [Sources -> SUBSET Bills] /\ join' = JoinOf(RowsOf(exported))
    BY <1>6, <2>1 DEF LoadJoin
  <2> QED
    BY <1>c, <1>j, <2>2 DEF Commit
<1>7. ASSUME NEW f \in Contents, Seed(f) PROVE IndexPage' /\ Joined'
  <2>1. Commit /\ f \in [Sources -> SUBSET Bills] /\ join' = JoinOf(RowsOf(f))
    BY <1>7, ContentsAreBills DEF Seed
  <2> QED
    BY <1>c, <1>j, <2>1 DEF Commit
<1>8. CASE Export \/ UNCHANGED vars
  <2>1. UNCHANGED <<page, asked, got, join>> /\ UNCHANGED <<tables, quiet>>
    BY <1>8 DEF Export, vars, loads, tables
  <2> QED
    BY <1>c, <1>j, <2>1
<1> QED
  BY <1>1, <1>2, <1>3, <1>4, <1>5, <1>6, <1>7, <1>8 DEF Next

\* What a whole index page shows of a figure, when nothing committed.
LEMMA ShownIs ==
  ASSUME IndexPage, quiet, Rendered, page = "index", NEW q \in ElementsOf(QueriesOf("index"))
  PROVE  got[q] \in Answers(q)
<1>1. asked = Len(QueriesOf("index"))
  BY DEF Rendered
<1>2. PICK i \in 1..Len(QueriesOf("index")) : q = QueriesOf("index")[i]
  BY DEF ElementsOf
<1>3. Asked(q)
  BY <1>1, <1>2 DEF IndexPage
<1> QED
  BY <1>3 DEF IndexPage, Asked

\* The figures of a quiet page.
LEMMA FiguresShown ==
  ASSUME IndexPage, quiet, Rendered, page = "index"
  PROVE  /\ got[<<"kpis", "costs">>] = {Cardinality(Costs)}
         /\ got[<<"ingest", "perSource">>] = {PerSource}
         /\ got[<<"kpis", "billed">>] = {Usd(Costs)}
         /\ got[<<"budget", "perProvider">>] = {PerProvider}
         /\ got[<<"pipeline", "joined">>] = {Cardinality(join)}
         /\ got[<<"join", "statuses">>] = join /\ got[<<"join", "categories">>] = FocusOnlySplit
         /\ got[<<"kpis", "candidates">>] = {Cardinality(Candidates)}
         /\ got[<<"kpis", "addressable">>] = {Addressable}
         /\ got[<<"rightsizing", "top">>] \in TopLists
<1> DEFINE S == {<<"kpis", "costs">>, <<"ingest", "perSource">>, <<"kpis", "billed">>,
      <<"budget", "perProvider">>, <<"pipeline", "joined">>,
      <<"join", "statuses">>, <<"join", "categories">>, <<"kpis", "candidates">>,
      <<"kpis", "addressable">>, <<"rightsizing", "top">>}
<1>1. \A q \in S : got[q] \in Answers(q)
  <2>1. S \subseteq ElementsOf(QueriesOf("index"))
    BY IndexQueries
  <2> HIDE DEF S
  <2> QED
    BY <2>1, ShownIs
<1>2. \A p : /\ Answer(<<p, "costs">>) = {Cardinality(Costs)} /\ Answer(<<p, "perSource">>) = {PerSource}
             /\ Answer(<<p, "billed">>) = {Usd(Costs)} /\ Answer(<<p, "perProvider">>) = {PerProvider}
             /\ Answer(<<p, "joined">>) = {Cardinality(join)} /\ Answer(<<p, "statuses">>) = join
             /\ Answer(<<p, "categories">>) = FocusOnlySplit
             /\ Answer(<<p, "candidates">>) = {Cardinality(Candidates)}
             /\ Answer(<<p, "addressable">>) = {Addressable}
  BY DEF Answer
<1>3. \A q : q[2] \notin {"head", "top"} => Answers(q) = {Answer(q)}
  BY DEF Answers
<1>4. Answers(<<"rightsizing", "top">>) = TopLists
  BY DEF Answers
<1>5. \A q \in S : q[2] \notin {"head", "top"} => got[q] = Answer(q)
  BY <1>1, <1>3
<1>6. got[<<"rightsizing", "top">>] \in TopLists
  BY <1>1, <1>4
<1> QED
  BY <1>2, <1>5, <1>6

\* The rows of the join table have a status and a cost.
LEMMA JoinedShape ==
  ASSUME Joined
  PROVE  IsFiniteSet(join) /\ \A j \in join : j.cost \in Nat /\ j.status \in Statuses
BY JoinShape DEF Joined

\* The first state has no page, and the join of its costs.
LEMMA JoinedInit == Init => BlankPage /\ IndexPage /\ Joined
<1> SUFFICES ASSUME Init PROVE BlankPage /\ IndexPage /\ Joined
  OBVIOUS
<1>1. BlankPage
  BY NoAnswers DEF Init, BlankPage
<1>2. page = "" /\ "" # "index"
  BY Zenon DEF Init
<1>3. IndexPage
  BY <1>2, Zenon DEF IndexPage
<1>4. focus \in [Sources -> SUBSET Bills] /\ join = JoinOf(RowsOf(focus))
  BY ContentsAreBills DEF Init
<1> QED
  BY <1>1, <1>3, <1>4 DEF Joined

-----------------------------------------------------------------------------

\* The inductive invariant: the tables only ever hold what a gate let in.
THEOREM ConsoleInvariant == Spec => []ConsoleInv
BY ConsoleInit, ConsoleNext, PTL DEF Spec

\* Types of the model.
THEOREM TypeCorrect == Spec => []TypeOK
<1>1. ConsoleInv => TypeOK
  BY DEF ConsoleInv
<1> QED
  BY <1>1, ConsoleInvariant, PTL

\* The daily costs of a drill-down are of its resource, and add up to the cost in its
\* head when nothing was committed and the join is of the costs in the table.
THEOREM DrillDownAddsUp == Spec => []DetailAddsUp
<1>1. Init => BlankPage /\ DrillDown
  BY NoAnswers DEF Init, BlankPage, DrillDown
<1>2. ConsoleInv /\ BlankPage /\ DrillDown /\ [Next]_vars => BlankPage' /\ DrillDown'
  BY DetailNext DEF ConsoleInv
<1>3. DrillDown => DetailAddsUp
  <2> SUFFICES ASSUME DrillDown, page = "detail", Asked(Daily)
      PROVE /\ \A r \in got[Daily] : r.bill.res = HeadRow.res /\ r.bill.res \in Resources
            /\ quiet /\ join = JoinOf(Costs) =>
                 Usd({r \in got[Daily] : r.source = HeadRow.source}) = HeadRow.cost
    BY DEF DetailAddsUp, HeadOf, Daily, HeadRow, The
  <2>1. /\ HeadRow.vms # {} /\ (quiet => HeadRow \in join)
        /\ \A r \in got[Daily] : r.bill.res = HeadRow.res /\ r.bill.res \in Resources
        /\ quiet => got[Daily] = CostsOf(HeadRow.res)
    BY DEF DrillDown
  <2>2. ASSUME quiet, join = JoinOf(Costs)
        PROVE  Usd({r \in got[Daily] : r.source = HeadRow.source}) = HeadRow.cost
    <3> DEFINE j == HeadRow
    <3>1. j \in JoinOf(Costs) /\ got[Daily] = CostsOf(j.res) /\ j.vms # {}
      BY <2>1, <2>2
    <3> SUFFICES Usd({y \in CostsOf(j.res) : y.source = j.source}) = j.cost
      BY <3>1
    <3> HIDE DEF j
    <3>2. ASSUME NEW r \in Costs, j = CostRow(Costs, r)
          PROVE  Usd({y \in CostsOf(j.res) : y.source = j.source}) = j.cost
      <4>1. /\ j.source = r.source /\ j.res = r.bill.res /\ r.bill.res # NoRes
            /\ j.cost = Usd(GroupOf(Costs, r))
        BY <3>1, <3>2 DEF CostRow
      <4>2. GroupOf(Costs, r) = {y \in CostsOf(j.res) : y.source = j.source}
        BY <4>1 DEF CostsOf, GroupOf
      <4> QED
        BY <4>1, <4>2
    <3>3. ASSUME NEW v \in Vms, j = VmRow(v)
          PROVE  Usd({y \in CostsOf(j.res) : y.source = j.source}) = j.cost
      <4>1. j.res = NoRes /\ j.cost = 0
        BY <3>3, VmRowFields
      <4>2. {y \in CostsOf(j.res) : y.source = j.source} = {}
        BY <4>1 DEF CostsOf
      <4> QED
        BY <4>1, <4>2, NothingCosts
    <3> QED
      BY <3>1, <3>2, <3>3, JoinRow
  <2> QED
    BY <2>1, <2>2
<1> QED
  BY <1>1, <1>2, <1>3, ConsoleInvariant, PTL DEF Spec

\* What the pages have shown, always.
LEMMA IndexAlways == Spec => [](TypeOK /\ IndexPage /\ Joined)
<1>1. Init => BlankPage /\ DrillDown /\ IndexPage /\ Joined
  BY JoinedInit, NoAnswers DEF Init, DrillDown
<1>2. ConsoleInv /\ BlankPage /\ DrillDown /\ IndexPage /\ Joined /\ [Next]_vars
        => (BlankPage /\ DrillDown /\ IndexPage /\ Joined)'
  BY DetailNext, IndexNext DEF ConsoleInv
<1>3. ConsoleInv => TypeOK
  BY DEF ConsoleInv
<1> QED
  BY <1>1, <1>2, <1>3, ConsoleInvariant, PTL DEF Spec

\* On a page that no commit disturbed, panels that count and sum in ways of their own
\* agree: rows by source, dollars by provider but for the rounding, and segments.
THEOREM PanelsAgree == Spec => []QuietPageAgrees
<1>1. TypeOK /\ IndexPage /\ Joined => QuietPageAgrees
  <2> SUFFICES ASSUME TypeOK, IndexPage, Joined, quiet, Rendered, page = "index"
      PROVE
    /\ The(<<"kpis", "costs">>)
         = MapThenSumSet(LAMBDA s : Cardinality(The(<<"ingest", "perSource">>)[s]), Sources)
    /\ Billed(The(<<"kpis", "billed">>), The(<<"budget", "perProvider">>))
    /\ The(<<"pipeline", "joined">>)
         = MapThenSumSet(LAMBDA t : Cardinality({j \in got[<<"join", "statuses">>] : j.status = t}),
                         Segments \ {"expected", "worklist"})
           + MapThenSumSet(LAMBDA t : Cardinality(t[2]), got[<<"join", "categories">>])
    BY Zenon DEF QuietPageAgrees, Billed
  <2>f. focus \in [Sources -> SUBSET Bills]
    BY Zenon DEF TypeOK
  <2>2. The(<<"kpis", "costs">>) = Cardinality(Costs) /\ The(<<"ingest", "perSource">>) = focus
    BY <2>f, FiguresShown DEF The, PerSource
  <2>3. The(<<"kpis", "costs">>)
         = MapThenSumSet(LAMBDA s : Cardinality(The(<<"ingest", "perSource">>)[s]), Sources)
    <3> DEFINE x == The(<<"ingest", "perSource">>)
    <3>1. x \in [Sources -> SUBSET Bills] /\ Costs = RowsOf(x)
      BY <2>f, <2>2 DEF Costs
    <3> HIDE DEF x
    <3>2. Cardinality(RowsOf(x)) = MapThenSumSet(LAMBDA s : Cardinality(x[s]), Sources)
      BY <3>1, CostsBySource
    <3>3. The(<<"kpis", "costs">>) = MapThenSumSet(LAMBDA s : Cardinality(x[s]), Sources)
      BY <2>2, <3>1, <3>2
    <3> QED
      BY <3>3, Zenon DEF x
  <2>5. Billed(The(<<"kpis", "billed">>), The(<<"budget", "perProvider">>))
    <3>1. The(<<"kpis", "billed">>) = Usd(Costs) /\ The(<<"budget", "perProvider">>) = PerProvider
      BY FiguresShown DEF The
    <3>2. Costs = RowsOf(focus)
      BY DEF Costs
    <3>3. PerProvider = [p \in {r.bill.prov : r \in Costs} |-> ToCents(Usd({r \in Costs : r.bill.prov = p}))]
      BY DEF PerProvider
    <3>4. Billed(Usd(Costs), PerProvider)
      <4> DEFINE rows == Costs
                 each == PerProvider
      <4>1. rows = RowsOf(focus)
            /\ each = [p \in {r.bill.prov : r \in rows} |-> ToCents(Usd({r \in rows : r.bill.prov = p}))]
        BY <3>2, <3>3
      <4> HIDE DEF rows, each
      <4>2. Billed(Usd(rows), each)
        BY <2>f, <4>1, BilledByProvider
      <4> QED
        BY <4>2 DEF rows, each
    <3> QED
      BY <3>1, <3>4
  <2>4. The(<<"pipeline", "joined">>)
         = MapThenSumSet(LAMBDA t : Cardinality({j \in got[<<"join", "statuses">>] : j.status = t}),
                         Segments \ {"expected", "worklist"})
           + MapThenSumSet(LAMBDA t : Cardinality(t[2]), got[<<"join", "categories">>])
    <3>1. Cardinality(join)
           = MapThenSumSet(LAMBDA t : Cardinality({j \in join : j.status = t}),
                           Segments \ {"expected", "worklist"})
             + MapThenSumSet(LAMBDA t : Cardinality(t[2]), FocusOnlySplit)
      BY JoinedShape, JoinBySegment
    <3>2. The(<<"pipeline", "joined">>) = Cardinality(join)
          /\ join = got[<<"join", "statuses">>] /\ FocusOnlySplit = got[<<"join", "categories">>]
      BY FiguresShown DEF The
    <3> QED
      BY <3>1, <3>2
  <2> QED
    BY <2>3, <2>4, <2>5, Zenon
<1> QED
  BY <1>1, IndexAlways, PTL

\* On such a page the two tiles of rightsizing and the list below them tell one story,
\* however many rows the list has place for.
THEOREM RightsizingTilesAgree == Spec => []TilesAgree
<1>1. TypeOK /\ IndexPage /\ Joined => TilesAgree
  <2> DEFINE Dear(list) == {r \in list : r.vms \subseteq Idle /\ r.cost > Worth}
             Story(candidates, addressable, dear) ==
               /\ candidates = 0 <=> addressable = 0
               /\ candidates <= Cardinality(dear) \/ Cardinality(dear) = TopLimit
               /\ \A r \in dear : r.cost <= addressable
               /\ Cardinality(dear) < TopLimit => addressable = DearestIn(dear)
             list == got[<<"rightsizing", "top">>]
  <2> SUFFICES ASSUME IndexPage, Joined, quiet, Rendered, page = "index"
      PROVE Story(The(<<"kpis", "candidates">>), The(<<"kpis", "addressable">>), Dear(list))
    BY DEF TilesAgree
  <2>1. IsFiniteSet(Sampled) /\ \A j \in Sampled : j.cost \in Nat
    BY JoinedShape, FS_Subset DEF Sampled, OfStatus
  <2>2. list \in TopLists /\ The(<<"kpis", "candidates">>) = Cardinality(Candidates)
        /\ The(<<"kpis", "addressable">>) = Addressable
    BY FiguresShown DEF The
  <2> HIDE DEF list
  <2>3. /\ list \in SUBSET TopRows /\ Cardinality(list) <= TopLimit
        /\ Cardinality(list) < TopLimit => list = TopRows
        /\ \A a \in list, b \in TopRows \ list : ~Before(b, a)
    BY <2>2 DEF TopLists
  <2>4. TopRows = {[vms |-> j.vms, source |-> j.source, cost |-> j.cost] : j \in Sampled}
    BY DEF TopRows
  <2>5. Candidates = {<<j.vms, j.cost>> : j \in {k \in Sampled : k.vms \subseteq Idle /\ k.cost > Worth}}
    BY DEF Candidates
  <2>6. Cardinality(Candidates) = 0 <=> Addressable = 0
    BY <2>1, <2>5, TilesOf, AddressableIs
  <2>7. /\ Cardinality(Candidates) <= Cardinality(Dear(list)) \/ Cardinality(Dear(list)) = TopLimit
        /\ \A r \in Dear(list) : r.cost <= Addressable
        /\ Cardinality(Dear(list)) < TopLimit => Addressable = DearestIn(Dear(list))
    BY <2>1, <2>3, <2>4, <2>5, ListOf, AddressableIs
  <2>8. Story(Cardinality(Candidates), Addressable, Dear(list))
    <3> HIDE DEF Dear
    <3> QED
      BY <2>6, <2>7
  <2> HIDE DEF Story, Dear
  <2> QED
    BY <2>2, <2>8
<1> QED
  BY <1>1, IndexAlways, PTL

\* The money of a fresh join is that of the costs in the table, in all and for each
\* resource, whatever sources bill it.
THEOREM JoinedMoneyReconciles == Spec => []MoneyReconciles
BY TypeCorrect, JoinReconciled, PTL

\* What it takes for a matched row to have the whole cost of its resource: that no other
\* source bills it.
BilledOnce == \A q, r \in Costs : q.bill.res = r.bill.res => q.source = r.source

\* Then every matched row of a fresh join is the live sum of its resource, as the test of
\* data integrity has it.  Without the condition it is not, which Console_reconcile shows.
THEOREM BilledOnceReconciles == Spec => [](BilledOnce => JoinReconciles)
<1>1. ASSUME BilledOnce, join = JoinOf(Costs), NEW j \in OfStatus("matched")
      PROVE  j.cost = Usd(CostsOf(j.res))
  <2>1. j \in JoinOf(Costs) /\ j.status = "matched"
    BY <1>1 DEF OfStatus
  <2>2. \A v \in Vms : j # VmRow(v)
    <3>1. \A v \in Vms : VmRow(v).status = "unmatched_miq_only"
      BY VmRowFields
    <3> QED
      BY <2>1, <3>1
  <2>3. PICK r \in Costs : j = CostRow(Costs, r)
    BY <2>1, <2>2, JoinRow
  <2>4. /\ j.status = JoinStatus(r.bill.res) /\ j.res = r.bill.res
        /\ j.cost = Usd(GroupOf(Costs, r))
    BY <2>3 DEF CostRow
  <2>5. r.bill.res # NoRes
    <3>1. JoinStatus(NoRes) # "matched"
      BY DEF JoinStatus
    <3> QED
      BY <2>1, <2>4, <3>1
  <2>6. GroupOf(Costs, r) = CostsOf(j.res)
    BY <1>1, <2>4, <2>5 DEF GroupOf, CostsOf, BilledOnce
  <2> QED
    BY <2>4, <2>6
<1>2. BilledOnce => JoinReconciles
  BY <1>1 DEF JoinReconciles
<1> QED
  BY <1>2, PTL

\* And what it takes for the tile of rightsizing to count machines: that no machine has two
\* matched rows.
OneRowEach == \A j, k \in OfStatus("matched") : j.vms = k.vms => j = k

MachinesToResize == {v \in Vms : \E c \in Candidates : c[1] = {v}}

\* A matched row names one machine.
LEMMA MatchedNamesOne ==
  ASSUME Joined, NEW j \in OfStatus("matched")
  PROVE  \E v \in Vms : j.vms = {v}
<1>1. PICK f \in [Sources -> SUBSET Bills] : join = JoinOf(RowsOf(f))
  BY DEF Joined
<1>2. j \in JoinOf(RowsOf(f)) /\ j.status = "matched"
  BY <1>1 DEF OfStatus
<1>3. CASE \E v \in Vms : j = VmRow(v)
  BY <1>2, <1>3, VmRowFields
<1>4. CASE \E r \in RowsOf(f) : j = CostRow(RowsOf(f), r)
  <2>1. PICK r \in RowsOf(f) : j = CostRow(RowsOf(f), r)
    BY <1>4
  <2> DEFINE res == r.bill.res
  <2>2. j.status = JoinStatus(res) /\ j.vms = IF res = NoRes THEN {} ELSE VmsOf[res]
    BY <2>1 DEF CostRow
  <2>3. res \in Resources \cup {NoRes}
    <3>1. r.bill \in Bills
      BY RowsFinite
    <3> QED
      BY <3>1, ConsoleAssumption
  <2> HIDE DEF res
  <2>4. res \in Resources /\ Cardinality(VmsOf[res]) = 1
    BY <1>2, <2>2, <2>3 DEF JoinStatus
  <2>5. VmsOf[res] \in SUBSET Vms
    BY <2>4, ConsoleAssumption
  <2>6. IsFiniteSet(VmsOf[res])
    BY <2>5, ConsoleAssumption, FS_Subset
  <2>7. \E v : VmsOf[res] = {v}
    BY <2>4, <2>6, FS_Singleton
  <2>8. res # NoRes
    BY <2>4, ConsoleAssumption
  <2> QED
    BY <2>2, <2>5, <2>7, <2>8
<1> QED
  BY <1>1, <1>2, <1>3, <1>4, JoinRow

\* With a row each there are as many candidates as machines.
LEMMA CandidatesAreMachines ==
  ASSUME Joined, OneRowEach
  PROVE  Cardinality(Candidates) = Cardinality(MachinesToResize)
<1> DEFINE g == [c \in Candidates |-> CHOOSE v \in Vms : c[1] = {v}]
<1>1. ASSUME NEW c \in Candidates
      PROVE  \E j \in OfStatus("matched") : c = <<j.vms, j.cost>>
  BY DEF Candidates, Sampled
<1>2. ASSUME NEW c \in Candidates PROVE g[c] \in Vms /\ c[1] = {g[c]}
  <2>1. PICK j \in OfStatus("matched") : c = <<j.vms, j.cost>>
    BY <1>1
  <2>2. \E v \in Vms : c[1] = {v}
    BY <2>1, MatchedNamesOne
  <2> QED
    BY <2>2
<1>3. IsFiniteSet(Candidates)
  <2> DEFINE D == {k \in Sampled : k.vms \subseteq Idle /\ k.cost > Worth}
             h == [k \in D |-> <<k.vms, k.cost>>]
  <2>1. IsFiniteSet(D)
    BY JoinedShape, FS_Subset DEF Sampled, OfStatus
  <2>2. Candidates = {h[k] : k \in D}
    BY DEF Candidates
  <2>3. DOMAIN h = D
    OBVIOUS
  <2> HIDE DEF D, h
  <2> QED
    BY <2>1, <2>2, <2>3, ImageFinite
<1>4. ASSUME NEW c \in Candidates, NEW d \in Candidates, g[c] = g[d] PROVE c = d
  <2>1. PICK j \in OfStatus("matched") : c = <<j.vms, j.cost>>
    BY <1>1
  <2>2. PICK k \in OfStatus("matched") : d = <<k.vms, k.cost>>
    BY <1>1
  <2>3. c[1] = {g[c]} /\ d[1] = {g[d]}
    BY <1>2
  <2> HIDE DEF g
  <2>4. j.vms = k.vms
    BY <1>4, <2>1, <2>2, <2>3
  <2>5. j = k
    BY <2>4 DEF OneRowEach
  <2> QED
    BY <2>1, <2>2, <2>5
<1>5. \A v \in MachinesToResize : \E c \in Candidates : g[c] = v
  <2> SUFFICES ASSUME NEW v \in MachinesToResize PROVE \E c \in Candidates : g[c] = v
    OBVIOUS
  <2>1. PICK c \in Candidates : c[1] = {v}
    BY DEF MachinesToResize
  <2>2. c[1] = {g[c]}
    BY <1>2
  <2> HIDE DEF g
  <2> QED
    BY <2>1, <2>2
<1>6. \A c \in Candidates : g[c] \in MachinesToResize
  BY <1>2 DEF MachinesToResize
<1>7. DOMAIN g = Candidates /\ g = [c \in Candidates |-> g[c]]
  OBVIOUS
<1> HIDE DEF g
<1>8. g \in [Candidates -> MachinesToResize]
  BY <1>6, <1>7
<1>9. g \in Surjection(Candidates, MachinesToResize) /\ g \in Injection(Candidates, MachinesToResize)
  BY <1>4, <1>5, <1>8 DEF Surjection, Injection, IsInjective
<1>10. ExistsBijection(Candidates, MachinesToResize)
  BY <1>9 DEF Bijection, ExistsBijection
<1> QED
  BY <1>3, <1>10, FS_Bijection

\* Then the tile of a quiet page is the number of machines; without the condition it is not,
\* which Console_rightsize shows.
THEOREM OneRowEachCounts ==
  Spec => [](OneRowEach /\ quiet /\ Rendered /\ page = "index" =>
               The(<<"kpis", "candidates">>) = Cardinality(MachinesToResize))
<1>1. TypeOK /\ IndexPage /\ Joined =>
        (OneRowEach /\ quiet /\ Rendered /\ page = "index" =>
           The(<<"kpis", "candidates">>) = Cardinality(MachinesToResize))
  <2> SUFFICES ASSUME IndexPage, Joined, OneRowEach, quiet, Rendered, page = "index"
               PROVE  The(<<"kpis", "candidates">>) = Cardinality(MachinesToResize)
    OBVIOUS
  <2>1. The(<<"kpis", "candidates">>) = Cardinality(Candidates)
    BY FiguresShown DEF The
  <2> QED
    BY <2>1, CandidatesAreMachines
<1> QED
  BY <1>1, IndexAlways, PTL

====
