----------------------------- MODULE DataLemmas -----------------------------
(***************************************************************************)
(* Facts about numbers, finite sets, sequences and the operators of        *)
(* Ordering that the proofs of several components rest on.                 *)
(*                                                                         *)
(* Induction is stated over sets: a set of naturals that contains 0 and,   *)
(* with a number, the next one is all of them.  A recursive function is    *)
(* reasoned about by the set of the arguments up to which it exists.       *)
(***************************************************************************)
EXTENDS Ordering, SequencesExt, FiniteSetTheorems, SequenceTheorems,
        WellFoundedInduction, TLAPS

(* A set of naturals has a least element.                                   *)
LEMMA LeastNatural ==
  ASSUME NEW T \in SUBSET Nat, T # {}
  PROVE  \E x \in T : \A y \in T : x <= y
<1>. DEFINE R == {ss \in Nat \X Nat : ss[1] < ss[2]}
<1>1. IsWellFoundedOn(R, Nat)
  BY NatLessThanWellFounded, Zenon DEF OpToRel
<1>2. \A x, y \in Nat : y < x => <<y, x>> \in R
  OBVIOUS
<1>. HIDE DEF R
<1>3. PICK x \in T : \A y \in T : ~ (<<y, x>> \in R)
  BY <1>1, WFMin
<1>4. ASSUME NEW y \in T
      PROVE  x <= y
  <2>1. ~ (y < x)
    BY <1>2, <1>3
  <2>. QED  BY <2>1
<1>. QED  BY <1>4

(* A bounded set of naturals has a greatest element.                        *)
LEMMA GreatestNatural ==
  ASSUME NEW T \in SUBSET Nat, T # {}, NEW n \in Nat, \A x \in T : x <= n
  PROVE  \E x \in T : \A y \in T : y <= x
<1>. DEFINE Below == {n - x : x \in T}
<1>1. Below \in SUBSET Nat /\ Below # {}
  <2>1. \A x \in T : n - x \in Nat
    OBVIOUS
  <2>2. \A y \in Below : y \in Nat
    BY <2>1
  <2>. QED  BY <2>2
<1>2. PICK m \in Below : \A y \in Below : m <= y
  BY <1>1, LeastNatural
<1>3. PICK x \in T : m = n - x
  BY <1>2
<1>4. ASSUME NEW y \in T
      PROVE  y <= x
  <2>1. m <= n - y
    BY <1>2
  <2>. QED  BY <1>3, <2>1
<1>. QED  BY <1>4

(* Induction, over a set.                                                   *)
LEMMA NatSetInduction ==
  ASSUME NEW T, 0 \in T, \A n \in Nat : n \in T => n + 1 \in T
  PROVE  \A n \in Nat : n \in T
<1>. DEFINE Bad == {n \in Nat : n \notin T}
<1>1. SUFFICES ASSUME Bad # {} PROVE FALSE
  OBVIOUS
<1>. HIDE DEF Bad
<1>2. PICK n \in Bad : \A m \in Bad : n <= m
  BY <1>1, LeastNatural DEF Bad
<1>3. n # 0 /\ n \in Nat
  BY DEF Bad
<1>4. n - 1 \notin Bad
  BY <1>2, <1>3 DEF Bad
<1>. QED  BY <1>3, <1>4, n - 1 \in Nat, n - 1 + 1 = n DEF Bad

(* Induction up to a bound.                                                 *)
LEMMA BoundedInduction ==
  ASSUME NEW b \in Nat, NEW T, 0 \in T, \A n \in 0 .. b - 1 : n \in T => n + 1 \in T
  PROVE  \A n \in 0 .. b : n \in T
<1>. DEFINE U == {n \in Nat : n > b \/ n \in T}
<1>1. 0 \in U
  OBVIOUS
<1>2. \A n \in Nat : n \in U => n + 1 \in U
  OBVIOUS
<1>. HIDE DEF U
<1>3. \A n \in Nat : n \in U
  BY <1>1, <1>2, NatSetInduction
<1>. QED  BY <1>3 DEF U

(* f begins with a, and g tells its value at i from the value before.       *)
Iterates(f, b, a, g) == f[0] = a /\ \A i \in 1 .. b : f[i] = g[<<i, f[i - 1]>>]

(* Recursion.                                                               *)
LEMMA Recursion ==
  ASSUME NEW b \in Nat, NEW A, NEW a \in A, NEW g \in [(1 .. b) \X A -> A]
  PROVE  \E f \in [0 .. b -> A] : Iterates(f, b, a, g)
<1>. DEFINE Up(k) == \E f \in [0 .. k -> A] :
                        f[0] = a /\ \A i \in 1 .. k : f[i] = g[<<i, f[i - 1]>>]
            T == {k \in 0 .. b : Up(k)}
<1>1. 0 \in T
  <2>1. PICK f : f = [i \in 0 .. 0 |-> a]
    OBVIOUS
  <2>2. f \in [0 .. 0 -> A] /\ f[0] = a
    BY <2>1
  <2>. QED  BY <2>2
<1>2. ASSUME NEW k \in 0 .. b - 1, k \in T
      PROVE  k + 1 \in T
  <2>1. PICK f \in [0 .. k -> A] : f[0] = a /\ \A i \in 1 .. k : f[i] = g[<<i, f[i - 1]>>]
    BY <1>2
  <2>2. k + 1 \in 1 .. b /\ f[k] \in A
    OBVIOUS
  <2>3. PICK h : h = [i \in 0 .. k + 1 |-> IF i = k + 1 THEN g[<<k + 1, f[k]>>] ELSE f[i]]
    OBVIOUS
  <2>4. h \in [0 .. k + 1 -> A]
    BY <2>2, <2>3
  <2>5. h[0] = a
    BY <2>1, <2>3
  <2>6. ASSUME NEW i \in 1 .. k + 1
        PROVE  h[i] = g[<<i, h[i - 1]>>]
    <3>1. CASE i = k + 1
      <4>1. h[i - 1] = f[k] /\ h[i] = g[<<k + 1, f[k]>>]
        BY <2>3, <3>1
      <4>. QED  BY <3>1, <4>1
    <3>2. CASE i # k + 1
      <4>1. i \in 1 .. k /\ h[i] = f[i] /\ h[i - 1] = f[i - 1]
        BY <2>3, <3>2
      <4>. QED  BY <2>1, <4>1
    <3>. QED  BY <3>1, <3>2
  <2>. QED  BY <2>2, <2>4, <2>5, <2>6
<1>. HIDE DEF T
<1>3. \A k \in 0 .. b : k \in T
  BY <1>1, <1>2, BoundedInduction
<1>. QED  BY <1>3 DEF T, Iterates

-----------------------------------------------------------------------------
(* Finite sets *)

(* The image of a finite set under a function is finite.                    *)
LEMMA ImageIsFinite ==
  ASSUME NEW S, IsFiniteSet(S), NEW f, DOMAIN f = S, f = [x \in S |-> f[x]]
  PROVE  /\ IsFiniteSet({f[x] : x \in S})
         /\ Cardinality({f[x] : x \in S}) <= Cardinality(S)
<1>. DEFINE T == {f[x] : x \in S}
<1>1. f \in Surjection(S, T)
  BY DEF Surjection
<1>. HIDE DEF T
<1>2. IsFiniteSet(T) /\ Cardinality(T) <= Cardinality(S)
  BY <1>1, FS_Surjection
<1>. QED  BY <1>2 DEF T

(* The interval from 1 to n has n elements, and so no subset has more.      *)
LEMMA Interval ==
  ASSUME NEW n \in Nat
  PROVE  /\ IsFiniteSet(1 .. n) /\ Cardinality(1 .. n) = n
         /\ \A S \in SUBSET (1 .. n) :
               IsFiniteSet(S) /\ Cardinality(S) \in Nat /\ Cardinality(S) <= n
<1>1. 1 \in Int /\ n \in Int
  OBVIOUS
<1>2. IsFiniteSet(1 .. n) /\ Cardinality(1 .. n) = IF 1 > n THEN 0 ELSE n - 1 + 1
  BY <1>1, FS_Interval
<1>3. Cardinality(1 .. n) = n
  BY <1>2
<1>4. ASSUME NEW S \in SUBSET (1 .. n)
      PROVE  IsFiniteSet(S) /\ Cardinality(S) \in Nat /\ Cardinality(S) <= n
  <2>1. IsFiniteSet(S) /\ Cardinality(S) <= Cardinality(1 .. n)
    BY <1>2, FS_Subset
  <2>2. Cardinality(S) \in Nat
    BY <2>1, FS_CardinalityType
  <2>. QED  BY <1>3, <2>1, <2>2
<1>. QED  BY <1>2, <1>3, <1>4

(* A function on 1 .. n is a sequence.                                      *)
LEMMA FunctionIsSeq ==
  ASSUME NEW n \in Nat, NEW X, NEW f \in [1 .. n -> X]
  PROVE  f \in Seq(X) /\ Len(f) = n
  OBVIOUS

(* An enumeration without repetitions of a finite set reaches all of it.    *)
LEMMA EnumerationIsOnto ==
  ASSUME NEW S, IsFiniteSet(S), NEW f \in [1 .. Cardinality(S) -> S],
         \A i, j \in 1 .. Cardinality(S) : i # j => f[i] # f[j]
  PROVE  /\ Cardinality(S) \in Nat
         /\ f \in Seq(S) /\ Len(f) = Cardinality(S) /\ ToSet(f) = S
         /\ \A x \in S : \E i \in 1 .. Cardinality(S) : f[i] = x
<1>1. PICK n \in Nat : n = Cardinality(S)
  BY FS_CardinalityType
<1>2. IsFiniteSet(1 .. n) /\ Cardinality(1 .. n) = n
  BY Interval
<1>3. f \in Injection(1 .. n, S)
  BY <1>1 DEF Injection, IsInjective
<1>4. f \in Surjection(1 .. n, S)
  BY <1>1, <1>2, <1>3, FS_Injection
<1>5. \A x \in S : \E i \in 1 .. n : f[i] = x
  BY <1>4 DEF Surjection
<1>6. f \in Seq(S) /\ Len(f) = n
  BY <1>1, FunctionIsSeq
<1>7. ToSet(f) = S
  BY <1>1, <1>5 DEF ToSet
<1>. QED  BY <1>1, <1>5, <1>6, <1>7

(* What SetToSeqs and SetToSeq make of a finite set.                        *)
LEMMA SetToSeqsProperties ==
  ASSUME NEW S, IsFiniteSet(S), NEW f \in SetToSeqs(S)
  PROVE  /\ Cardinality(S) \in Nat
         /\ f \in Seq(S) /\ Len(f) = Cardinality(S) /\ ToSet(f) = S
         /\ \A i, j \in 1 .. Len(f) : i # j => f[i] # f[j]
<1>1. /\ f \in [1 .. Cardinality(S) -> S]
      /\ \A i, j \in 1 .. Cardinality(S) : i # j => f[i] # f[j]
  BY DEF SetToSeqs
<1>. QED  BY <1>1, EnumerationIsOnto

(* A set as a sequence has each of its elements once.                        *)
LEMMA SetToSeqProperties ==
  ASSUME NEW S, IsFiniteSet(S)
  PROVE  /\ Cardinality(S) \in Nat
         /\ SetToSeq(S) \in Seq(S) /\ Len(SetToSeq(S)) = Cardinality(S)
         /\ ToSet(SetToSeq(S)) = S
         /\ \A i, j \in 1 .. Len(SetToSeq(S)) : i # j => SetToSeq(S)[i] # SetToSeq(S)[j]
<1>1. PICK g : g \in Bijection(1 .. Cardinality(S), S)
  BY FS_CardinalityType DEF ExistsBijection
<1>2. /\ g \in [1 .. Cardinality(S) -> S]
      /\ \A i, j \in DOMAIN g : g[i] = g[j] => i = j
  BY <1>1 DEF Bijection, Injection, IsInjective
<1>3. /\ SetToSeq(S) \in [1 .. Cardinality(S) -> S]
      /\ \A i, j \in DOMAIN SetToSeq(S) : SetToSeq(S)[i] = SetToSeq(S)[j] => i = j
  BY <1>2 DEF SetToSeq, IsInjective
<1>4. \A i, j \in 1 .. Cardinality(S) : i # j => SetToSeq(S)[i] # SetToSeq(S)[j]
  BY <1>3
<1>. QED  BY <1>3, <1>4, EnumerationIsOnto

\* No element comes twice.
OnceEach(f) == \A i, j \in 1 .. Len(f) : i # j => f[i] # f[j]

(* A sequence without repetitions is as long as its elements are many.      *)
LEMMA OnceEachCounts ==
  ASSUME NEW X, NEW f \in Seq(X), OnceEach(f)
  PROVE  /\ ToSet(f) \in SUBSET X /\ IsFiniteSet(ToSet(f))
         /\ Cardinality(ToSet(f)) = Len(f) /\ Len(f) \in Nat
<1>1. PICK n \in Nat : n = Len(f)
  OBVIOUS
<1>2. f \in [1 .. n -> X]
  BY <1>1
<1>3. f \in Bijection(1 .. n, ToSet(f))
  <2>1. f \in [1 .. n -> ToSet(f)]
    BY <1>1, <1>2 DEF ToSet
  <2>2. f \in Injection(1 .. n, ToSet(f))
    BY <1>1, <2>1 DEF OnceEach, Injection, IsInjective
  <2>3. f \in Surjection(1 .. n, ToSet(f))
    BY <1>1, <2>1 DEF ToSet, Surjection
  <2>. QED  BY <2>2, <2>3 DEF Bijection
<1>4. IsFiniteSet(1 .. n) /\ Cardinality(1 .. n) = n
  BY Interval
<1>5. ExistsBijection(1 .. n, ToSet(f))
  BY <1>3 DEF ExistsBijection
<1>6. IsFiniteSet(ToSet(f)) /\ Cardinality(ToSet(f)) = n
  BY <1>4, <1>5, FS_Bijection
<1>7. ToSet(f) \in SUBSET X
  BY <1>2 DEF ToSet
<1>. QED  BY <1>1, <1>6, <1>7

(* A sequence over a set is one over a larger set.                          *)
LEMMA SeqWider ==
  ASSUME NEW X, NEW Y, \A x \in X : x \in Y, NEW s \in Seq(X)
  PROVE  s \in Seq(Y)
<1>1. PICK n \in Nat : n = Len(s)
  OBVIOUS
<1>2. s \in [1 .. n -> X]
  BY <1>1
<1>3. s \in [1 .. n -> Y]
  BY <1>2
<1>. QED  BY <1>3, FunctionIsSeq

(* The elements of a sequence.                                              *)
LEMMA Elements ==
  ASSUME NEW X, NEW s \in Seq(X)
  PROVE  /\ ToSet(s) \in SUBSET X
         /\ \A i \in 1 .. Len(s) : s[i] \in ToSet(s)
         /\ \A x \in ToSet(s) : \E i \in 1 .. Len(s) : s[i] = x
<1>1. DOMAIN s = 1 .. Len(s) /\ \A i \in 1 .. Len(s) : s[i] \in X
  OBVIOUS
<1>. QED  BY <1>1 DEF ToSet

\* st is s and then t.
Joins(st, s, t) ==
    /\ Len(s) \in Nat /\ Len(t) \in Nat
    /\ Len(st) = Len(s) + Len(t)
    /\ \A i \in 1 .. Len(s) : st[i] = s[i]
    /\ \A i \in 1 .. Len(t) : st[Len(s) + i] = t[i]

(* Every position of the whole is one of a part.                            *)
LEMMA JoinedParts ==
  ASSUME NEW b \in Nat, NEW o \in Nat, NEW i \in 1 .. b + o
  PROVE  i \in 1 .. b \/ \E j \in 1 .. o : i = b + j
<1>1. i \in 1 .. b \/ (i - b \in 1 .. o /\ i = b + (i - b))
  OBVIOUS
<1>. QED  BY <1>1

(* One sequence after another.                                              *)
LEMMA Joined ==
  ASSUME NEW X, NEW s \in Seq(X), NEW t \in Seq(X)
  PROVE  s \o t \in Seq(X) /\ Joins(s \o t, s, t)
<1>1. PICK b \in Nat, o \in Nat : b = Len(s) /\ o = Len(t)
  OBVIOUS
<1>2. PICK st : st = s \o t
  OBVIOUS
<1>3. /\ st \in Seq(X) /\ Len(st) = b + o
      /\ \A i \in 1 .. b + o : st[i] = IF i <= b THEN s[i] ELSE t[i - b]
  BY <1>1, <1>2, ConcatProperties
<1>4. \A i \in 1 .. b : st[i] = s[i] /\ i \in 1 .. b + o
  BY <1>3
<1>5. \A i \in 1 .. o : st[b + i] = t[i]
  <2>1. ASSUME NEW i \in 1 .. o
        PROVE  st[b + i] = t[i]
    <3>1. b + i \in 1 .. b + o /\ ~ (b + i <= b) /\ b + i - b = i
      OBVIOUS
    <3>. QED  BY <1>3, <3>1
  <2>. QED  BY <2>1
<1>. QED  BY <1>1, <1>2, <1>3, <1>4, <1>5 DEF Joins

\* s and t have no element in common.
Apart(s, t) == \A i \in 1 .. Len(s), j \in 1 .. Len(t) : s[i] # t[j]

(* Two parts without repetitions that are apart make a whole without any.    *)
LEMMA JoinedOnceEach ==
  ASSUME NEW st, NEW s, NEW t, Joins(st, s, t), OnceEach(s), OnceEach(t), Apart(s, t)
  PROVE  OnceEach(st)
<1>1. PICK n \in Nat, m \in Nat : n = Len(s) /\ m = Len(t)
  BY DEF Joins
<1>2. /\ Len(st) = n + m /\ (\A a \in 1 .. n : st[a] = s[a])
      /\ (\A k \in 1 .. m : st[n + k] = t[k])
  BY <1>1 DEF Joins
<1>3. \A a \in 1 .. n + m : a \in 1 .. n \/ \E k \in 1 .. m : a = n + k
  BY JoinedParts
<1>4. /\ \A a, b \in 1 .. n : a # b => s[a] # s[b]
      /\ \A j, k \in 1 .. m : j # k => t[j] # t[k]
      /\ \A a \in 1 .. n, k \in 1 .. m : s[a] # t[k]
  BY <1>1 DEF OnceEach, Apart
<1>5. ASSUME NEW a \in 1 .. n + m, NEW b \in 1 .. n + m, a # b
      PROVE  st[a] # st[b]
  <2>1. CASE a \in 1 .. n /\ b \in 1 .. n
    BY <1>2, <1>4, <1>5, <2>1
  <2>2. CASE a \in 1 .. n /\ \E k \in 1 .. m : b = n + k
    <3>1. PICK k \in 1 .. m : b = n + k
      BY <2>2
    <3>2. st[b] = t[k] /\ st[a] = s[a] /\ s[a] # t[k]
      BY <1>2, <1>4, <2>2, <3>1
    <3>. QED  BY <3>2
  <2>3. CASE b \in 1 .. n /\ \E k \in 1 .. m : a = n + k
    <3>1. PICK k \in 1 .. m : a = n + k
      BY <2>3
    <3>2. st[a] = t[k] /\ st[b] = s[b] /\ s[b] # t[k]
      BY <1>2, <1>4, <2>3, <3>1
    <3>. QED  BY <3>2
  <2>4. CASE (\E k \in 1 .. m : a = n + k) /\ (\E k \in 1 .. m : b = n + k)
    <3>1. PICK j \in 1 .. m : a = n + j
      BY <2>4
    <3>2. PICK k \in 1 .. m : b = n + k
      BY <2>4
    <3>3. j # k
      BY <1>5, <3>1, <3>2
    <3>4. st[a] = t[j] /\ st[b] = t[k]
      BY <1>2, <3>1, <3>2
    <3>5. t[j] # t[k]
      BY <1>4, <3>3
    <3>. QED  BY <3>4, <3>5
  <2>. QED  BY <1>3, <2>1, <2>2, <2>3, <2>4
<1>. QED  BY <1>2, <1>5 DEF OnceEach

-----------------------------------------------------------------------------
(* Ordering *)

(* R orders S strictly and totally.                                         *)
StrictOrder(R, S) ==
    /\ \A x \in S : <<x, x>> \notin R
    /\ \A x, y \in S : x = y \/ <<x, y>> \in R \/ <<y, x>> \in R
    /\ \A x, y, z \in S : <<x, y>> \in R /\ <<y, z>> \in R => <<x, z>> \in R

(* How many come before x.                                                  *)
Ranks(R, S) == [x \in S |-> Cardinality({y \in S : <<y, x>> \in R})]

(* e gives each rank the element that has it.                               *)
ByRank(e, R, S) ==
    \A k \in 1 .. Cardinality(S) :
        (\E x \in S : Ranks(R, S)[x] = k - 1) => e[k] \in S /\ Ranks(R, S)[e[k]] = k - 1

(* e lists the elements of S, each once, in the order R.                    *)
Lists(e, R, S) ==
    /\ Cardinality(S) \in Nat
    /\ \A k \in 1 .. Cardinality(S) : e[k] \in S
    /\ \A i, j \in 1 .. Cardinality(S) : i < j <=> <<e[i], e[j]>> \in R
    /\ \A i, j \in 1 .. Cardinality(S) : i # j => e[i] # e[j]
    /\ \A x \in S : \E i \in 1 .. Cardinality(S) : e[i] = x

(* The ranks of a finite set are the numbers below its size, each once, and *)
(* they follow the order.                                                   *)
LEMMA RanksEnumerate ==
  ASSUME NEW S, IsFiniteSet(S), NEW R, StrictOrder(R, S)
  PROVE  /\ Cardinality(S) \in Nat
         /\ Ranks(R, S) \in [S -> 0 .. Cardinality(S) - 1]
         /\ \A x, y \in S : <<x, y>> \in R <=> Ranks(R, S)[x] < Ranks(R, S)[y]
         /\ \A k \in 0 .. Cardinality(S) - 1 : \E x \in S : Ranks(R, S)[x] = k
         /\ \A x, y \in S : Ranks(R, S)[x] = Ranks(R, S)[y] => x = y
<1>. DEFINE n == Cardinality(S)
            before(x) == {y \in S : <<y, x>> \in R}
            r == Ranks(R, S)
<1>1. n \in Nat
  BY FS_CardinalityType
<1>2. ASSUME NEW x \in S
      PROVE  /\ IsFiniteSet(before(x)) /\ Cardinality(before(x)) \in Nat
             /\ Cardinality(before(x)) < n
  <2>1. before(x) \in SUBSET S /\ x \in S /\ x \notin before(x)
    BY DEF StrictOrder
  <2>2. /\ IsFiniteSet(before(x)) /\ Cardinality(before(x)) <= n
        /\ (Cardinality(S) = Cardinality(before(x)) => S = before(x))
    BY <2>1, FS_Subset
  <2>3. Cardinality(before(x)) \in Nat
    BY <2>2, FS_CardinalityType
  <2>. QED  BY <1>1, <2>1, <2>2, <2>3
<1>3. r \in [S -> 0 .. n - 1]
  <2>1. \A x \in S : Cardinality(before(x)) \in 0 .. n - 1
    BY <1>1, <1>2
  <2>2. r = [x \in S |-> Cardinality(before(x))]
    BY DEF Ranks
  <2>. HIDE DEF before, n, r
  <2>. QED  BY <2>1, <2>2
<1>4. ASSUME NEW x \in S, NEW y \in S, <<x, y>> \in R
      PROVE  r[x] < r[y]
  <2>1. /\ before(x) \in SUBSET before(y)
        /\ x \in before(y) /\ x \notin before(x)
    BY <1>4 DEF StrictOrder
  <2>2. IsFiniteSet(before(y)) /\ Cardinality(before(y)) \in Nat
        /\ Cardinality(before(x)) \in Nat
    BY <1>2
  <2>3. /\ Cardinality(before(x)) <= Cardinality(before(y))
        /\ (Cardinality(before(y)) = Cardinality(before(x)) => before(y) = before(x))
    BY <2>1, <2>2, FS_Subset
  <2>4. Cardinality(before(x)) < Cardinality(before(y))
    BY <2>1, <2>2, <2>3
  <2>. QED  BY <2>4 DEF Ranks
<1>5. ASSUME NEW x \in S, NEW y \in S, r[x] = r[y]
      PROVE  x = y
  <2>1. r[x] \in Int /\ r[y] \in Int
    BY <1>1, <1>3
  <2>2. ~ (<<x, y>> \in R) /\ ~ (<<y, x>> \in R)
    BY <1>4, <1>5, <2>1
  <2>. QED  BY <2>2 DEF StrictOrder
<1>6. ASSUME NEW x \in S, NEW y \in S, r[x] < r[y]
      PROVE  <<x, y>> \in R
  <2>1. r[x] \in Int /\ r[y] \in Int
    BY <1>1, <1>3
  <2>2. x # y /\ ~ (<<y, x>> \in R)
    BY <1>4, <1>6, <2>1
  <2>. QED  BY <2>2 DEF StrictOrder
<1>7. \A k \in 0 .. n - 1 : \E x \in S : r[x] = k
  <2>1. IsFiniteSet(0 .. n - 1) /\ Cardinality(0 .. n - 1) = n
    BY <1>1, FS_Interval, 0 \in Int, n - 1 \in Int
  <2>2. r \in Injection(S, 0 .. n - 1)
    BY <1>3, <1>5 DEF Injection, IsInjective
  <2>. HIDE DEF r
  <2>3. r \in Surjection(S, 0 .. n - 1)
    BY <2>1, <2>2, FS_Injection
  <2>. QED  BY <2>3 DEF Surjection
<1>. QED  BY <1>1, <1>3, <1>4, <1>5, <1>6, <1>7

(* Giving each rank its element lists the set: what InOrder returns does.   *)
LEMMA Enumeration ==
  ASSUME NEW S, IsFiniteSet(S), NEW R, StrictOrder(R, S),
         NEW e, ByRank(e, R, S)
  PROVE  Lists(e, R, S)
<1>. DEFINE n == Cardinality(S)
            r == Ranks(R, S)
<1>1. /\ n \in Nat /\ r \in [S -> 0 .. n - 1]
      /\ \A x, y \in S : <<x, y>> \in R <=> r[x] < r[y]
      /\ \A k \in 0 .. n - 1 : \E x \in S : r[x] = k
      /\ \A x, y \in S : r[x] = r[y] => x = y
  BY RanksEnumerate
<1>. HIDE DEF n, r
<1>3. ASSUME NEW k \in 1 .. n
      PROVE  e[k] \in S /\ r[e[k]] = k - 1
  <2>1. k - 1 \in 0 .. n - 1
    BY <1>1
  <2>. QED  BY <1>1, <2>1 DEF n, r, ByRank
<1>6. ASSUME NEW i \in 1 .. n, NEW j \in 1 .. n
      PROVE  (i < j <=> <<e[i], e[j]>> \in R) /\ (i # j => e[i] # e[j])
  <2>1. /\ e[i] \in S /\ e[j] \in S
        /\ r[e[i]] = i - 1 /\ r[e[j]] = j - 1
    BY <1>3
  <2>2. <<e[i], e[j]>> \in R <=> r[e[i]] < r[e[j]]
    BY <1>1, <2>1
  <2>. QED  BY <2>1, <2>2
<1>8. ASSUME NEW x \in S
      PROVE  \E i \in 1 .. n : e[i] = x
  <2>1. r[x] + 1 \in 1 .. n /\ r[x] \in Int
    BY <1>1
  <2>2. PICK i : i = r[x] + 1
    OBVIOUS
  <2>3. e[i] \in S /\ r[e[i]] = i - 1
    BY <1>3, <2>1, <2>2
  <2>4. r[e[i]] = r[x]
    BY <2>1, <2>2, <2>3
  <2>5. e[i] = x
    BY <1>1, <2>3, <2>4
  <2>. QED  BY <2>1, <2>2, <2>5
<1>. QED  BY <1>1, <1>3, <1>6, <1>8 DEF n, Lists

(* A finite set of numbers in ascending order.                              *)
LEMMA AscendingLists ==
  ASSUME NEW S \in SUBSET Int, IsFiniteSet(S)
  PROVE  /\ Cardinality(S) \in Nat
         /\ Upward(S) \in [1 .. Cardinality(S) -> S]
         /\ \A i, j \in 1 .. Cardinality(S) : i < j <=> Upward(S)[i] < Upward(S)[j]
         /\ \A x \in S : \E i \in 1 .. Cardinality(S) : Upward(S)[i] = x
<1>. DEFINE R == {t \in S \X S : t[1] < t[2]}
<1>1. \A x, y \in S : <<x, y>> \in R <=> x < y
  OBVIOUS
<1>2. StrictOrder(R, S)
  BY <1>1 DEF StrictOrder
<1>3. \A x \in S : {y \in S : y < x} = {y \in S : <<y, x>> \in R}
  BY <1>1
<1>4. \A x \in S : Cardinality({y \in S : y < x}) = Ranks(R, S)[x]
  BY <1>3 DEF Ranks
<1>5. PICK e : e = [k \in 1 .. Cardinality(S) |->
                      CHOOSE x \in S : Cardinality({y \in S : y < x}) = k - 1]
  OBVIOUS
<1>. HIDE DEF R
<1>6. ByRank(e, R, S)
  <2>1. ASSUME NEW k \in 1 .. Cardinality(S), NEW x \in S, Ranks(R, S)[x] = k - 1
        PROVE  e[k] \in S /\ Ranks(R, S)[e[k]] = k - 1
    <3>1. Cardinality({y \in S : y < x}) = k - 1
      BY <1>4, <2>1
    <3>2. e[k] = CHOOSE z \in S : Cardinality({y \in S : y < z}) = k - 1
      BY <1>5
    <3>3. e[k] \in S /\ Cardinality({y \in S : y < e[k]}) = k - 1
      BY <3>1, <3>2
    <3>. QED  BY <1>4, <3>3
  <2>. QED  BY <2>1 DEF ByRank
<1>7. Lists(e, R, S)
  BY <1>2, <1>6, Enumeration
<1>8. e \in [1 .. Cardinality(S) -> S]
  BY <1>5, <1>7 DEF Lists
<1>9. \A i, j \in 1 .. Cardinality(S) : i < j <=> e[i] < e[j]
  BY <1>1, <1>7 DEF Lists
<1>10. Upward(S) = e
  BY <1>5 DEF InOrder, Upward
<1>. QED  BY <1>7, <1>8, <1>9, <1>10 DEF Lists

(* The elements of a sequence at some of its positions.                     *)
LEMMA AtProperties ==
  ASSUME NEW X, NEW s \in Seq(X), NEW positions \in SUBSET (1 .. Len(s))
  PROVE  /\ IsFiniteSet(positions) /\ Cardinality(positions) \in 0 .. Len(s)
         /\ AtPlaces(s, positions) \in Seq(X) /\ Len(AtPlaces(s, positions)) = Cardinality(positions)
         /\ \E p \in [1 .. Cardinality(positions) -> positions] :
              /\ \A i, j \in 1 .. Cardinality(positions) : i < j <=> p[i] < p[j]
              /\ \A x \in positions : \E i \in 1 .. Cardinality(positions) : p[i] = x
              /\ \A k \in 1 .. Cardinality(positions) : AtPlaces(s, positions)[k] = s[p[k]]
<1>. DEFINE n == Cardinality(positions)
            p == Upward(positions)
<1>1. Len(s) \in Nat
  OBVIOUS
<1>2. /\ IsFiniteSet(positions) /\ n <= Len(s) /\ positions \in SUBSET Int
  <2>1. positions \in SUBSET Int
    OBVIOUS
  <2>. QED  BY <1>1, <2>1, Interval
<1>3. /\ n \in Nat /\ p \in [1 .. n -> positions]
      /\ \A i, j \in 1 .. n : i < j <=> p[i] < p[j]
      /\ \A x \in positions : \E i \in 1 .. n : p[i] = x
  BY <1>2, AscendingLists
<1>4. AtPlaces(s, positions) = [k \in 1 .. n |-> s[p[k]]]
  BY DEF AtPlaces
<1>. HIDE DEF n, p
<1>5. \A k \in 1 .. n : s[p[k]] \in X
  <2>1. \A k \in 1 .. n : p[k] \in 1 .. Len(s)
    BY <1>3
  <2>. QED  BY <2>1
<1>6. AtPlaces(s, positions) \in [1 .. n -> X]
  BY <1>4, <1>5
<1>7. AtPlaces(s, positions) \in Seq(X) /\ Len(AtPlaces(s, positions)) = n
  BY <1>3, <1>6
<1>8. \A k \in 1 .. n : AtPlaces(s, positions)[k] = s[p[k]]
  BY <1>4
<1>. QED  BY <1>1, <1>2, <1>3, <1>7, <1>8 DEF n

(* The beginning of a sequence.                                             *)
LEMMA FirstProperties ==
  ASSUME NEW X, NEW s \in Seq(X), NEW n \in Int
  PROVE  /\ First(s, n) \in Seq(X)
         /\ Len(First(s, n)) = IF n < Len(s) THEN IF n < 0 THEN 0 ELSE n ELSE Len(s)
         /\ \A i \in 1 .. Len(First(s, n)) : First(s, n)[i] = s[i]
<1>. DEFINE m == IF n < Len(s) THEN n ELSE Len(s)
<1>1. m \in Int /\ m <= Len(s) /\ Len(s) \in Nat
  OBVIOUS
<1>2. \A i \in 1 .. m : s[i] \in X
  BY <1>1
<1>3. /\ SubSeq(s, 1, m) \in Seq(X)
      /\ Len(SubSeq(s, 1, m)) = IF 1 <= m THEN m - 1 + 1 ELSE 0
      /\ \A i \in 1 .. m - 1 + 1 : SubSeq(s, 1, m)[i] = s[1 + i - 1]
  BY <1>1, <1>2, 1 \in Int, SubSeqProperties
<1>4. First(s, n) = SubSeq(s, 1, m)
  BY DEF First
<1>. QED  BY <1>1, <1>3, <1>4

=============================================================================
