--------------------------- MODULE RankingProofs ---------------------------
(***************************************************************************)
(* What Ranked and Picked return, for every finite set and every sequence. *)
(***************************************************************************)
EXTENDS Ranking, FiniteSetsExt, FiniteSetTheorems, SequenceTheorems, TLAPS

\* A set of numbers that is not empty has a least one.
LEMMA Least ==
    ASSUME NEW T, T \subseteq Nat, T # {}
    PROVE  \E x \in T : \A y \in T : x <= y
<1> DEFINE R == OpToRel(<, Nat)
<1>1. IsWellFoundedOn(R, Nat)
  BY NatLessThanWellFounded
<1>2. \A ss \in Nat \X Nat : ss[1] < ss[2] => ss \in R
  BY Zenon DEF OpToRel
<1> HIDE DEF R
<1>3. PICK x \in T : \A y \in T : ~(<<y, x>> \in R)
  BY <1>1, WFMin
<1>4. ASSUME NEW y \in T PROVE x <= y
  <2>1. <<y, x>> \in Nat \X Nat /\ <<y, x>>[1] = y /\ <<y, x>>[2] = x
    OBVIOUS
  <2>2. ~(y < x)
    BY <2>1, <1>2, <1>3
  <2> QED BY <2>2
<1> QED BY <1>4

\* Min of a nonempty set of numbers is its least member.
LEMMA MinNat ==
    ASSUME NEW T, T \subseteq Nat, T # {}
    PROVE  Min(T) \in T /\ \A y \in T : Min(T) <= y
<1>1. \E x \in T : \A y \in T : x <= y
  BY Least
<1> QED BY <1>1 DEF Min

\* Max of a nonempty bounded set of numbers is its greatest member.
LEMMA MaxNat ==
    ASSUME NEW N \in Nat, NEW T, T \subseteq 0..N, T # {}
    PROVE  Max(T) \in T /\ \A y \in T : Max(T) >= y
<1> DEFINE M == {N - x : x \in T}
<1>1. M \subseteq Nat /\ M # {}
  <2>1. \A x \in T : x \in Nat /\ N - x \in Nat
    OBVIOUS
  <2> QED BY <2>1
<1>2. PICK m \in M : \A y \in M : m <= y
  BY <1>1, Least
<1>3. PICK x \in T : m = N - x
  BY <1>2
<1>4. ASSUME NEW y \in T PROVE x >= y
  <2>1. N - y \in M
    OBVIOUS
  <2>2. N - x <= N - y
    BY <1>2, <1>3, <2>1
  <2> QED BY <2>2
<1>5. \E z \in T : \A y \in T : z >= y
  BY <1>4
<1> QED BY <1>5 DEF Max

\* The same of numbers from 1 on.
LEMMA MinFacts ==
    ASSUME NEW N \in Nat, NEW T, T \subseteq 1..N, T # {}
    PROVE  Min(T) \in T /\ \A y \in T : Min(T) <= y
<1>1. T \subseteq Nat
  OBVIOUS
<1> QED BY <1>1, MinNat

\* ... and of the greatest of them.
LEMMA MaxFacts ==
    ASSUME NEW N \in Nat, NEW T, T \subseteq 1..N, T # {}
    PROVE  Max(T) \in T /\ \A y \in T : Max(T) >= y
<1>1. T \subseteq 0..N
  OBVIOUS
<1> QED BY <1>1, MaxNat

\* The greatest element is the only one with its property.
LEMMA MaxIs ==
    ASSUME NEW N \in Nat, NEW T, T \subseteq 1..N, NEW x \in T, \A y \in T : x >= y
    PROVE  Max(T) = x
<1>1. Max(T) \in T /\ Max(T) >= x
  BY MaxFacts
<1> DEFINE z == Max(T)
<1> HIDE DEF z
<1>2. z \in T /\ z >= x
  BY <1>1 DEF z
<1>3. x >= z
  BY <1>2
<1>4. x \in Int /\ z \in Int
  BY <1>2
<1>5. z = x
  BY <1>2, <1>3, <1>4
<1> QED BY <1>5 DEF z

\* below makes S a chain: of two members, one is before the other.
Chain(S, below) ==
    /\ DOMAIN below = S
    /\ \A x \in S : below[x] \subseteq S /\ x \in below[x]
    /\ \A x, y \in S : below[x] \subseteq below[y] \/ below[y] \subseteq below[x]
    /\ \A x, y \in S : below[x] = below[y] => x = y

\* The place of a member is a number between 1 and the size of the set, and no
\* two members have the same.
LEMMA PlaceType ==
    ASSUME NEW S, IsFiniteSet(S), NEW below, Chain(S, below)
    PROVE  /\ Cardinality(S) \in Nat
           /\ \A x \in S : Cardinality(below[x]) \in 1..Cardinality(S)
           /\ \A x, y \in S : Cardinality(below[x]) = Cardinality(below[y]) => x = y
           /\ \A x, y \in S : Cardinality(below[x]) < Cardinality(below[y]) => x \in below[y]
<1>1. Cardinality(S) \in Nat
  BY FS_CardinalityType
<1>2. ASSUME NEW x \in S
      PROVE  /\ IsFiniteSet(below[x])
             /\ Cardinality(below[x]) \in 1..Cardinality(S)
  <2>1. below[x] \in SUBSET S /\ below[x] # {}
    BY DEF Chain
  <2>2. IsFiniteSet(below[x]) /\ Cardinality(below[x]) <= Cardinality(S)
    BY <2>1, FS_Subset
  <2>3. Cardinality(below[x]) \in Nat /\ Cardinality(below[x]) # 0
    BY <2>1, <2>2, FS_CardinalityType, FS_EmptySet
  <2> QED BY <1>1, <2>2, <2>3
<1>3. ASSUME NEW x \in S, NEW y \in S, below[x] \subseteq below[y]
      PROVE  /\ Cardinality(below[x]) <= Cardinality(below[y])
             /\ Cardinality(below[x]) = Cardinality(below[y]) => below[x] = below[y]
  BY <1>2, <1>3, FS_Subset
<1>4. ASSUME NEW x \in S, NEW y \in S, Cardinality(below[x]) = Cardinality(below[y])
      PROVE  x = y
  BY <1>3, <1>4 DEF Chain
<1>5. ASSUME NEW x \in S, NEW y \in S, Cardinality(below[x]) < Cardinality(below[y])
      PROVE  x \in below[y]
  <2>1. Cardinality(below[x]) \in Int /\ Cardinality(below[y]) \in Int
    BY <1>2
  <2>2. ~(below[y] \subseteq below[x])
    BY <1>3, <1>5, <2>1
  <2> QED BY <2>2 DEF Chain
<1> QED BY <1>1, <1>2, <1>4, <1>5

\* Ranked lists every member of S once, in order.
LEMMA RankedLists ==
    ASSUME NEW S, IsFiniteSet(S), NEW below, Chain(S, below)
    PROVE  LET f == Ranked(S, below)
           IN  /\ f \in [1..Cardinality(S) -> S]
               /\ \A x \in S : \E n \in 1..Cardinality(S) : f[n] = x
               /\ \A m, n \in 1..Cardinality(S) : f[m] = f[n] => m = n
               /\ \A m, n \in 1..Cardinality(S) : m < n => f[m] \in below[f[n]]
<1> DEFINE N == Cardinality(S)
           place == [x \in S |-> Cardinality(below[x])]
           f == Ranked(S, below)
<1>1. N \in Nat /\ place \in [S -> 1..N]
  BY PlaceType
<1>2. IsFiniteSet(1..N) /\ Cardinality(1..N) = N
  BY <1>1, FS_Interval
<1>3. place \in Injection(S, 1..N)
  <2>1. \A x, y \in S : place[x] = place[y] => x = y
    BY PlaceType
  <2> QED BY <1>1, <2>1 DEF Injection, IsInjective
<1>4. place \in Surjection(S, 1..N)
  BY <1>2, <1>3, FS_Injection
<1>5. \A n \in 1..N : \E x \in S : Cardinality(below[x]) = n
  BY <1>4 DEF Surjection
<1>6. \A n \in 1..N : f[n] \in S /\ Cardinality(below[f[n]]) = n
  BY <1>5 DEF Ranked, Nth
<1>7. f \in [1..N -> S]
  BY <1>6 DEF Ranked
<1>8. \A x \in S : \E n \in 1..N : f[n] = x
  <2> SUFFICES ASSUME NEW x \in S PROVE \E n \in 1..N : f[n] = x
    OBVIOUS
  <2> DEFINE n == Cardinality(below[x])
  <2>1. n \in 1..N
    BY PlaceType
  <2>2. f[n] = x
    BY <1>6, <2>1, PlaceType
  <2> QED BY <2>1, <2>2
<1>9. \A m, n \in 1..N : m < n => f[m] \in below[f[n]]
  BY <1>6, PlaceType
<1> QED BY <1>6, <1>7, <1>8, <1>9

\* The numbers of a finite set are a chain.
LEMMA UpToChain ==
    ASSUME NEW I, I \subseteq Int
    PROVE  Chain(I, UpTo(I))
<1>1. \A x \in I : UpTo(I)[x] = {j \in I : j <= x} /\ x \in UpTo(I)[x]
  BY DEF UpTo
<1>2. ASSUME NEW x \in I, NEW y \in I, x <= y PROVE UpTo(I)[x] \subseteq UpTo(I)[y]
  <2> SUFFICES ASSUME NEW j \in I, j <= x PROVE j <= y
    BY <1>1
  <2>1. j \in Int /\ x \in Int /\ y \in Int
    OBVIOUS
  <2> QED BY <1>2, <2>1
<1>3. \A x, y \in I : UpTo(I)[x] \subseteq UpTo(I)[y] \/ UpTo(I)[y] \subseteq UpTo(I)[x]
  BY <1>2
<1>4. \A x, y \in I : UpTo(I)[x] = UpTo(I)[y] => x = y
  BY <1>1
<1>5. DOMAIN UpTo(I) = I
  BY DEF UpTo
<1> QED BY <1>1, <1>3, <1>4, <1>5 DEF Chain

\* f lists the numbers I from the least to the greatest.
Ascends(f, N, I) ==
    /\ f \in [1..N -> I]
    /\ \A i \in I : \E n \in 1..N : f[n] = i
    /\ \A m, n \in 1..N : m < n => f[m] < f[n]

\* A finite set of numbers is listed in ascending order ...
LEMMA RankedAscends ==
    ASSUME NEW I, I \subseteq Int, IsFiniteSet(I)
    PROVE  Ascends(Ranked(I, UpTo(I)), Cardinality(I), I)
<1> DEFINE f == Ranked(I, UpTo(I))
           N == Cardinality(I)
<1>1. /\ f \in [1..N -> I]
      /\ \A i \in I : \E n \in 1..N : f[n] = i
      /\ \A m, n \in 1..N : f[m] = f[n] => m = n
      /\ \A m, n \in 1..N : m < n => f[m] \in UpTo(I)[f[n]]
  BY UpToChain, RankedLists
<1> HIDE DEF f
<1>2. ASSUME NEW m \in 1..N, NEW n \in 1..N, m < n PROVE f[m] < f[n]
  <2>0. N \in Nat
    BY FS_CardinalityType
  <2>1. f[m] \in I /\ f[n] \in I /\ f[m] # f[n]
    BY <1>1, <1>2, <2>0
  <2>2. f[m] \in UpTo(I)[f[n]]
    BY <1>1, <1>2
  <2>3. f[m] <= f[n]
    BY <2>1, <2>2 DEF UpTo
  <2>4. f[m] \in Int /\ f[n] \in Int
    BY <2>1
  <2> QED BY <2>1, <2>3, <2>4
<1> QED BY <1>1, <1>2 DEF Ascends, f

\* ... and there is no other way to do so.
LEMMA AscendsOnce ==
    ASSUME NEW I, I \subseteq Int, NEW N \in Nat, NEW f, Ascends(f, N, I)
    PROVE  /\ IsFiniteSet(I) /\ Cardinality(I) = N
           /\ Ranked(I, UpTo(I)) = f
<1>1. \A m, n \in 1..N : f[m] = f[n] => m = n
  <2> SUFFICES ASSUME NEW m \in 1..N, NEW n \in 1..N, m # n PROVE f[m] # f[n]
    OBVIOUS
  <2>1. f[m] \in Int /\ f[n] \in Int
    BY DEF Ascends
  <2>2. m < n \/ n < m
    OBVIOUS
  <2> QED BY <2>1, <2>2 DEF Ascends
<1>2. ASSUME NEW M \in 1..N, NEW J, J = {f[k] : k \in 1..M}
      PROVE  IsFiniteSet(J) /\ Cardinality(J) = M
  <2> DEFINE g == [k \in 1..M |-> f[k]]
  <2>1. IsFiniteSet(1..M) /\ Cardinality(1..M) = M
    BY FS_Interval
  <2>2. g \in Surjection(1..M, J)
    BY <1>2 DEF Surjection
  <2>3. \A m, n \in 1..M : g[m] = g[n] => m = n
    BY <1>1
  <2>4. g \in Injection(1..M, J)
    BY <2>2, <2>3 DEF Injection, IsInjective, Surjection
  <2> QED BY <2>1, <2>2, <2>4, FS_Surjection
<1>3. IsFiniteSet(I) /\ Cardinality(I) = N
  <2>1. CASE N = 0
    <3>1. I = {}
      BY <2>1 DEF Ascends
    <3> QED BY <2>1, <3>1, FS_EmptySet
  <2>2. CASE N # 0
    <3>1. N \in 1..N
      BY <2>2
    <3>2. \A i \in I : \E k \in 1..N : i = f[k]
      BY DEF Ascends
    <3>3. \A k \in 1..N : f[k] \in I
      BY DEF Ascends
    <3>4. I = {f[k] : k \in 1..N}
      BY <3>2, <3>3
    <3> QED BY <1>2, <3>1, <3>4
  <2> QED BY <2>1, <2>2
<1>4. ASSUME NEW n \in 1..N PROVE f[n] \in I /\ Cardinality(UpTo(I)[f[n]]) = n
  <2>1. f[n] \in I
    BY DEF Ascends
  <2>2. \A k \in 1..N : f[k] <= f[n] <=> k <= n
    <3> SUFFICES ASSUME NEW k \in 1..N PROVE f[k] <= f[n] <=> k <= n
      OBVIOUS
    <3>1. f[k] \in Int /\ f[n] \in Int
      BY DEF Ascends
    <3>2. CASE k < n
      BY <3>1, <3>2 DEF Ascends
    <3>3. CASE k = n
      BY <3>1, <3>3
    <3>4. CASE n < k
      <4>1. f[n] < f[k]
        BY <3>4 DEF Ascends
      <4> QED BY <3>1, <3>4, <4>1
    <3> QED BY <3>2, <3>3, <3>4
  <2>3. UpTo(I)[f[n]] = {j \in I : j <= f[n]}
    BY <2>1 DEF UpTo
  <2>4. {j \in I : j <= f[n]} = {f[k] : k \in 1..n}
    <3>1. ASSUME NEW j \in I, j <= f[n] PROVE j \in {f[k] : k \in 1..n}
      <4>1. PICK k \in 1..N : f[k] = j
        BY DEF Ascends
      <4>2. k \in 1..n
        BY <2>2, <3>1, <4>1
      <4> QED BY <4>1, <4>2
    <3>2. ASSUME NEW k \in 1..n PROVE f[k] \in I /\ f[k] <= f[n]
      <4>1. k \in 1..N /\ k <= n
        OBVIOUS
      <4> QED BY <2>2, <4>1 DEF Ascends
    <3> QED BY <3>1, <3>2
  <2> QED BY <1>2, <2>1, <2>3, <2>4
<1>5. \A x, y \in I : Cardinality(UpTo(I)[x]) = Cardinality(UpTo(I)[y]) => x = y
  BY <1>3, UpToChain, PlaceType
<1>6. \A n \in 1..N : Nth(I, UpTo(I), n) = f[n]
  BY <1>4, <1>5 DEF Nth
<1> QED BY <1>3, <1>6 DEF Ranked, Ascends
-----------------------------------------------------------------------------
(* Picked *)

\* Picked follows any ascending list of the positions.
LEMMA PickedIs ==
    ASSUME NEW I, I \subseteq Int, NEW N \in Nat, NEW f, Ascends(f, N, I), NEW q
    PROVE  Picked(q, I) = [n \in 1..N |-> q[f[n]]]
<1>1. Ranked(I, UpTo(I)) = f
  BY AscendsOnce
<1>2. DOMAIN f = 1..N
  BY DEF Ascends
<1> QED BY <1>1, <1>2 DEF Picked

\* The positions of a sequence can be listed.
LEMMA Positions ==
    ASSUME NEW T, NEW q \in Seq(T), NEW I, I \subseteq DOMAIN q
    PROVE  \E N \in Nat : \E f : Ascends(f, N, I)
<1>1. DOMAIN q = 1..Len(q) /\ Len(q) \in Nat
  OBVIOUS
<1>2. IsFiniteSet(1..Len(q))
  BY <1>1, FS_Interval
<1>3. IsFiniteSet(I)
  BY <1>1, <1>2, FS_Subset
<1>4. I \subseteq Int
  BY <1>1
<1> QED BY <1>3, <1>4, RankedAscends, FS_CardinalityType

\* What is picked from a sequence is of the sequence's type.
LEMMA PickedType ==
    ASSUME NEW T, NEW q \in Seq(T), NEW I, I \subseteq DOMAIN q
    PROVE  Picked(q, I) \in Seq(T)
<1>1. PICK N \in Nat : \E f : Ascends(f, N, I)
  BY Positions
<1>2. PICK f : Ascends(f, N, I)
  BY <1>1
<1>3. Picked(q, I) = [n \in 1..N |-> q[f[n]]]
  BY <1>2, PickedIs
<1>4. \A n \in 1..N : q[f[n]] \in T
  BY <1>2 DEF Ascends
<1> QED BY <1>3, <1>4

\* What is at a picked position is there.
LEMMA PickedHas ==
    ASSUME NEW T, NEW q \in Seq(T), NEW I, I \subseteq DOMAIN q, NEW k \in I
    PROVE  \E j \in DOMAIN Picked(q, I) : Picked(q, I)[j] = q[k]
<1>1. PICK N \in Nat : \E f : Ascends(f, N, I)
  BY Positions
<1>2. PICK f : Ascends(f, N, I)
  BY <1>1
<1>3. Picked(q, I) = [n \in 1..N |-> q[f[n]]]
  BY <1>2, PickedIs
<1>4. PICK j \in 1..N : f[j] = k
  BY <1>2 DEF Ascends
<1> QED BY <1>3, <1>4

\* Nothing is picked when there are no positions.
LEMMA PickedNone == ASSUME NEW q PROVE Picked(q, {}) = <<>>
<1>1. Cardinality({}) = 0
  BY FS_EmptySet
<1>2. DOMAIN Ranked({}, UpTo({})) = {}
  BY <1>1 DEF Ranked
<1> QED BY <1>2 DEF Picked

\* An element is appended, and its position is not picked ...
LEMMA PickedAppendOut ==
    ASSUME NEW T, NEW q \in Seq(T), NEW m \in T, NEW I, I \subseteq DOMAIN q
    PROVE  Picked(Append(q, m), I) = Picked(q, I)
<1>1. PICK N \in Nat : \E f : Ascends(f, N, I)
  BY Positions
<1>2. PICK f : Ascends(f, N, I)
  BY <1>1
<1>3. \A n \in 1..N : f[n] \in 1..Len(q)
  BY <1>2 DEF Ascends
<1>4. \A n \in 1..N : Append(q, m)[f[n]] = q[f[n]]
  BY <1>3
<1>5. I \subseteq Int
  OBVIOUS
<1>6. Picked(q, I) = [n \in 1..N |-> q[f[n]]]
  BY <1>2, <1>5, PickedIs
<1> DEFINE r == Append(q, m)
<1> HIDE DEF r
<1>7. Picked(r, I) = [n \in 1..N |-> r[f[n]]]
  BY <1>2, <1>5, PickedIs
<1> QED BY <1>4, <1>6, <1>7 DEF r

\* ... or is picked too.
LEMMA PickedAppendIn ==
    ASSUME NEW T, NEW q \in Seq(T), NEW m \in T, NEW I, I \subseteq DOMAIN q
    PROVE  Picked(Append(q, m), I \cup {Len(q) + 1}) = Append(Picked(q, I), m)
<1> DEFINE J == I \cup {Len(q) + 1}
<1>1. PICK N \in Nat : \E f : Ascends(f, N, I)
  BY Positions
<1>2. PICK f : Ascends(f, N, I)
  BY <1>1
<1> DEFINE g == [n \in 1..(N + 1) |-> IF n = N + 1 THEN Len(q) + 1 ELSE f[n]]
<1>3. \A n \in 1..N : f[n] \in 1..Len(q) /\ f[n] \in I
  BY <1>2 DEF Ascends
<1>4. Ascends(g, N + 1, J)
  <2>1. g \in [1..(N + 1) -> J]
    BY <1>3
  <2>2. ASSUME NEW i \in J PROVE \E n \in 1..(N + 1) : g[n] = i
    <3>1. CASE i \in I
      <4>1. PICK n \in 1..N : f[n] = i
        BY <1>2, <3>1 DEF Ascends
      <4>2. n \in 1..(N + 1) /\ g[n] = i
        BY <4>1
      <4> QED BY <4>2
    <3>2. CASE i = Len(q) + 1
      <4>1. N + 1 \in 1..(N + 1) /\ g[N + 1] = i
        BY <3>2
      <4> QED BY <4>1
    <3> QED BY <3>1, <3>2
  <2>3. ASSUME NEW m1 \in 1..(N + 1), NEW n \in 1..(N + 1), m1 < n PROVE g[m1] < g[n]
    <3>1. m1 \in 1..N /\ g[m1] = f[m1] /\ f[m1] \in 1..Len(q)
      BY <1>3, <2>3
    <3>2. CASE n = N + 1
      BY <3>1, <3>2
    <3>3. CASE n # N + 1
      BY <1>2, <2>3, <3>1, <3>3 DEF Ascends
    <3> QED BY <3>2, <3>3
  <2> QED BY <2>1, <2>2, <2>3 DEF Ascends
<1>5. I \subseteq Int /\ J \subseteq Int
  OBVIOUS
<1>6. Picked(q, I) = [n \in 1..N |-> q[f[n]]]
  BY <1>2, <1>5, PickedIs
<1> DEFINE r == Append(q, m)
           p == Picked(q, I)
<1>7. \A n \in 1..N : r[g[n]] = q[f[n]]
  BY <1>3
<1>8. r[g[N + 1]] = m
  OBVIOUS
<1>9. p \in Seq(T) /\ Len(p) = N
  BY <1>6, PickedType
<1> HIDE DEF g, r, J, p
<1>10. Picked(r, J) = [n \in 1..(N + 1) |-> r[g[n]]]
  BY <1>4, <1>5, PickedIs
<1>11. \A n \in 1..N : p[n] = r[g[n]]
  BY <1>6, <1>7 DEF p
<1>12. Append(p, m) = [n \in 1..(N + 1) |-> r[g[n]]]
  <2>0. Append(p, m) \in Seq(T) /\ Len(Append(p, m)) = N + 1
    BY <1>9
  <2>1. Append(p, m) = [n \in 1..(N + 1) |-> Append(p, m)[n]]
    BY <2>0, LenProperties
  <2>2. \A n \in 1..(N + 1) : Append(p, m)[n] = r[g[n]]
    BY <1>8, <1>9, <1>11
  <2> QED BY <2>1, <2>2
<1> QED BY <1>10, <1>12 DEF r, J, p

\* The positions of a sequence's tail.
Down(I) == {i - 1 : i \in I \ {1}}

\* The first element leaves, and was not picked ...
LEMMA PickedTailOut ==
    ASSUME NEW T, NEW q \in Seq(T), q # <<>>, NEW I, I \subseteq DOMAIN q, 1 \notin I
    PROVE  Picked(Tail(q), Down(I)) = Picked(q, I)
<1>1. PICK N \in Nat : \E f : Ascends(f, N, I)
  BY Positions
<1>2. PICK f : Ascends(f, N, I)
  BY <1>1
<1> DEFINE g == [n \in 1..N |-> f[n] - 1]
<1>3. \A n \in 1..N : f[n] \in 2..Len(q) /\ f[n] \in I
  BY <1>2 DEF Ascends
<1>4. Ascends(g, N, Down(I))
  <2>1. g \in [1..N -> Down(I)]
    BY <1>3 DEF Down
  <2>2. ASSUME NEW i \in Down(I) PROVE \E n \in 1..N : g[n] = i
    <3>1. PICK j \in I : i = j - 1
      BY DEF Down
    <3>2. PICK n \in 1..N : f[n] = j
      BY <1>2 DEF Ascends
    <3> QED BY <3>1, <3>2
  <2>3. ASSUME NEW m \in 1..N, NEW n \in 1..N, m < n PROVE g[m] < g[n]
    <3>1. f[m] < f[n]
      BY <1>2, <2>3 DEF Ascends
    <3> QED BY <1>3, <3>1
  <2> QED BY <2>1, <2>2, <2>3 DEF Ascends
<1>5. I \subseteq Int /\ Down(I) \subseteq Int
  BY DEF Down
<1>6. Picked(q, I) = [n \in 1..N |-> q[f[n]]]
  BY <1>2, <1>5, PickedIs
<1> DEFINE r == Tail(q)
<1>7. \A n \in 1..N : r[g[n]] = q[f[n]]
  BY <1>3
<1> HIDE DEF g, r
<1>8. Picked(r, Down(I)) = [n \in 1..N |-> r[g[n]]]
  BY <1>4, <1>5, PickedIs
<1> QED BY <1>6, <1>7, <1>8 DEF r

\* ... or was the first one picked.
LEMMA PickedTailIn ==
    ASSUME NEW T, NEW q \in Seq(T), q # <<>>, NEW I, I \subseteq DOMAIN q, 1 \in I
    PROVE  /\ Picked(q, I) # <<>>
           /\ Head(Picked(q, I)) = Head(q)
           /\ Picked(Tail(q), Down(I)) = Tail(Picked(q, I))
<1>1. PICK N \in Nat : \E f : Ascends(f, N, I)
  BY Positions
<1>2. PICK f : Ascends(f, N, I)
  BY <1>1
<1>3. \A n \in 1..N : f[n] \in 1..Len(q) /\ f[n] \in I
  BY <1>2 DEF Ascends
<1>4. N # 0 /\ f[1] = 1
  <2>1. PICK k \in 1..N : f[k] = 1
    BY <1>2 DEF Ascends
  <2>2. k = 1
    <3>1. 1 \in 1..N
      BY <2>1
    <3>2. ~(1 < k)
      BY <1>2, <1>3, <2>1, <3>1 DEF Ascends
    <3> QED BY <3>2
  <2> QED BY <2>1, <2>2
<1> DEFINE g == [n \in 1..(N - 1) |-> f[n + 1] - 1]
<1>5. \A n \in 1..(N - 1) : n + 1 \in 1..N /\ f[n + 1] \in 2..Len(q) /\ f[n + 1] \in I
  <2> SUFFICES ASSUME NEW n \in 1..(N - 1)
               PROVE  n + 1 \in 1..N /\ f[n + 1] \in 2..Len(q) /\ f[n + 1] \in I
    OBVIOUS
  <2>1. n + 1 \in 1..N /\ 1 \in 1..N /\ 1 < n + 1
    BY <1>4
  <2>2. f[1] < f[n + 1]
    BY <1>2, <2>1 DEF Ascends
  <2> QED BY <1>3, <1>4, <2>1, <2>2
<1>6. Ascends(g, N - 1, Down(I))
  <2>1. g \in [1..(N - 1) -> Down(I)]
    BY <1>5 DEF Down
  <2>2. ASSUME NEW i \in Down(I) PROVE \E n \in 1..(N - 1) : g[n] = i
    <3>1. PICK j \in I : i = j - 1 /\ j # 1
      BY DEF Down
    <3>2. PICK n \in 1..N : f[n] = j
      BY <1>2 DEF Ascends
    <3>3. n # 1
      BY <1>4, <3>1, <3>2
    <3>4. n - 1 \in 1..(N - 1) /\ g[n - 1] = i
      BY <3>1, <3>2, <3>3
    <3> QED BY <3>4
  <2>3. ASSUME NEW m \in 1..(N - 1), NEW n \in 1..(N - 1), m < n PROVE g[m] < g[n]
    <3>1. f[m + 1] < f[n + 1]
      BY <1>2, <1>5, <2>3 DEF Ascends
    <3> QED BY <1>5, <3>1
  <2> QED BY <2>1, <2>2, <2>3 DEF Ascends
<1>7. I \subseteq Int /\ Down(I) \subseteq Int /\ N - 1 \in Nat
  BY <1>4 DEF Down
<1>8. Picked(q, I) = [n \in 1..N |-> q[f[n]]]
  BY <1>2, <1>7, PickedIs
<1> DEFINE r == Tail(q)
<1>9. \A n \in 1..(N - 1) : r[g[n]] = q[f[n + 1]]
  BY <1>5
<1> HIDE DEF g, r
<1>10. Picked(r, Down(I)) = [n \in 1..(N - 1) |-> r[g[n]]]
  BY <1>6, <1>7, PickedIs
<1>11. Picked(q, I) \in Seq(T) /\ Len(Picked(q, I)) = N
  BY <1>8, PickedType
<1>12. Picked(q, I) # <<>> /\ Head(Picked(q, I)) = Head(q)
  BY <1>4, <1>8, <1>11
<1>13. Tail(Picked(q, I)) = [n \in 1..(N - 1) |-> q[f[n + 1]]]
  BY <1>4, <1>8, <1>11
<1> QED BY <1>9, <1>10, <1>12, <1>13 DEF r
=============================================================================
