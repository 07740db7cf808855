----------------------- MODULE ListenerAssignerProofs -----------------------
(***************************************************************************)
(* Theorems about ListenerAssigner, for every number of tasks, workers,    *)
(* groups and accounts and every limit of groups per listener: a plan is   *)
(* fair and sticky, and while nothing changes the roles in SQLite and the  *)
(* published map agree, however the calls overlap.                         *)
(***************************************************************************)
EXTENDS ListenerAssigner, FiniteSetTheorems, TLAPS

-----------------------------------------------------------------------------
(* Quotients and remainders.                                               *)

LEMMA Division ==
  ASSUME NEW C \in Nat \ {0}, NEW k \in Nat
  PROVE  \E p \in Nat, r \in 0..C - 1 : p = k \div C /\ r = k % C /\ k = C * p + r
<1> DEFINE p == k \div C
           r == k % C
<1>1. p \in Nat /\ r \in 0..C - 1 /\ p = k \div C /\ r = k % C
  OBVIOUS
<1> HIDE DEF p, r
<1>2. k = C * p + r
  BY <1>1
<1> QED  BY <1>1, <1>2

LEMMA Multiples ==
  ASSUME NEW C \in Nat \ {0}, NEW p \in Nat, NEW q \in Nat, p < q
  PROVE  C * p \in Nat /\ C * q \in Nat /\ C * p + C <= C * q
<1>1. PICK d \in Nat : q = p + 1 + d
  <2> WITNESS q - p - 1 \in Nat
  <2> QED  OBVIOUS
<1>2. C * (p + 1 + d) = C * p + C + C * d
  OBVIOUS
<1>3. C * d \in Nat /\ C * p \in Nat /\ C * q \in Nat
  OBVIOUS
<1> QED  BY <1>1, <1>2, <1>3

LEMMA Remainder ==
  ASSUME NEW C \in Nat \ {0}, NEW q \in Nat, NEW j \in 0..C - 1, NEW k, k = C * q + j
  PROVE  k \in Nat /\ k % C = j
<1>1. k \in Nat /\ C * q \in Nat
  OBVIOUS
<1>2. PICK p \in Nat, r \in 0..C - 1 : p = k \div C /\ r = k % C /\ k = C * p + r
  BY <1>1, Division
<1>3. C * p \in Nat
  BY <1>2
<1>4. ~(p < q) /\ ~(q < p)
  BY <1>1, <1>2, <1>3, Multiples
<1>5. p = q
  BY <1>2, <1>4
<1> QED  BY <1>1, <1>2, <1>5

\* A quotient is below N when the number is below C * N.
LEMMA Quotient ==
  ASSUME NEW C \in Nat \ {0}, NEW k \in Nat, NEW N \in Nat, k < C * N
  PROVE  k \div C \in Nat /\ k \div C < N
<1>1. PICK p \in Nat, r \in 0..C - 1 : p = k \div C /\ r = k % C /\ k = C * p + r
  BY Division
<1>2. C * p \in Nat /\ C * N \in Nat /\ p # N
  BY <1>1
<1>3. ~(N < p)
  BY <1>1, <1>2, Multiples
<1> QED  BY <1>1, <1>2, <1>3

\* Different numbers of one remainder have different quotients.
LEMMA QuotientsDiffer ==
  ASSUME NEW C \in Nat \ {0}, NEW k \in Nat, NEW l \in Nat, k % C = l % C, k \div C = l \div C
  PROVE  k = l
<1>1. PICK p \in Nat, r \in 0..C - 1 : p = k \div C /\ r = k % C /\ k = C * p + r
  BY Division
<1>2. PICK q \in Nat, s \in 0..C - 1 : q = l \div C /\ s = l % C /\ l = C * q + s
  BY Division
<1>3. p = q /\ r = s
  BY <1>1, <1>2
<1> QED  BY <1>1, <1>2, <1>3

-----------------------------------------------------------------------------
(* Places in an order.                                                     *)

\* R is a strict order of all elements of S, as a set of pairs.
Orders(R, S) ==
  /\ \A x \in S : <<x, x>> \notin R
  /\ \A x, y \in S : x # y => <<x, y>> \in R \/ <<y, x>> \in R
  /\ \A x, y, z \in S : <<x, y>> \in R /\ <<y, z>> \in R => <<x, z>> \in R

Smaller(R, S, x) == {y \in S : <<y, x>> \in R}

\* The places of the elements of a finite set are the numbers below its size,
\* each taken once.
LEMMA Places ==
  ASSUME NEW S, IsFiniteSet(S), NEW R, Orders(R, S),
         NEW f, f = [x \in S |-> Cardinality(Smaller(R, S, x))]
  PROVE  /\ \A x \in S : f[x] \in 0..Cardinality(S) - 1
         /\ \A x, y \in S : f[x] = f[y] => x = y
         /\ \A n \in 0..Cardinality(S) - 1 : \E x \in S : f[x] = n
         /\ \A x, y \in S : <<x, y>> \in R => f[x] < f[y]
<1>1. \A x \in S : Smaller(R, S, x) \in SUBSET S /\ x \notin Smaller(R, S, x)
  BY DEF Smaller, Orders
<1>2. \A x \in S : IsFiniteSet(Smaller(R, S, x)) /\ f[x] \in Nat /\ f[x] < Cardinality(S)
  <2> SUFFICES ASSUME NEW x \in S
               PROVE  IsFiniteSet(Smaller(R, S, x)) /\ f[x] \in Nat /\ f[x] < Cardinality(S)
    OBVIOUS
  <2>1. /\ IsFiniteSet(Smaller(R, S, x))
        /\ Cardinality(Smaller(R, S, x)) <= Cardinality(S)
        /\ Cardinality(Smaller(R, S, x)) # Cardinality(S)
    BY <1>1, FS_Subset
  <2>2. Cardinality(S) \in Nat /\ Cardinality(Smaller(R, S, x)) \in Nat
    BY <2>1, FS_CardinalityType
  <2> QED  BY <2>1, <2>2
<1>3. ASSUME NEW x \in S, NEW y \in S, <<x, y>> \in R  PROVE f[x] < f[y]
  <2>1. Smaller(R, S, x) \in SUBSET Smaller(R, S, y)
    BY <1>3 DEF Smaller, Orders
  <2>2. x \in Smaller(R, S, y) /\ x \notin Smaller(R, S, x)
    BY <1>1, <1>3 DEF Smaller
  <2>3. /\ Cardinality(Smaller(R, S, x)) <= Cardinality(Smaller(R, S, y))
        /\ Cardinality(Smaller(R, S, x)) # Cardinality(Smaller(R, S, y))
    BY <1>2, <2>1, <2>2, FS_Subset
  <2> QED  BY <1>2, <2>3
<1>4. \A x, y \in S : f[x] = f[y] => x = y
  <2> SUFFICES ASSUME NEW x \in S, NEW y \in S, f[x] = f[y], x # y  PROVE FALSE
    OBVIOUS
  <2>1. f[x] \in Nat /\ ~(f[x] < f[y]) /\ ~(f[y] < f[x])
    BY <1>2
  <2> QED  BY <1>3, <2>1 DEF Orders
<1> DEFINE N == Cardinality(S)
<1>5. N \in Nat /\ IsFiniteSet(0..N - 1) /\ Cardinality(0..N - 1) = N
  <2>1. N \in Nat
    BY FS_CardinalityType
  <2> HIDE DEF N
  <2>2. N - 1 \in Int /\ 0 \in Int
    BY <2>1
  <2>3. IsFiniteSet(0..N - 1) /\ Cardinality(0..N - 1) = IF 0 > N - 1 THEN 0 ELSE N - 1 - 0 + 1
    BY <2>2, FS_Interval
  <2> QED  BY <2>1, <2>3
<1>6. f \in Injection(S, 0..N - 1)
  <2>1. f \in [S -> 0..N - 1]
    BY <1>2, <1>5
  <2> QED  BY <1>4, <2>1 DEF Injection, IsInjective
<1>7. f \in Surjection(S, 0..N - 1)
  BY <1>5, <1>6, FS_Injection
<1> QED  BY <1>2, <1>3, <1>4, <1>5, <1>7 DEF Surjection

\* A set is no larger than the interval it can be numbered with.
LEMMA Numbered ==
  ASSUME NEW S, NEW n \in Nat, NEW f \in [S -> 0..n - 1], \A x, y \in S : f[x] = f[y] => x = y
  PROVE  IsFiniteSet(S) /\ Cardinality(S) <= n
<1>1. f \in Injection(S, 0..n - 1)
  BY DEF Injection, IsInjective
<1>2. n - 1 \in Int /\ 0 \in Int
  OBVIOUS
<1>3. IsFiniteSet(0..n - 1) /\ Cardinality(0..n - 1) = IF 0 > n - 1 THEN 0 ELSE n - 1 - 0 + 1
  BY <1>2, FS_Interval
<1>4. IsFiniteSet(S) /\ Cardinality(S) <= Cardinality(0..n - 1)
  BY <1>1, <1>3, FS_Injection
<1> QED  BY <1>3, <1>4

-----------------------------------------------------------------------------
(* The plan of a call.                                                     *)

\* The accounts stand in a line: no two at one place, and those that listen
\* already in front.
LEMMA Positions ==
  ASSUME NEW H \in SUBSET Accounts, NEW L
  PROVE  /\ \A a \in H : Position(H, L, a) \in 0..Cardinality(H) - 1
         /\ \A a, b \in H : Position(H, L, a) = Position(H, L, b) => a = b
         /\ \A n \in 0..Cardinality(H) - 1 : \E a \in H : Position(H, L, a) = n
         /\ \A a, b \in H : Before(L, a, b) => Position(H, L, a) < Position(H, L, b)
<1> DEFINE R == {p \in H \X H : Before(L, p[1], p[2])}
           f == [a \in H |-> Cardinality(Smaller(R, H, a))]
<1>1. IsFiniteSet(H) /\ H \subseteq Nat
  BY FS_Subset, ListenerAssumption
<1>2. \A a, b \in H : <<a, b>> \in R <=> Before(L, a, b)
  OBVIOUS
<1>3. \A a \in H : f[a] = Position(H, L, a)
  <2> SUFFICES ASSUME NEW a \in H  PROVE Smaller(R, H, a) = {b \in H : Before(L, b, a)}
    BY DEF Position
  <2> HIDE DEF R
  <2> QED  BY <1>2 DEF Smaller
<1> HIDE DEF R
<1>4. Orders(R, H)
  BY <1>1, <1>2 DEF Orders, Before
<1>5. /\ \A x \in H : f[x] \in 0..Cardinality(H) - 1
      /\ \A x, y \in H : f[x] = f[y] => x = y
      /\ \A n \in 0..Cardinality(H) - 1 : \E x \in H : f[x] = n
      /\ \A x, y \in H : <<x, y>> \in R => f[x] < f[y]
  BY <1>1, <1>4, Places
<1> HIDE DEF f
<1> QED  BY <1>2, <1>3, <1>5

LEMMA Ranks ==
  ASSUME NEW T \in SUBSET Groups
  PROVE  /\ \A g \in T : Rank(g, T) \in 0..Cardinality(T) - 1
         /\ \A g, h \in T : Rank(g, T) = Rank(h, T) => g = h
         /\ \A n \in 0..Cardinality(T) - 1 : \E g \in T : Rank(g, T) = n
<1> DEFINE R == {p \in T \X T : p[1] < p[2]}
           f == [g \in T |-> Cardinality(Smaller(R, T, g))]
<1>1. IsFiniteSet(T) /\ T \subseteq Nat
  BY FS_Subset, ListenerAssumption
<1>2. \A g, h \in T : <<g, h>> \in R <=> g < h
  OBVIOUS
<1>3. \A g \in T : f[g] = Rank(g, T)
  <2> SUFFICES ASSUME NEW g \in T  PROVE Smaller(R, T, g) = {h \in T : h < g}
    BY DEF Rank
  <2> HIDE DEF R
  <2> QED  BY <1>2 DEF Smaller
<1> HIDE DEF R
<1>4. Orders(R, T)
  BY <1>1, <1>2 DEF Orders
<1>5. /\ \A x \in T : f[x] \in 0..Cardinality(T) - 1
      /\ \A x, y \in T : f[x] = f[y] => x = y
      /\ \A n \in 0..Cardinality(T) - 1 : \E x \in T : f[x] = n
      /\ \A x, y \in T : <<x, y>> \in R => f[x] < f[y]
  BY <1>1, <1>4, Places
<1> HIDE DEF f
<1> QED  BY <1>3, <1>5

\* How many listeners there are: enough for MaxGroups each, unless there are no
\* more accounts, and never more than groups.
LEMMA NeededFor ==
  ASSUME NEW n \in Nat \ {0}
  PROVE  Needed(n) \in 1..n /\ n <= MaxGroups * Needed(n)
<1>1. MaxGroups \in Nat \ {0} /\ n + MaxGroups - 1 \in Nat
  BY ListenerAssumption
<1>2. PICK p \in Nat, r \in 0..MaxGroups - 1 :
        p = (n + MaxGroups - 1) \div MaxGroups /\ n + MaxGroups - 1 = MaxGroups * p + r
  BY <1>1, Division
<1>3. MaxGroups * p \in Nat /\ n <= MaxGroups * p
  BY <1>1, <1>2
<1>4. p # 0
  BY <1>1, <1>3
<1>5. p <= n
  <2> SUFFICES ASSUME n < p  PROVE FALSE
    OBVIOUS
  <2>1. MaxGroups * n \in Nat /\ MaxGroups * n + MaxGroups <= MaxGroups * p
    BY <1>1, Multiples
  <2>2. n <= MaxGroups * n
    BY <1>1
  <2> QED  BY <1>1, <1>2, <1>3, <2>1, <2>2
<1> QED  BY <1>2, <1>3, <1>4, <1>5 DEF Needed

LEMMA Counts ==
  ASSUME NEW T \in SUBSET Groups, T # {}, NEW H \in SUBSET Accounts, H # {}
  PROVE  /\ Cardinality(T) \in Nat \ {0} /\ Cardinality(H) \in Nat \ {0}
         /\ Count(T, H) \in Nat \ {0}
         /\ Count(T, H) <= Cardinality(T) /\ Count(T, H) <= Cardinality(H)
         /\ \/ Count(T, H) = Cardinality(H)
            \/ Cardinality(T) <= Count(T, H) * MaxGroups
<1>1. Cardinality(T) \in Nat \ {0} /\ Cardinality(H) \in Nat \ {0}
  <2>1. IsFiniteSet(T) /\ IsFiniteSet(H)
    BY FS_Subset, ListenerAssumption
  <2> QED  BY <2>1, FS_CardinalityType, FS_EmptySet
<1> DEFINE n == Cardinality(T)
           k == Needed(n)
<1>2. k \in 1..n /\ n <= MaxGroups * k
  BY <1>1, NeededFor
<1> HIDE DEF k
<1>3. Count(T, H) = IF k < Cardinality(H) THEN k ELSE Cardinality(H)
  BY DEF Count, Least, k
<1>4. MaxGroups * k = k * MaxGroups
  BY <1>1, <1>2, ListenerAssumption
<1> QED  BY <1>1, <1>2, <1>3, <1>4

\* The listeners of a plan are the first in the line, each with a group.
LEMMA PlanOwners ==
  ASSUME NEW T \in SUBSET Groups, T # {}, NEW H \in SUBSET Accounts, H # {}, NEW L
  PROVE  Owners(Shares(T, H, L)) = {a \in H : Position(H, L, a) < Count(T, H)}
<1> DEFINE C == Count(T, H)
<1>1. /\ C \in Nat \ {0} /\ C <= Cardinality(T)
      /\ Cardinality(T) \in Nat /\ Cardinality(H) \in Nat
  BY Counts
<1> HIDE DEF C
<1>2. \A g \in T : Rank(g, T) % C \in 0..C - 1
  BY <1>1, Ranks
<1>3. ASSUME NEW a \in H, Position(H, L, a) < C  PROVE \E g \in T : Rank(g, T) % C = Position(H, L, a)
  <2>1. Position(H, L, a) \in 0..C - 1 /\ Position(H, L, a) \in 0..Cardinality(T) - 1
    BY <1>1, <1>3, Positions
  <2>2. PICK g \in T : Rank(g, T) = Position(H, L, a)
    BY <2>1, Ranks
  <2>3. Position(H, L, a) % C = Position(H, L, a)
    BY <1>1, <2>1
  <2> QED  BY <2>2, <2>3
<1>4. ASSUME NEW a \in H, NEW g \in T, Rank(g, T) % C = Position(H, L, a)
      PROVE  Position(H, L, a) < C
  BY <1>1, <1>2, <1>4
<1> QED  BY <1>3, <1>4 DEF Owners, Shares, C

\* Every group has one listener.
LEMMA DealtOnce ==
  ASSUME NEW T \in SUBSET Groups, NEW H \in SUBSET Accounts, H # {}, NEW L, NEW g \in T
  PROVE  Cardinality({a \in Accounts : g \in Shares(T, H, L)[a]}) = 1
<1> DEFINE C == Count(T, H)
<1>1. C \in Nat \ {0} /\ C <= Cardinality(H) /\ Cardinality(H) \in Nat
  BY Counts
<1> HIDE DEF C
<1>2. Rank(g, T) % C \in 0..Cardinality(H) - 1
  <2>1. Rank(g, T) \in Nat
    BY Ranks
  <2>2. Rank(g, T) % C \in 0..C - 1
    BY <1>1, <2>1
  <2> QED  BY <1>1, <2>2
<1>3. PICK a \in H : Position(H, L, a) = Rank(g, T) % C
  BY <1>2, Positions
<1>4. {b \in Accounts : g \in Shares(T, H, L)[b]} = {a}
  <2>1. \A b \in Accounts :
          g \in Shares(T, H, L)[b] <=> b \in H /\ Rank(g, T) % C = Position(H, L, b)
    BY DEF Shares, C
  <2>2. \A b \in Accounts : g \in Shares(T, H, L)[b] <=> b = a
    BY <1>3, <2>1, Positions
  <2> QED  BY <2>2
<1> QED  BY <1>4, FS_Singleton

\* Any two listeners have the quotient of groups and listeners, or one more; and
\* no more than the limit, if there are as many listeners as are needed.
LEMMA ShareSize ==
  ASSUME NEW T \in SUBSET Groups, T # {}, NEW H \in SUBSET Accounts, H # {}, NEW L,
         NEW a \in Owners(Shares(T, H, L)),
         NEW P, P = Shares(T, H, L)[a], NEW N, N = Cardinality(T) \div Count(T, H)
  PROVE  /\ N \in Nat /\ Cardinality(P) \in N..N + 1
         /\ Cardinality(T) <= Count(T, H) * MaxGroups => Cardinality(P) <= MaxGroups
<1> DEFINE C == Count(T, H)
           n == Cardinality(T)
           i == Position(H, L, a)
<1>1. C \in Nat \ {0} /\ n \in Nat
  BY Counts
<1>2. a \in H /\ i \in 0..C - 1 /\ P = {g \in T : Rank(g, T) % C = i}
  <2>1. a \in H /\ i < C
    BY PlanOwners
  <2>2. i \in Nat
    BY <2>1, Positions
  <2> QED  BY <1>1, <2>1, <2>2 DEF Shares
<1>3. /\ \A g \in T : Rank(g, T) \in Nat /\ Rank(g, T) < n
      /\ \A g, h \in T : Rank(g, T) = Rank(h, T) => g = h
      /\ \A k \in 0..n - 1 : \E g \in T : Rank(g, T) = k
  BY <1>1, Ranks
<1>4. \E p \in Nat, r \in 0..C - 1 : p = N /\ n = C * p + r
  BY <1>1, Division
<1> HIDE DEF C, n, i
<1>5. N \in Nat /\ C * N \in Nat /\ C * N <= n /\ n < C * (N + 1)
  <2>1. N \in Nat /\ C * N \in Nat /\ C * (N + 1) = C * N + C
    BY <1>1, <1>4
  <2> QED  BY <1>1, <1>4, <2>1
\* Number the groups by their quotients.
<1>6. ASSUME NEW M \in Nat, n <= C * M  PROVE IsFiniteSet(P) /\ Cardinality(P) <= M
  <2> DEFINE f == [g \in P |-> Rank(g, T) \div C]
  <2>1. f \in [P -> 0..M - 1]
    <3> SUFFICES ASSUME NEW g \in P  PROVE Rank(g, T) \div C \in 0..M - 1
      OBVIOUS
    <3>1. Rank(g, T) \in Nat /\ Rank(g, T) < C * M
      <4>1. C * M \in Nat
        BY <1>1, <1>6
      <4> QED  BY <1>1, <1>2, <1>3, <1>6, <4>1
    <3>2. Rank(g, T) \div C \in Nat /\ Rank(g, T) \div C < M
      BY <1>1, <1>6, <3>1, Quotient
    <3> QED  BY <1>6, <3>2
  <2>2. \A g, h \in P : f[g] = f[h] => g = h
    <3> SUFFICES ASSUME NEW g \in P, NEW h \in P, Rank(g, T) \div C = Rank(h, T) \div C
                 PROVE  g = h
      OBVIOUS
    <3>1. Rank(g, T) = Rank(h, T)
      BY <1>1, <1>2, <1>3, QuotientsDiffer
    <3> QED  BY <1>2, <1>3, <3>1
  <2> HIDE DEF f
  <2> QED  BY <1>6, <2>1, <2>2, Numbered
\* For every quotient below N there is a group.
<1>7. IsFiniteSet(P) => N <= Cardinality(P)
  <2> SUFFICES ASSUME IsFiniteSet(P)  PROVE N <= Cardinality(P)
    OBVIOUS
  <2> DEFINE f == [q \in 0..N - 1 |-> CHOOSE g \in P : Rank(g, T) = C * q + i]
  <2>1. \A q \in 0..N - 1 : C * q \in Nat /\ \E g \in P : Rank(g, T) = C * q + i
    <3> SUFFICES ASSUME NEW q \in 0..N - 1
                 PROVE  C * q \in Nat /\ \E g \in P : Rank(g, T) = C * q + i
      OBVIOUS
    <3>1. q \in Nat /\ q < N
      BY <1>5
    <3>2. C * q \in Nat /\ C * q + C <= C * N
      BY <1>1, <1>5, <3>1, Multiples
    <3>3. C * q + i \in 0..n - 1
      BY <1>1, <1>2, <1>5, <3>2
    <3>4. PICK g \in T : Rank(g, T) = C * q + i
      BY <1>3, <3>3
    <3>5. Rank(g, T) % C = i
      BY <1>1, <1>2, <3>1, <3>4, Remainder
    <3> QED  BY <1>2, <3>2, <3>4, <3>5
  <2>2. \A q \in 0..N - 1 : f[q] \in P /\ Rank(f[q], T) = C * q + i
    BY <2>1
  <2> HIDE DEF f
  <2>3. ASSUME NEW q \in 0..N - 1, NEW r \in 0..N - 1, f[q] = f[r]  PROVE q = r
    <3>1. q \in Nat /\ r \in Nat /\ C * q \in Nat /\ C * r \in Nat /\ C * q + i = C * r + i
      BY <1>2, <1>5, <2>1, <2>2, <2>3
    <3>2. ~(q < r) /\ ~(r < q)
      BY <1>1, <1>2, <3>1, Multiples
    <3> QED  BY <3>1, <3>2
  <2>4. f \in [0..N - 1 -> P]
    BY <2>2 DEF f
  <2>5. f \in Injection(0..N - 1, P)
    BY <2>3, <2>4 DEF Injection, IsInjective
  <2>6. Cardinality(0..N - 1) <= Cardinality(P)
    BY <2>5, FS_Injection
  <2>7. N - 1 \in Int /\ 0 \in Int
    BY <1>5
  <2>8. Cardinality(0..N - 1) = IF 0 > N - 1 THEN 0 ELSE N - 1 - 0 + 1
    BY <2>7, FS_Interval
  <2> QED  BY <1>5, <2>6, <2>8
<1>8. IsFiniteSet(P) /\ Cardinality(P) <= N + 1
  <2>1. N + 1 \in Nat /\ C * (N + 1) \in Nat
    BY <1>1, <1>5
  <2>2. n <= C * (N + 1)
    BY <1>1, <1>5, <2>1
  <2> QED  BY <1>6, <2>1, <2>2
<1>9. Cardinality(P) \in Nat
  BY <1>8, FS_CardinalityType
<1> QED  BY <1>5, <1>6, <1>7, <1>8, <1>9, ListenerAssumption DEF C, n

-----------------------------------------------------------------------------
(* Types.                                                                  *)

LEMMA SharesType ==
  ASSUME NEW T \in SUBSET Groups, NEW H, NEW L
  PROVE  Shares(T, H, L) \in [Accounts -> SUBSET Groups]
BY DEF Shares

LEMMA BeginType ==
  ASSUME NEW kind \in {"sync", "startup", "force", "check"},
         NEW pc \in {"read", "active", "decide", "existing", "roles", "publish", "repliers"},
         NEW T \in SUBSET Groups
  PROVE  Begin(kind, pc) \in Running /\ [Begin(kind, pc) EXCEPT !.targets = T] \in Running
BY DEF Begin, Running, NoMap

\* A call that is under way has the fields of one.
LEMMA CallHas ==
  ASSUME TypeOK, NEW c \in Callers, ~At(c, "idle")
  PROVE  /\ call[c] \in Running
         /\ call[c].targets \in SUBSET Groups /\ call[c].plan \in [Accounts -> SUBSET Groups]
<1>1. call[c] # Idle
  BY DEF At, Idle
<1>2. call[c] \in Running
  BY <1>1 DEF TypeOK
<1> QED  BY <1>2 DEF Running

\* A call that goes on has the type of one.
LEMMA GoesOnType ==
  ASSUME NEW k \in Running, NEW T \in SUBSET Groups, NEW H \in SUBSET Accounts,
         NEW plan \in [Accounts -> SUBSET Groups]
  PROVE  /\ [k EXCEPT !.pc = "active", !.targets = T] \in Running
         /\ [k EXCEPT !.pc = "decide"] \in Running
         /\ [k EXCEPT !.pc = "publish"] \in Running
         /\ [k EXCEPT !.pc = "existing", !.plan = plan, !.healthy = H] \in Running
         /\ [k EXCEPT !.pc = "roles", !.plan = plan] \in Running
         /\ [k EXCEPT !.pc = "roles", !.kind = "force", !.healthy = {}] \in Running
BY DEF Running

LEMMA AfterType ==
  ASSUME TypeOK, NEW c \in Callers, ~At(c, "idle")
  PROVE  AfterMap(c) \in Running \cup {Idle}
<1>1. call[c].targets \in SUBSET Groups
  BY CallHas
<1>2. /\ [Begin("sync", "repliers") EXCEPT !.targets = call[c].targets] \in Running
      /\ Begin("sync", "read") \in Running
  BY <1>1, BeginType
<1> QED  BY <1>2 DEF AfterMap

\* What a step does to the calls, and what it leaves alone, keeps the types.
LEMMA CallType ==
  ASSUME TypeOK, NEW c \in Callers, NEW k \in Running \cup {Idle}, Becomes(c, k)
  PROVE  call' \in [Callers -> Running \cup {Idle}]
BY DEF TypeOK, Becomes

LEMMA BudgetType ==
  ASSUME TypeOK, UNCHANGED budget \/ Call \/ Change \/ Fault
  PROVE  calm' \in BOOLEAN /\ events' \in 0..MaxEvents
<1>1. MaxEvents \in Nat
  BY ListenerAssumption
<1>2. events' = events \/ (events < MaxEvents /\ events' = events + 1)
  BY DEF budget, Call, Change, Fault
<1>3. events' \in 0..MaxEvents
  BY <1>1, <1>2 DEF TypeOK
<1>4. calm' \in BOOLEAN
  BY DEF TypeOK, budget, Call, Change, Fault
<1> QED  BY <1>3, <1>4

LEMMA TypeInit == Init => TypeOK
<1> SUFFICES ASSUME Init PROVE TypeOK
  OBVIOUS
<1>1. NoMap \in [Accounts -> SUBSET Groups]
  BY DEF NoMap
<1>2. Begin("startup", "read") \in Running
  BY BeginType
<1>3. call \in [Callers -> Running \cup {Idle}]
  BY <1>2 DEF Init
<1>4. own \in [Workers -> [Accounts -> SUBSET Groups]] /\ map \in [Accounts -> SUBSET Groups]
  BY <1>1 DEF Init
<1>5. events \in 0..MaxEvents
  BY ListenerAssumption DEF Init
<1> QED  BY <1>3, <1>4, <1>5 DEF Init, TypeOK

\* Starting a call.
LEMMA TypeStart ==
  ASSUME TypeOK, NEW c \in Callers, Start(c)
  PROVE  TypeOK'
<1>1. active \in SUBSET Groups /\ sent \in SUBSET Groups /\ {} \in SUBSET Groups
      /\ targets \in SUBSET Groups
  BY DEF TypeOK
<1>2. CASE StartSync(c)
  <2>1. [Begin("sync", "active") EXCEPT !.targets = targets] \in Running
    BY <1>1, BeginType
  <2>2. call' \in [Callers -> Running \cup {Idle}]
    BY <1>2, <2>1, CallType DEF StartSync
  <2>3. calm' \in BOOLEAN /\ events' \in 0..MaxEvents
    BY <1>2, BudgetType DEF StartSync
  <2> QED  BY <1>2, <2>2, <2>3 DEF StartSync, TypeOK, world, redis
<1>3. CASE ChangeTargets(c)
  <2>1. call' \in [Callers -> Running \cup {Idle}]
    BY <1>1, <1>3, BeginType, CallType DEF ChangeTargets
  <2>2. calm' \in BOOLEAN /\ events' \in 0..MaxEvents
    BY <1>3, BudgetType DEF ChangeTargets
  <2>3. targets' \subseteq Groups
    BY <1>1, <1>3 DEF ChangeTargets
  <2> QED  BY <1>3, <2>1, <2>2, <2>3 DEF ChangeTargets, TypeOK, redis
<1>4. ASSUME NEW kind \in {"force", "check"}, ReadActive(c, kind),
             UNCHANGED <<world, active, sent, listeners, redis, hash>>
      PROVE  TypeOK'
  <2>1. [Begin(kind, "decide") EXCEPT !.targets = active] \in Running
    BY <1>1, BeginType
  <2>2. [Begin(kind, "decide") EXCEPT !.targets = IF c \in Tasks THEN sent ELSE {}] \in Running
    BY <1>1, BeginType
  <2>3. call' \in [Callers -> Running \cup {Idle}]
    BY <1>4, <2>1, <2>2, CallType DEF ReadActive
  <2>4. calm' \in BOOLEAN /\ events' \in 0..MaxEvents
    BY <1>4, BudgetType DEF ReadActive
  <2>5. clash' \in BOOLEAN
    BY <1>4 DEF ReadActive, TypeOK
  <2> QED  BY <1>4, <2>3, <2>4, <2>5 DEF TypeOK, world, redis
<1> QED  BY <1>2, <1>3, <1>4 DEF Start, StartForce, StartCheck

\* The steps of a call.
LEMMA TypeStep ==
  ASSUME TypeOK, NEW c \in Callers, Step(c)
  PROVE  TypeOK'
<1>0. ~At(c, "idle")
  BY DEF Step, ReadTargets, SetActive, Unchanged, Pick, Existing, CommitRoles, Publish, SetHash, At
<1>1. /\ call[c] \in Running
      /\ call[c].targets \in SUBSET Groups /\ call[c].plan \in [Accounts -> SUBSET Groups]
  BY <1>0, CallHas
<1>2. targets \in SUBSET Groups /\ healthy \in SUBSET Accounts
  BY DEF TypeOK
<1>3. Owners(call[c].plan) \subseteq Accounts
  BY DEF Owners
<1>4. AfterMap(c) \in Running \cup {Idle}
  BY <1>0, AfterType
<1>5. CASE ReadTargets(c)
  <2>1. call' \in [Callers -> Running \cup {Idle}]
    BY <1>1, <1>2, <1>5, GoesOnType, CallType DEF ReadTargets
  <2> QED  BY <1>5, <2>1 DEF ReadTargets, TypeOK, world, redis, budget
<1>6. CASE SetActive(c)
  <2>1. call' \in [Callers -> Running \cup {Idle}]
    BY <1>1, <1>2, <1>6, GoesOnType, CallType DEF SetActive
  <2>2. calm' \in BOOLEAN /\ events' \in 0..MaxEvents
    BY <1>6, BudgetType DEF SetActive
  <2> QED  BY <1>1, <1>6, <2>1, <2>2 DEF SetActive, TypeOK, world, redis
<1>7. CASE Unchanged(c)
  <2>1. call' \in [Callers -> Running \cup {Idle}]
    BY <1>7, CallType DEF Unchanged
  <2> QED  BY <1>7, <2>1 DEF Unchanged, TypeOK, world, redis, budget
<1>8. CASE Pick(c)
  <2> DEFINE plan == Shares(call[c].targets, healthy, listeners)
  <2>1. plan \in [Accounts -> SUBSET Groups]
    BY <1>1, SharesType
  <2>2. \/ Becomes(c, [call[c] EXCEPT !.pc = "publish"])
        \/ Becomes(c, AfterMap(c))
        \/ Becomes(c, [call[c] EXCEPT !.pc = "existing", !.plan = plan, !.healthy = healthy])
        \/ Becomes(c, [call[c] EXCEPT !.pc = "roles", !.plan = plan])
    BY <1>8 DEF Pick
  <2>3. clash' \in BOOLEAN /\ UNCHANGED <<world, active, sent, listeners, redis, hash, budget>>
    BY <1>8 DEF Pick, TypeOK
  <2> HIDE DEF plan
  <2>4. call' \in [Callers -> Running \cup {Idle}]
    BY <1>1, <1>2, <1>4, <2>1, <2>2, GoesOnType, CallType
  <2> QED  BY <2>3, <2>4 DEF TypeOK, world, redis, budget
<1>9. CASE Existing(c)
  <2>1. call' \in [Callers -> Running \cup {Idle}]
    BY <1>1, <1>2, <1>9, GoesOnType, CallType DEF Existing
  <2>2. calm' \in BOOLEAN /\ events' \in 0..MaxEvents
    BY <1>9, BudgetType DEF Existing, Reads
  <2> QED  BY <1>9, <2>1, <2>2 DEF Existing, TypeOK, world, redis
<1>10. CASE CommitRoles(c)
  <2>1. call' \in [Callers -> Running \cup {Idle}]
    BY <1>1, <1>2, <1>10, GoesOnType, CallType DEF CommitRoles
  <2>2. calm' \in BOOLEAN /\ events' \in 0..MaxEvents
    BY <1>10, BudgetType DEF CommitRoles
  <2>3. listeners' \subseteq Accounts
    BY <1>3, <1>10 DEF CommitRoles, TypeOK
  <2> QED  BY <1>10, <2>1, <2>2, <2>3 DEF CommitRoles, TypeOK, world, redis
<1>11. CASE Publish(c)
  <2>1. call' \in [Callers -> Running \cup {Idle}]
    BY <1>4, <1>11, CallType DEF Publish
  <2>2. calm' \in BOOLEAN /\ events' \in 0..MaxEvents
    BY <1>11, BudgetType DEF Publish
  <2>3. map' \in [Accounts -> SUBSET Groups] /\ flushed' \in BOOLEAN /\ clash' \in BOOLEAN
    BY <1>1, <1>11 DEF Publish, TypeOK, Overtakes
  <2>4. own' \in [Workers -> [Accounts -> SUBSET Groups]]
    BY <1>1, <1>11 DEF Publish, TypeOK
  <2> QED  BY <1>11, <2>1, <2>2, <2>3, <2>4 DEF Publish, TypeOK, world
<1>12. CASE SetHash(c)
  <2>1. call' \in [Callers -> Running \cup {Idle}]
    BY <1>12, CallType DEF SetHash
  <2> QED  BY <1>1, <1>12, <2>1 DEF SetHash, TypeOK, world, redis, budget
<1> QED  BY <1>5, <1>6, <1>7, <1>8, <1>9, <1>10, <1>11, <1>12 DEF Step

\* What happens around the calls.
LEMMA TypeRest ==
  ASSUME TypeOK,
         \/ \E c \in Callers : Abort(c)
         \/ \E a \in Accounts : SetRole(a) \/ ChangeHealth(a)
         \/ Restart
  PROVE  TypeOK'
<1>1. NoMap \in [Accounts -> SUBSET Groups]
  BY DEF NoMap
<1>2. ASSUME NEW c \in Callers, Abort(c)  PROVE TypeOK'
  <2>1. call' \in [Callers -> Running \cup {Idle}]
    BY <1>2, CallType DEF Abort
  <2>2. calm' \in BOOLEAN /\ events' \in 0..MaxEvents
    BY <1>2, BudgetType DEF Abort
  <2>3. own' \in [Workers -> [Accounts -> SUBSET Groups]] /\ clash' \in BOOLEAN
    BY <1>1, <1>2 DEF Abort, TypeOK, At
  <2> QED  BY <1>2, <2>1, <2>2, <2>3 DEF Abort, TypeOK, world
<1>3. ASSUME NEW a \in Accounts, SetRole(a) \/ ChangeHealth(a)  PROVE TypeOK'
  <2>1. calm' \in BOOLEAN /\ events' \in 0..MaxEvents
    BY <1>3, BudgetType DEF SetRole, ChangeHealth
  <2>2. listeners' \subseteq Accounts /\ healthy' \subseteq Accounts
    BY <1>3 DEF SetRole, ChangeHealth, TypeOK, world
  <2> QED  BY <1>3, <2>1, <2>2 DEF SetRole, ChangeHealth, TypeOK, world, redis
<1>4. CASE Restart
  <2>1. calm' \in BOOLEAN /\ events' \in 0..MaxEvents
    BY <1>4, BudgetType DEF Restart
  <2>2. Begin("startup", "read") \in Running
    BY BeginType
  <2>3. call' \in [Callers -> Running \cup {Idle}]
    BY <1>4, <2>2 DEF Restart, TypeOK
  <2> QED  BY <1>1, <1>4, <2>1, <2>3 DEF Restart, TypeOK, world
<1> QED  BY <1>2, <1>3, <1>4

LEMMA TypeKept == TypeOK /\ [Next]_vars => TypeOK'
<1> SUFFICES ASSUME TypeOK, [Next]_vars PROVE TypeOK'
  OBVIOUS
<1>1. CASE UNCHANGED vars
  BY <1>1 DEF TypeOK, vars, world, budget, redis
<1>2. CASE Next
  BY <1>2, TypeStart, TypeStep, TypeRest DEF Next
<1> QED  BY <1>1, <1>2

\* The variables have their types.
THEOREM TypeCorrect == Spec => []TypeOK
BY TypeInit, TypeKept, PTL DEF Spec

-----------------------------------------------------------------------------
(* Plans are fair and sticky.                                              *)

\* A step of one caller leaves the others where they are.
LEMMA OthersStay ==
  ASSUME TypeOK, NEW d \in Callers, Step(d) \/ Start(d) \/ Abort(d), NEW c \in Callers, c # d
  PROVE  call'[c] = call[c]
<1>1. \E k : Becomes(d, k)
  <2>1. Step(d) => \E k : Becomes(d, k)
    BY DEF Step, ReadTargets, SetActive, Unchanged, Pick, Existing, CommitRoles, Publish, SetHash
  <2>2. Start(d) => \E k : Becomes(d, k)
    BY DEF Start, StartSync, ChangeTargets, StartForce, StartCheck, ReadActive
  <2>3. Abort(d) => \E k : Becomes(d, k)
    BY DEF Abort
  <2> QED  BY <2>1, <2>2, <2>3
<1> QED  BY <1>1 DEF TypeOK, Becomes

\* Only Pick makes a plan: the shares of the call's targets among the accounts
\* and listeners it reads.
LEMMA Planning ==
  ASSUME TypeOK, Next, NEW c \in Callers,
         At(c, "decide"), call'[c].pc \in {"existing", "roles"}
  PROVE  /\ call[c].targets \in SUBSET Groups /\ call[c].targets # {}
         /\ healthy \in SUBSET Accounts /\ healthy # {}
         /\ call'[c].plan = Shares(call[c].targets, healthy, listeners)
<1>0. call[c] \in Running /\ call[c].targets \in SUBSET Groups
  BY CallHas DEF At
<1>1. ASSUME NEW k, Becomes(c, k)  PROVE call'[c] = k
  BY <1>1 DEF Becomes, TypeOK
<1>2. ASSUME NEW d \in Callers, Step(d) \/ Start(d) \/ Abort(d)  PROVE Pick(c)
  <2>1. d = c
    BY <1>2, OthersStay DEF At
  <2>2. ~Abort(c)
    BY <1>1 DEF Abort, Idle
  <2>3. ~Start(c)
    BY DEF Start, StartSync, ChangeTargets, StartForce, StartCheck, At
  <2>4. ~Unchanged(c)
    BY <1>1 DEF Unchanged, Idle
  <2> QED  BY <1>2, <2>1, <2>2, <2>3, <2>4
           DEF Step, ReadTargets, SetActive, Existing, CommitRoles, Publish, SetHash, At
<1>3. ASSUME NEW a \in Accounts, SetRole(a) \/ ChangeHealth(a)  PROVE FALSE
  BY <1>3 DEF SetRole, ChangeHealth, At
<1>4. ~Restart
  BY DEF Restart, Begin, Idle, At
<1>5. Pick(c)
  BY <1>2, <1>3, <1>4 DEF Next
<1>6. /\ AfterMap(c).pc \notin {"existing", "roles"}
      /\ [call[c] EXCEPT !.pc = "publish"].pc = "publish"
      /\ \A plan : [call[c] EXCEPT !.pc = "roles", !.plan = plan].plan = plan
      /\ \A plan : [call[c] EXCEPT !.pc = "existing", !.plan = plan,
                                   !.healthy = healthy].plan = plan
  BY <1>0 DEF AfterMap, Begin, Idle, Running
<1> QED  BY <1>0, <1>1, <1>5, <1>6 DEF Pick, TypeOK

\* Every plan gives each target of its call to one listener, no listener has
\* two groups more than another, and none has more than MaxGroups while a
\* healthy account has none (_calculate_assignment).
THEOREM PlansAreFair == Spec => FairShares
<1>1. ASSUME TypeOK, Next, NEW c \in Callers,
             At(c, "decide"), call'[c].pc \in {"existing", "roles"},
             NEW plan, plan = call'[c].plan
      PROVE  /\ \A g \in call[c].targets : Cardinality({a \in Accounts : g \in plan[a]}) = 1
             /\ \A a, b \in Owners(plan) : Cardinality(plan[a]) <= Cardinality(plan[b]) + 1
             /\ \/ Owners(plan) = healthy
                \/ \A a \in Accounts : Cardinality(plan[a]) <= MaxGroups
  <2> DEFINE T == call[c].targets
             H == healthy
             N == Cardinality(T) \div Count(T, H)
  <2>1. /\ T \in SUBSET Groups /\ T # {} /\ H \in SUBSET Accounts /\ H # {}
        /\ plan = Shares(T, H, listeners)
    BY <1>1, Planning
  <2> HIDE DEF T, H
  <2>2. \A g \in T : Cardinality({a \in Accounts : g \in plan[a]}) = 1
    BY <2>1, DealtOnce
  <2>3. \A a \in Owners(plan) :
          /\ N \in Nat /\ Cardinality(plan[a]) \in N..N + 1
          /\ Cardinality(T) <= Count(T, H) * MaxGroups => Cardinality(plan[a]) <= MaxGroups
    BY <2>1, ShareSize
  <2> HIDE DEF N
  <2>4. \A a, b \in Owners(plan) : Cardinality(plan[a]) <= Cardinality(plan[b]) + 1
    BY <2>3
  <2>5. Count(T, H) = Cardinality(H) \/ Cardinality(T) <= Count(T, H) * MaxGroups
    BY <2>1, Counts
  <2>6. ASSUME Count(T, H) = Cardinality(H)  PROVE Owners(plan) = healthy
    <3>1. \A a \in H : Position(H, listeners, a) < Cardinality(H)
      <4>1. Cardinality(H) \in Nat
        BY <2>1, Counts
      <4> QED  BY <2>1, <4>1, Positions
    <3>2. Owners(plan) = {a \in H : Position(H, listeners, a) < Count(T, H)}
      BY <2>1, PlanOwners
    <3> QED  BY <2>6, <3>1, <3>2 DEF H
  <2>7. ASSUME Cardinality(T) <= Count(T, H) * MaxGroups
        PROVE  \A a \in Accounts : Cardinality(plan[a]) <= MaxGroups
    <3>1. \A a \in Accounts \ Owners(plan) : plan[a] = {}
      BY DEF Owners
    <3>2. Cardinality({}) = 0 /\ 0 <= MaxGroups
      BY FS_EmptySet, ListenerAssumption
    <3> QED  BY <2>3, <2>7, <3>1, <3>2
  <2> QED  BY <2>2, <2>4, <2>5, <2>6, <2>7 DEF T, H
<1>2. TypeOK /\ [Next]_vars =>
      [\A c \in Callers :
         At(c, "decide") /\ call'[c].pc \in {"existing", "roles"} =>
           LET plan == call'[c].plan
           IN /\ \A g \in call[c].targets : Cardinality({a \in Accounts : g \in plan[a]}) = 1
              /\ \A a, b \in Owners(plan) : Cardinality(plan[a]) <= Cardinality(plan[b]) + 1
              /\ \/ Owners(plan) = healthy
                 \/ \A a \in Accounts : Cardinality(plan[a]) <= MaxGroups]_vars
  BY <1>1
<1> QED  BY <1>2, TypeCorrect, PTL DEF Spec, FairShares

\* A plan drops a healthy listener only when it needs fewer of them, and never
\* for an account that does not listen yet (the sort of _calculate_assignment).
THEOREM PlansAreSticky == Spec => ListenersSticky
<1>1. ASSUME TypeOK, Next, NEW c \in Callers,
             At(c, "decide"), call'[c].pc \in {"existing", "roles"}
      PROVE  LET before == listeners \cap healthy
                 after  == Owners(call'[c].plan)
             IN after \subseteq before \/ before \subseteq after
  <2> DEFINE T == call[c].targets
             H == healthy
             before == listeners \cap healthy
             after == Owners(call'[c].plan)
  <2>1. /\ T \in SUBSET Groups /\ T # {} /\ H \in SUBSET Accounts /\ H # {}
        /\ after = Owners(Shares(T, H, listeners))
    BY <1>1, Planning
  <2> HIDE DEF T, after
  <2>2. after = {a \in H : Position(H, listeners, a) < Count(T, H)}
    BY <2>1, PlanOwners
  <2> SUFFICES ASSUME NEW a \in after, a \notin before, NEW b \in before, b \notin after
               PROVE  FALSE
    BY DEF after
  <2>3. a \in H /\ b \in H /\ Before(listeners, b, a)
    BY <2>2 DEF Before
  <2>4. Position(H, listeners, b) < Position(H, listeners, a)
    BY <2>1, <2>3, Positions
  <2>5. Position(H, listeners, b) \in Nat /\ Position(H, listeners, a) \in Nat
    BY <2>1, <2>3, Positions
  <2>6. Count(T, H) \in Nat
    BY <2>1, Counts
  <2> QED  BY <2>2, <2>3, <2>4, <2>5, <2>6
<1>2. TypeOK /\ [Next]_vars =>
      [\A c \in Callers :
         At(c, "decide") /\ call'[c].pc \in {"existing", "roles"} =>
           LET before == listeners \cap healthy
               after  == Owners(call'[c].plan)
           IN after \subseteq before \/ before \subseteq after]_vars
  BY <1>1
<1> QED  BY <1>2, TypeCorrect, PTL DEF Spec, ListenersSticky

-----------------------------------------------------------------------------
(* The roles fit the map.                                                  *)

\* The accounts a plan made now would give groups to.
Chosen(T, H, L) == Owners(Shares(T, H, L))

\* A call has the targets, or none.  A plan that is made stays the one that
\* would be made, and where its map is about to be published the roles are.
CallFits(k, T, H, L) ==
  /\ k.pc # "idle" =>
       k.targets \in {{}, T} /\ (k.plan = NoMap \/ (k.targets # {} /\ H # {}))
  /\ k.pc \in {"existing", "roles"} =>
       k.targets # {} /\ H # {} /\ Owners(k.plan) = Chosen(T, H, L)
  /\ k.pc = "publish" =>
       k.plan = NoMap \/ (Owners(k.plan) = Chosen(T, H, L) /\ L = Chosen(T, H, L))

MapFits(m, T, H, L) ==
  m = NoMap \/ (T # {} /\ H # {} /\ Owners(m) = L /\ L = Chosen(T, H, L))

Fits ==
  calm =>
    /\ active \in {{}, targets}
    /\ \A c \in Callers : CallFits(call[c], targets, healthy, listeners)
    /\ MapFits(map, targets, healthy, listeners)

\* There are as many listeners as the count says.
LEMMA ChosenCount ==
  ASSUME NEW T \in SUBSET Groups, T # {}, NEW H \in SUBSET Accounts, H # {}, NEW L
  PROVE  IsFiniteSet(Chosen(T, H, L)) /\ Cardinality(Chosen(T, H, L)) = Count(T, H)
<1> DEFINE C == Count(T, H)
           O == Chosen(T, H, L)
           f == [a \in O |-> Position(H, L, a)]
<1>1. C \in Nat \ {0} /\ C <= Cardinality(H) /\ Cardinality(H) \in Nat
  BY Counts
<1>2. O = {a \in H : Position(H, L, a) < C}
  BY PlanOwners DEF Chosen
<1>3. /\ \A a \in H : Position(H, L, a) \in 0..Cardinality(H) - 1
      /\ \A a, b \in H : Position(H, L, a) = Position(H, L, b) => a = b
      /\ \A n \in 0..Cardinality(H) - 1 : \E a \in H : Position(H, L, a) = n
  BY Positions
<1> HIDE DEF C, O
<1>4. f \in [O -> 0..C - 1]
  BY <1>1, <1>2, <1>3
<1>5. \A a, b \in O : f[a] = f[b] => a = b
  BY <1>2, <1>3
<1>6. \A n \in 0..C - 1 : \E a \in O : f[a] = n
  BY <1>1, <1>2, <1>3
<1> HIDE DEF f
<1>7. f \in Injection(O, 0..C - 1)
  BY <1>4, <1>5 DEF Injection, IsInjective
<1>8. f \in Surjection(O, 0..C - 1)
  BY <1>4, <1>6 DEF Surjection
<1>9. IsFiniteSet(0..C - 1) /\ Cardinality(0..C - 1) = C
  <2>1. C - 1 \in Int /\ 0 \in Int
    BY <1>1
  <2>2. IsFiniteSet(0..C - 1) /\ Cardinality(0..C - 1) = IF 0 > C - 1 THEN 0 ELSE C - 1 - 0 + 1
    BY <2>1, FS_Interval
  <2> QED  BY <1>1, <2>2
<1>10. IsFiniteSet(O) /\ Cardinality(O) <= Cardinality(0..C - 1)
  BY <1>7, <1>9, FS_Injection
<1>11. Cardinality(0..C - 1) <= Cardinality(O)
  BY <1>8, <1>10, FS_Surjection
<1>12. Cardinality(O) \in Nat
  BY <1>10, FS_CardinalityType
<1> QED  BY <1>1, <1>9, <1>10, <1>11, <1>12 DEF C, O

\* A plan made once its listeners have their role chooses them again.
LEMMA Stable ==
  ASSUME NEW T \in SUBSET Groups, T # {}, NEW H \in SUBSET Accounts, H # {}, NEW L,
         NEW O, O = Chosen(T, H, L)
  PROVE  Chosen(T, H, O) = O
<1> DEFINE C == Count(T, H)
<1>1. C \in Nat
  BY Counts
<1>2. O \subseteq H /\ IsFiniteSet(O) /\ Cardinality(O) = C /\ IsFiniteSet(H)
  <2>1. O \subseteq H
    BY PlanOwners DEF Chosen
  <2> QED  BY <2>1, ChosenCount, FS_Subset, ListenerAssumption
<1>3. Chosen(T, H, O) = {a \in H : Position(H, O, a) < C}
  BY PlanOwners DEF Chosen
<1>4. ASSUME NEW a \in O  PROVE Position(H, O, a) < C
  <2> DEFINE S == {b \in H : Before(O, b, a)}
  <2>1. S \in SUBSET O /\ a \notin S
    <3>1. a \in Nat
      BY <1>2, ListenerAssumption
    <3> QED  BY <3>1 DEF Before
  <2> HIDE DEF S
  <2>2. IsFiniteSet(S) /\ Cardinality(S) <= Cardinality(O) /\ Cardinality(S) # Cardinality(O)
    BY <1>2, <2>1, FS_Subset
  <2>3. Cardinality(S) \in Nat
    BY <2>2, FS_CardinalityType
  <2> QED  BY <1>1, <1>2, <2>2, <2>3 DEF S, Position
<1>5. ASSUME NEW a \in H, a \notin O  PROVE ~(Position(H, O, a) < C)
  <2> DEFINE S == {b \in H : Before(O, b, a)}
  <2>1. O \in SUBSET S /\ S \in SUBSET H
    BY <1>2, <1>5 DEF Before
  <2> HIDE DEF S
  <2>2. IsFiniteSet(S)
    BY <1>2, <2>1, FS_Subset
  <2>3. Cardinality(O) <= Cardinality(S) /\ Cardinality(S) \in Nat
    BY <2>1, <2>2, FS_Subset, FS_CardinalityType
  <2> QED  BY <1>1, <1>2, <2>3 DEF S, Position
<1> QED  BY <1>2, <1>3, <1>4, <1>5

\* A step that leaves the world alone keeps what it does not touch: the roles are
\* the same, or those of the plan.
LEMMA Proceeds ==
  ASSUME TypeOK, Fits, calm, NEW c \in Callers, NEW k, Becomes(c, k), UNCHANGED world,
         active' \in {{}, targets},
         \/ listeners' = listeners
         \/ /\ targets # {} /\ healthy # {}
            /\ listeners' = Chosen(targets, healthy, listeners),
         CallFits(k, targets, healthy, listeners'),
         map' = map \/ MapFits(map', targets, healthy, listeners')
  PROVE  Fits'
<1>1. targets' = targets /\ healthy' = healthy
  BY DEF world
<1>2. \/ listeners' = listeners
      \/ /\ listeners' = Chosen(targets, healthy, listeners)
         /\ Chosen(targets, healthy, listeners') = Chosen(targets, healthy, listeners)
  <2>1. targets \in SUBSET Groups /\ healthy \in SUBSET Accounts
    BY DEF TypeOK
  <2> QED  BY <2>1, Stable
<1>3. ASSUME NEW d \in Callers  PROVE CallFits(call'[d], targets, healthy, listeners')
  <2>1. CASE d = c
    BY <2>1 DEF Becomes, TypeOK
  <2>2. CASE d # c
    <3>1. call'[d] = call[d] /\ CallFits(call[d], targets, healthy, listeners)
      BY <2>2 DEF Becomes, TypeOK, Fits
    <3> QED  BY <1>2, <3>1 DEF CallFits
  <2> QED  BY <2>1, <2>2
<1>4. MapFits(map', targets, healthy, listeners')
  BY <1>2 DEF Fits, MapFits
<1> QED  BY <1>1, <1>3, <1>4 DEF Fits

LEMMA BeginFits ==
  ASSUME NEW kind, NEW pc \in {"read", "active", "decide", "repliers"},
         NEW T \in SUBSET Groups, NEW H, NEW L, NEW S \in {{}, T}
  PROVE  /\ CallFits(Begin(kind, pc), T, H, L)
         /\ CallFits([Begin(kind, pc) EXCEPT !.targets = S], T, H, L)
BY DEF Begin, CallFits

\* Starting a call.
LEMMA FitsStart ==
  ASSUME TypeOK, Fits, calm, NEW c \in Callers, Start(c), calm'
  PROVE  Fits'
<1>1. targets \in SUBSET Groups /\ active \in {{}, targets}
  BY DEF TypeOK, Fits
<1>2. CASE StartSync(c)
  <2>1. CallFits([Begin("sync", "active") EXCEPT !.targets = targets], targets, healthy, listeners)
    BY <1>1, BeginFits
  <2> QED  BY <1>1, <1>2, <2>1, Proceeds DEF StartSync, redis
<1>3. ~ChangeTargets(c)
  BY DEF ChangeTargets, Change
<1>4. ASSUME NEW kind, ReadActive(c, kind),
             UNCHANGED <<world, active, sent, listeners, redis, hash>>
      PROVE  Fits'
  <2>1. Becomes(c, [Begin(kind, "decide") EXCEPT !.targets = active])
    BY <1>4 DEF ReadActive, Fault, Change
  <2>2. CallFits([Begin(kind, "decide") EXCEPT !.targets = active], targets, healthy, listeners)
    BY <1>1, BeginFits
  <2> QED  BY <1>1, <1>4, <2>1, <2>2, Proceeds DEF redis
<1> QED  BY <1>2, <1>3, <1>4 DEF Start, StartForce, StartCheck

\* The steps of a call.
LEMMA FitsStep ==
  ASSUME TypeOK, Fits, calm, NEW c \in Callers, Step(c), calm'
  PROVE  Fits'
<1>0. ~At(c, "idle")
  BY DEF Step, ReadTargets, SetActive, Unchanged, Pick, Existing, CommitRoles, Publish, SetHash, At
<1> DEFINE k == call[c]
<1>1. k \in Running /\ CallFits(k, targets, healthy, listeners) /\ ~Fault
  BY <1>0, CallHas DEF Fits, Fault, Change
<1>2. /\ targets \in SUBSET Groups /\ healthy \in SUBSET Accounts /\ active \in {{}, targets}
      /\ k.targets \in {{}, targets} /\ (k.plan = NoMap \/ (k.targets # {} /\ healthy # {}))
  BY <1>0, <1>1 DEF TypeOK, Fits, CallFits, At
<1>3. CallFits(Idle, targets, healthy, listeners)
  BY DEF CallFits, Idle
<1>4. CallFits(AfterMap(c), targets, healthy, listeners)
  <2>1. /\ CallFits([Begin("sync", "repliers") EXCEPT !.targets = k.targets],
                    targets, healthy, listeners)
        /\ CallFits(Begin("sync", "read"), targets, healthy, listeners)
    BY <1>2, BeginFits
  <2> QED  BY <1>3, <2>1 DEF AfterMap
<1>5. /\ CallFits([k EXCEPT !.pc = "active", !.targets = targets], targets, healthy, listeners)
      /\ CallFits([k EXCEPT !.pc = "decide"], targets, healthy, listeners)
  BY <1>1, <1>2 DEF CallFits, Running
<1> HIDE DEF k
<1>6. CASE ReadTargets(c)
  BY <1>2, <1>5, <1>6, Proceeds DEF ReadTargets, redis, k
<1>7. CASE SetActive(c)
  BY <1>1, <1>2, <1>5, <1>7, Proceeds DEF SetActive, redis, k
<1>8. CASE Unchanged(c)
  BY <1>2, <1>3, <1>8, Proceeds DEF Unchanged, redis
<1>9. CASE Pick(c)
  <2> DEFINE plan == Shares(k.targets, healthy, listeners)
  <2>1. UNCHANGED <<world, active, listeners, redis>>
    BY <1>9 DEF Pick
  <2>2. CASE k.targets = {} /\ Becomes(c, [k EXCEPT !.pc = "publish"])
    <3>1. CallFits([k EXCEPT !.pc = "publish"], targets, healthy, listeners)
      BY <1>1, <1>2, <2>2 DEF CallFits, Running
    <3> QED  BY <1>2, <2>1, <2>2, <3>1, Proceeds DEF redis
  <2>3. CASE Becomes(c, AfterMap(c))
    BY <1>2, <1>4, <2>1, <2>3, Proceeds DEF redis
  <2>4. ASSUME NEW step \in {"existing", "roles"}, NEW H, k.targets # {}, healthy # {}
        PROVE  /\ CallFits([k EXCEPT !.pc = step, !.plan = plan], targets, healthy, listeners)
               /\ CallFits([k EXCEPT !.pc = step, !.plan = plan, !.healthy = H],
                           targets, healthy, listeners)
    <3>1. Owners(plan) = Chosen(targets, healthy, listeners) /\ k.targets = targets
      BY <1>2, <2>4 DEF Chosen
    <3> HIDE DEF plan
    <3> QED  BY <1>1, <2>4, <3>1 DEF CallFits, Running
  <2>5. CASE /\ k.targets # {} /\ healthy # {}
             /\ Becomes(c, [k EXCEPT !.pc = "existing", !.plan = plan, !.healthy = healthy])
    BY <1>2, <2>1, <2>4, <2>5, Proceeds DEF redis
  <2>6. CASE /\ k.targets # {} /\ healthy # {}
             /\ Becomes(c, [k EXCEPT !.pc = "roles", !.plan = plan])
    BY <1>2, <2>1, <2>4, <2>6, Proceeds DEF redis
  <2> QED  BY <1>9, <2>2, <2>3, <2>5, <2>6 DEF Pick, k
<1>10. CASE Existing(c)
  <2>1. CallFits([k EXCEPT !.pc = "roles", !.kind = "force", !.healthy = {}],
                 targets, healthy, listeners)
    BY <1>1, <1>10 DEF CallFits, Running, Existing, At, k
  <2> QED  BY <1>2, <1>3, <1>10, <2>1, Proceeds DEF Existing, redis, k
<1>11. CASE CommitRoles(c)
  <2>1. /\ k.targets # {} /\ healthy # {} /\ k.targets = targets
        /\ Owners(k.plan) = Chosen(targets, healthy, listeners)
    BY <1>1, <1>2, <1>11 DEF CommitRoles, At, CallFits, k
  <2>2. listeners' = Chosen(targets, healthy, listeners)
    BY <1>1, <1>11, <2>1 DEF CommitRoles, k
  <2>3. Chosen(targets, healthy, listeners') = Chosen(targets, healthy, listeners)
    BY <1>2, <2>1, <2>2, Stable
  <2>4. CallFits([k EXCEPT !.pc = "publish"], targets, healthy, listeners')
    BY <1>1, <1>2, <2>1, <2>2, <2>3 DEF CallFits, Running
  <2> QED  BY <1>2, <1>11, <2>1, <2>2, <2>4, Proceeds DEF CommitRoles, redis, k
<1>12. CASE Publish(c)
  <2>1. map' = k.plan
    BY <1>1, <1>12 DEF Publish, k
  <2>2. MapFits(k.plan, targets, healthy, listeners)
    BY <1>1, <1>2, <1>12 DEF Publish, At, CallFits, MapFits, k
  <2> QED  BY <1>2, <1>4, <1>12, <2>1, <2>2, Proceeds DEF Publish
<1>13. CASE SetHash(c)
  BY <1>2, <1>3, <1>13, Proceeds DEF SetHash, redis
<1> QED  BY <1>6, <1>7, <1>8, <1>9, <1>10, <1>11, <1>12, <1>13 DEF Step

LEMMA FitsKept == TypeOK /\ Fits /\ [Next]_vars => Fits'
<1> SUFFICES ASSUME TypeOK, Fits, [Next]_vars, calm' PROVE Fits'
  BY DEF Fits
<1>1. CASE UNCHANGED vars
  BY <1>1 DEF Fits, vars, world, budget, redis
<1>2. CASE Next
  <2>1. /\ \A c \in Callers : ~Abort(c)
        /\ \A a \in Accounts : ~SetRole(a) /\ ~ChangeHealth(a)
        /\ ~Restart
    BY DEF Abort, SetRole, ChangeHealth, Restart, Fault, Change
  <2>2. PICK c \in Callers : Step(c) \/ Start(c)
    BY <1>2, <2>1 DEF Next
  <2>3. ~Fault /\ ~Change
    BY DEF Fault, Change
  <2>4. Step(c) => calm
    BY <2>3 DEF Step, ReadTargets, SetActive, Unchanged, Pick, Existing, Reads, CommitRoles,
                Publish, SetHash, budget
  <2>5. Start(c) => calm
    BY <2>3 DEF Start, StartSync, ChangeTargets, StartForce, StartCheck, ReadActive, Call, budget
  <2> QED  BY <2>2, <2>4, <2>5, FitsStep, FitsStart
<1> QED  BY <1>1, <1>2

\* Without changes and failures the accounts with the listener role are the
\* owners of the published map, however calls overlap (sync_state_to_redis,
\* ensure_assignments, force_rebalance).
THEOREM RolesFit == Spec => []RolesFitMap
<1>1. Init => Fits
  <2> SUFFICES ASSUME Init PROVE Fits
    OBVIOUS
  <2>1. targets \in SUBSET Groups
    BY DEF Init
  <2>2. \A c \in Callers : CallFits(call[c], targets, healthy, listeners)
    <3>1. CallFits(Idle, targets, healthy, listeners)
      BY DEF CallFits, Idle
    <3>2. CallFits(Begin("startup", "read"), targets, healthy, listeners)
      BY <2>1, BeginFits
    <3> QED  BY <3>1, <3>2 DEF Init
  <2> QED  BY <2>2 DEF Init, Fits, MapFits
<1>2. Fits => RolesFitMap
  BY DEF Fits, MapFits, RolesFitMap
<1> QED  BY <1>1, <1>2, TypeCorrect, FitsKept, PTL DEF Spec
=============================================================================
