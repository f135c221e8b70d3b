---------------------------- MODULE PagesProofs ----------------------------
(***************************************************************************)
(* The theorems about Pages, with what they need besides the queries and   *)
(* the forms: the widgets of the dashboard and the habits of the dialog.   *)
(* The page that is open keeps its invariant, and the others have none to  *)
(* keep.                                                                   *)
(***************************************************************************)
EXTENDS PageFormsProofs, FiniteSetTheorems, FunctionTheorems, SequenceTheorems

-----------------------------------------------------------------------------
(* Arrays of ids *)

Members(s) == {s[k] : k \in DOMAIN s}

\* x stands before y in s.
Ahead(s, x, y) == \E j, k \in DOMAIN s : j < k /\ s[j] = x /\ s[k] = y

Places(s, S) == {k \in DOMAIN s : s[k] \in S}
Rank(K, k) == Cardinality(K \cap 1..k)

\* A cardinality is the same in every module.
LEMMA SameCardinality ==
  \A S : Array!Cardinality(S) = Cardinality(S) /\ List!Cardinality(S) = Cardinality(S)
         /\ Dashboard!Cardinality(S) = Cardinality(S)
  BY DEF Array!Cardinality, List!Cardinality, Dashboard!Cardinality, Cardinality

\* The size of an interval, in one piece.
LEMMA IntervalIs ==
  ASSUME NEW a \in Int, NEW b \in Int, a <= b + 1
  PROVE  IsFiniteSet(a..b) /\ Cardinality(a..b) = b - a + 1
  <1>1. IsFiniteSet(a..b) /\ Cardinality(a..b) = IF a > b THEN 0 ELSE b - a + 1
    BY FS_Interval
  <1>2. a > b => b - a + 1 = 0
    OBVIOUS
  <1> QED BY <1>1, <1>2

\* An interval goes one to one only into one that is as long.
LEMMA NotShorter ==
  ASSUME NEW a \in Int, NEW b \in Int, a <= b + 1, NEW c \in Int, NEW d \in Int, c <= d + 1,
         NEW f \in [a..b -> c..d], \A j, k \in a..b : f[j] = f[k] => j = k
  PROVE  b - a <= d - c
  <1>1. f \in Injection(a..b, c..d)
    BY DEF Injection, IsInjective
  <1>2. Cardinality(a..b) = b - a + 1
    BY IntervalIs
  <1>3. IsFiniteSet(c..d) /\ Cardinality(c..d) = d - c + 1
    BY IntervalIs
  <1>4. Cardinality(a..b) <= Cardinality(c..d)
    BY <1>1, <1>3, FS_Injection
  <1> QED BY <1>2, <1>3, <1>4

\* As many ranks as members, and none twice: every rank is somebody's.
LEMMA EveryRank ==
  ASSUME NEW S, IsFiniteSet(S), NEW r \in [S -> 1..Cardinality(S)],
         \A x, y \in S : r[x] = r[y] => x = y
  PROVE  \A n \in 1..Cardinality(S) : \E x \in S : r[x] = n
  <1> DEFINE T == 1..Cardinality(S)
  <1>1. Cardinality(S) \in Nat
    BY FS_CardinalityType
  <1>2. IsFiniteSet(T) /\ Cardinality(T) = Cardinality(S)
    BY <1>1, FS_Interval
  <1>3. r \in Injection(S, T)
    BY DEF Injection, IsInjective
  <1>4. r \in Surjection(S, T)
    BY <1>1, <1>2, <1>3, FS_Injection
  <1> QED BY <1>4 DEF Surjection

\* The ranks of a finite set of places.
LEMMA RankIs ==
  ASSUME NEW n \in Nat, NEW K \in SUBSET (1..n)
  PROVE  /\ IsFiniteSet(K)
         /\ \A k \in K : Rank(K, k) \in 1..Cardinality(K)
         /\ \A j, k \in K : j < k => Rank(K, j) < Rank(K, k)
         /\ \A m \in 1..Cardinality(K) : \E k \in K : Rank(K, k) = m
  <1>0. IsFiniteSet(1..n)
    BY FS_Interval
  <1>1. IsFiniteSet(K) /\ Cardinality(K) \in Nat
    BY <1>0, FS_Subset, FS_CardinalityType
  <1>2. ASSUME NEW k \in K PROVE /\ IsFiniteSet(K \cap 1..k) /\ Rank(K, k) \in Nat
                                 /\ Rank(K, k) <= Cardinality(K) /\ Rank(K, k) # 0
    <2>1. K \cap 1..k \in SUBSET K /\ k \in K \cap 1..k
      OBVIOUS
    <2>2. IsFiniteSet(K \cap 1..k) /\ Cardinality(K \cap 1..k) <= Cardinality(K)
      BY <1>1, <2>1, FS_Subset
    <2>3. Cardinality(K \cap 1..k) \in Nat /\ Cardinality(K \cap 1..k) # 0
      BY <2>1, <2>2, FS_CardinalityType, FS_EmptySet
    <2> QED BY <2>2, <2>3 DEF Rank
  <1>3. ASSUME NEW j \in K, NEW k \in K, j < k PROVE Rank(K, j) < Rank(K, k)
    <2>1. K \cap 1..j \in SUBSET (K \cap 1..k) /\ k \in K \cap 1..k /\ k \notin 1..j
      BY <1>3
    <2>2. /\ Cardinality(K \cap 1..j) <= Cardinality(K \cap 1..k)
          /\ Cardinality(K \cap 1..k) # Cardinality(K \cap 1..j)
      BY <1>2, <2>1, FS_Subset
    <2> QED BY <1>2, <2>2 DEF Rank
  <1>5. ASSUME NEW k \in K PROVE Rank(K, k) \in 1..Cardinality(K)
    <2>1. Rank(K, k) \in Nat /\ Rank(K, k) <= Cardinality(K) /\ Rank(K, k) # 0
      BY <1>2
    <2> HIDE DEF Rank
    <2> QED BY <1>1, <2>1
  <1>4. \A m \in 1..Cardinality(K) : \E k \in K : Rank(K, k) = m
    <2> DEFINE r == [k \in K |-> Rank(K, k)]
    <2>1. r \in [K -> 1..Cardinality(K)]
      BY <1>5
    <2>2. \A x, y \in K : r[x] = r[y] => x = y
      <3> SUFFICES ASSUME NEW x \in K, NEW y \in K, x # y PROVE Rank(K, x) # Rank(K, y)
        OBVIOUS
      <3>1. x \in Int /\ y \in Int
        OBVIOUS
      <3>2. x < y \/ y < x
        BY <3>1
      <3>3. Rank(K, x) \in Nat /\ Rank(K, y) \in Nat
        BY <1>2
      <3>4. Rank(K, x) < Rank(K, y) \/ Rank(K, y) < Rank(K, x)
        BY <1>3, <3>2
      <3> QED BY <3>3, <3>4
    <2> HIDE DEF r
    <2>3. \A m \in 1..Cardinality(K) : \E k \in K : r[k] = m
      BY <1>1, <2>1, <2>2, EveryRank
    <2> QED BY <2>3 DEF r
  <1> QED BY <1>1, <1>3, <1>4, <1>5

\* An array without repetition has as many places as members.
LEMMA DistinctIs ==
  ASSUME NEW s, Array!Distinct(s)
  PROVE  /\ s \in Seq(Members(s)) /\ Len(s) \in Nat /\ DOMAIN s = 1..Len(s)
         /\ s = [k \in 1..Len(s) |-> s[k]]
         /\ \A j, k \in DOMAIN s : s[j] = s[k] => j = k
         /\ Cardinality(Members(s)) = Len(s) /\ IsFiniteSet(Members(s))
  <1>1. s \in Seq(Members(s)) /\ \A j, k \in DOMAIN s : s[j] = s[k] => j = k
    BY DEF Array!Distinct, Members
  <1>2. Len(s) \in Nat /\ s \in [1..Len(s) -> Members(s)] /\ DOMAIN s = 1..Len(s)
    BY <1>1, LenProperties
  <1>3. s \in Surjection(1..Len(s), Members(s)) /\ s \in Injection(1..Len(s), Members(s))
    BY <1>1, <1>2 DEF Surjection, Injection, IsInjective, Members
  <1>4. IsFiniteSet(1..Len(s)) /\ Cardinality(1..Len(s)) = Len(s)
    BY <1>2, FS_Interval
  <1>5. Cardinality(Members(s)) = Len(s) /\ IsFiniteSet(Members(s))
    BY <1>3, <1>4, FS_Surjection
  <1> QED BY <1>1, <1>2, <1>5

\* A function on places, without repetition, is such an array.
LEMMA IsDistinct ==
  ASSUME NEW n \in Nat, NEW s, s = [k \in 1..n |-> s[k]],
         \A j, k \in 1..n : s[j] = s[k] => j = k
  PROVE  Array!Distinct(s) /\ Len(s) = n /\ DOMAIN s = 1..n
  <1>1. DOMAIN s = 1..n /\ s \in [1..n -> Members(s)]
    BY DEF Members
  <1>2. s \in Seq(Members(s)) /\ Len(s) = n
    BY <1>1
  <1> QED BY <1>1, <1>2 DEF Array!Distinct, Members

\* Of two members one stands before the other, and not the other way round.
LEMMA AheadIs ==
  ASSUME NEW s, Array!Distinct(s), NEW x \in Members(s), NEW y \in Members(s), x # y
  PROVE  (Ahead(s, x, y) \/ Ahead(s, y, x)) /\ ~ (Ahead(s, x, y) /\ Ahead(s, y, x))
  <1>1. PICK j \in DOMAIN s, k \in DOMAIN s : s[j] = x /\ s[k] = y
    BY DEF Members
  <1>2. DOMAIN s = 1..Len(s) /\ Len(s) \in Nat /\ \A a, b \in DOMAIN s : s[a] = s[b] => a = b
    BY DistinctIs
  <1>3. j \in Int /\ k \in Int /\ j # k
    BY <1>1, <1>2
  <1>4. j < k \/ k < j
    BY <1>3
  <1>5. Ahead(s, x, y) => j < k
    BY <1>1, <1>2 DEF Ahead
  <1>6. Ahead(s, y, x) => k < j
    BY <1>1, <1>2 DEF Ahead
  <1> QED BY <1>1, <1>3, <1>4, <1>5, <1>6 DEF Ahead

\* f has what s has of S, in the order of s.
Filtered(f, s, S) ==
  /\ Array!Distinct(f)
  /\ Members(f) = Members(s) \cap S
  /\ \A x, y \in S : Ahead(s, x, y) <=> Ahead(f, x, y)
  /\ \A x, y : Ahead(f, x, y) => x \in S /\ y \in S

\* The n-th of a filter is the one of rank n among those that are kept.
LEMMA RanksFilter ==
  ASSUME NEW s, Array!Distinct(s), NEW S, NEW f,
         f = [n \in 1..Cardinality(Places(s, S)) |-> f[n]],
         \A n \in 1..Cardinality(Places(s, S)) :
           \E k \in Places(s, S) : Rank(Places(s, S), k) = n /\ f[n] = s[k]
  PROVE  Filtered(f, s, S)
  <1> DEFINE K == Places(s, S)
             at == [n \in 1..Cardinality(K) |-> CHOOSE k \in K : Rank(K, k) = n /\ f[n] = s[k]]
  <1>1. /\ Len(s) \in Nat /\ DOMAIN s = 1..Len(s)
        /\ \A j, k \in DOMAIN s : s[j] = s[k] => j = k
    BY DistinctIs
  <1>2. K \in SUBSET (1..Len(s)) /\ \A k \in 1..Len(s) : k \in K <=> s[k] \in S
    BY <1>1 DEF Places
  <1>3. /\ f = [n \in 1..Cardinality(K) |-> f[n]]
        /\ \A n \in 1..Cardinality(K) : \E k \in K : Rank(K, k) = n /\ f[n] = s[k]
    OBVIOUS
  <1> HIDE DEF K
  <1>4. /\ IsFiniteSet(K) /\ \A k \in K : Rank(K, k) \in 1..Cardinality(K)
        /\ \A j, k \in K : j < k => Rank(K, j) < Rank(K, k)
    BY <1>1, <1>2, RankIs
  <1>5. ASSUME NEW n \in 1..Cardinality(K) PROVE at[n] \in K /\ Rank(K, at[n]) = n /\ f[n] = s[at[n]]
    BY <1>3
  <1> HIDE DEF at
  <1>6. ASSUME NEW k \in K PROVE at[Rank(K, k)] = k
    <2> DEFINE j == at[Rank(K, k)]
    <2>0. Rank(K, k) \in 1..Cardinality(K)
      BY <1>4
    <2>1. j \in K /\ Rank(K, j) = Rank(K, k)
      BY <2>0, <1>5
    <2> HIDE DEF j
    <2>2. j \in Int /\ k \in Int
      BY <1>1, <1>2, <2>1
    <2>3. Rank(K, k) \in Int
      BY <2>0
    <2>4. ~ (j < k) /\ ~ (k < j)
      BY <1>4, <2>1, <2>3
    <2>5. j = k
      BY <2>2, <2>4
    <2> QED BY <2>5 DEF j
  <1>7. Cardinality(K) \in Nat
    BY <1>4, FS_CardinalityType
  <1>8. Array!Distinct(f) /\ DOMAIN f = 1..Cardinality(K)
    <2>2. ASSUME NEW m \in 1..Cardinality(K), NEW n \in 1..Cardinality(K), f[m] = f[n] PROVE m = n
      <3>1. at[m] \in K /\ at[n] \in K /\ s[at[m]] = s[at[n]]
        BY <1>5, <2>2
      <3>2. at[m] = at[n]
        BY <1>1, <1>2, <3>1
      <3> QED BY <1>5, <3>2
    <2> QED BY <1>3, <1>7, <2>2, IsDistinct
  <1>9. Members(f) = Members(s) \cap S
    <2>1. ASSUME NEW x \in Members(f) PROVE x \in Members(s) \cap S
      <3>1. PICK n \in 1..Cardinality(K) : x = f[n]
        BY <1>8 DEF Members
      <3> QED BY <1>1, <1>2, <1>5, <3>1 DEF Members
    <2>2. ASSUME NEW x \in Members(s) \cap S PROVE x \in Members(f)
      <3>1. PICK k \in K : x = s[k]
        BY <1>1, <1>2 DEF Members
      <3>2. Rank(K, k) \in 1..Cardinality(K) /\ f[Rank(K, k)] = x
        BY <1>4, <1>5, <1>6, <3>1
      <3> QED BY <1>8, <3>2 DEF Members
    <2> QED BY <2>1, <2>2
  <1>10. ASSUME NEW x \in S, NEW y \in S, Ahead(s, x, y) PROVE Ahead(f, x, y)
    <2>1. PICK j \in DOMAIN s, k \in DOMAIN s : j < k /\ s[j] = x /\ s[k] = y
      BY <1>10 DEF Ahead
    <2>2. j \in K /\ k \in K
      BY <1>1, <1>2, <2>1
    <2>3. /\ Rank(K, j) < Rank(K, k) /\ f[Rank(K, j)] = x /\ f[Rank(K, k)] = y
          /\ Rank(K, j) \in DOMAIN f /\ Rank(K, k) \in DOMAIN f
      BY <1>4, <1>5, <1>6, <1>8, <2>1, <2>2
    <2> QED BY <2>3 DEF Ahead
  <1>11. ASSUME NEW x, NEW y, Ahead(f, x, y) PROVE x \in S /\ y \in S /\ Ahead(s, x, y)
    <2>1. PICK m \in 1..Cardinality(K), n \in 1..Cardinality(K) : m < n /\ f[m] = x /\ f[n] = y
      BY <1>8, <1>11 DEF Ahead
    <2>2. /\ at[m] \in K /\ Rank(K, at[m]) = m /\ s[at[m]] = x
          /\ at[n] \in K /\ Rank(K, at[n]) = n /\ s[at[n]] = y
      BY <1>5, <2>1
    <2>6. at[m] \in 1..Len(s) /\ at[n] \in 1..Len(s)
      BY <1>2, <2>2
    <2>3. at[m] \in Int /\ at[n] \in Int
      BY <1>1, <2>6
    <2>4. at[m] # at[n] /\ ~ (at[n] < at[m])
      BY <1>4, <2>1, <2>2
    <2>5. at[m] < at[n]
      BY <2>3, <2>4
    <2> QED BY <1>1, <1>2, <2>2, <2>5 DEF Ahead
  <1> QED BY <1>8, <1>9, <1>10, <1>11 DEF Filtered

\* What is filtered are the ids of the set, in their order.
LEMMA FilterIs ==
  ASSUME NEW s, Array!Distinct(s), NEW S
  PROVE  Filtered(Dashboard!Filter(s, S), s, S) /\ Filtered(List!Filter(s, S), s, S)
  <1> DEFINE K == Places(s, S)
             atD == [n \in 1..Dashboard!Cardinality(K) |->
                       CHOOSE k \in K : Dashboard!Cardinality(K \cap 1..k) = n]
             atL == [n \in 1..List!Cardinality(K) |-> CHOOSE k \in K : List!Cardinality(K \cap 1..k) = n]
  <1>1. Len(s) \in Nat /\ DOMAIN s = 1..Len(s)
    BY DistinctIs
  <1>2. K \in SUBSET (1..Len(s))
    BY <1>1 DEF Places
  <1>3. Dashboard!Filter(s, S) = [n \in 1..Dashboard!Cardinality(K) |-> s[atD[n]]]
    BY DEF Dashboard!Filter, Places
  <1>4. List!Filter(s, S) = [n \in 1..List!Cardinality(K) |-> s[atL[n]]]
    BY DEF List!Filter, Places
  <1> HIDE DEF K
  <1>5. \A n \in 1..Cardinality(K) : \E k \in K : Rank(K, k) = n
    BY <1>1, <1>2, RankIs
  <1>6. \A n \in 1..Cardinality(K) : atD[n] \in K /\ Rank(K, atD[n]) = n
    BY <1>5, SameCardinality DEF Rank
  <1>7. \A n \in 1..Cardinality(K) : atL[n] \in K /\ Rank(K, atL[n]) = n
    BY <1>5, SameCardinality DEF Rank
  <1> HIDE DEF atD, atL
  <1>8. Dashboard!Filter(s, S) = [n \in 1..Cardinality(K) |-> s[atD[n]]]
    BY <1>3, SameCardinality
  <1>9. List!Filter(s, S) = [n \in 1..Cardinality(K) |-> s[atL[n]]]
    BY <1>4, SameCardinality
  <1>10. ASSUME NEW f, NEW at, \A n \in 1..Cardinality(K) : at[n] \in K /\ Rank(K, at[n]) = n,
                f = [n \in 1..Cardinality(K) |-> s[at[n]]]
         PROVE  Filtered(f, s, S)
    <2>1. f = [n \in 1..Cardinality(K) |-> f[n]]
      BY <1>10
    <2>2. \A n \in 1..Cardinality(K) : \E k \in K : Rank(K, k) = n /\ f[n] = s[k]
      BY <1>10
    <2> QED BY <2>1, <2>2, RanksFilter DEF K
  <1>11. Filtered(Dashboard!Filter(s, S), s, S)
    BY <1>6, <1>8, <1>10
  <1>12. Filtered(List!Filter(s, S), s, S)
    BY <1>7, <1>9, <1>10
  <1> QED BY <1>11, <1>12

\* A move rearranges the ids.
LEMMA MoveIs ==
  ASSUME NEW s, Array!Distinct(s), NEW from \in DOMAIN s, NEW to \in DOMAIN s
  PROVE  /\ Array!Distinct(Array!ArrayMove(s, from, to))
         /\ Members(Array!ArrayMove(s, from, to)) = Members(s)
  <1> DEFINE n == Len(s)
             p(k) == IF k = to THEN from
                     ELSE IF k \in from..(to - 1) THEN k + 1
                     ELSE IF k \in (to + 1)..from THEN k - 1 ELSE k
             t == Array!ArrayMove(s, from, to)
  <1>1. /\ n \in Nat /\ DOMAIN s = 1..n
        /\ \A j, k \in DOMAIN s : s[j] = s[k] => j = k
    BY DistinctIs
  <1>2. t = [k \in 1..n |-> s[p(k)]]
    BY <1>1 DEF Array!ArrayMove
  <1>3. \A k \in 1..n : p(k) \in 1..n
    BY <1>1
  <1>4. \A j, k \in 1..n : p(j) = p(k) => j = k
    BY <1>1
  <1>5. ASSUME NEW k \in 1..n PROVE \E j \in 1..n : p(j) = k
    <2> DEFINE j == IF k = from THEN to
                    ELSE IF k \in (from + 1)..to THEN k - 1
                    ELSE IF k \in to..(from - 1) THEN k + 1 ELSE k
    <2>1. j \in 1..n /\ p(j) = k
      BY <1>1
    <2> QED BY <2>1
  <1> HIDE DEF n, p, t
  <1>6. Array!Distinct(t) /\ DOMAIN t = 1..n
    <2>1. t = [k \in 1..n |-> t[k]]
      BY <1>2
    <2>2. \A j, k \in 1..n : t[j] = t[k] => j = k
      BY <1>1, <1>2, <1>3, <1>4
    <2> QED BY <1>1, <2>1, <2>2, IsDistinct
  <1>7. Members(t) = Members(s)
    <2>1. ASSUME NEW x \in Members(t) PROVE x \in Members(s)
      BY <1>1, <1>2, <1>3, <1>6 DEF Members
    <2>2. ASSUME NEW x \in Members(s) PROVE x \in Members(t)
      <3>1. PICK k \in 1..n : x = s[k]
        BY <1>1 DEF Members
      <3>2. PICK j \in 1..n : p(j) = k
        BY <1>5
      <3> QED BY <1>2, <1>6, <3>1, <3>2 DEF Members
    <2> QED BY <2>1, <2>2
  <1> QED BY <1>6, <1>7 DEF t

\* Two arrays that share no id, one after the other.
LEMMA ConcatIs ==
  ASSUME NEW s, Array!Distinct(s), NEW t, Array!Distinct(t), Members(s) \cap Members(t) = {}
  PROVE  /\ Array!Distinct(s \o t)
         /\ Members(s \o t) = Members(s) \cup Members(t)
         /\ \A x, y : Ahead(s, x, y) => Ahead(s \o t, x, y)
  <1> DEFINE S == Members(s) \cup Members(t)
             u == s \o t
  <1>1. /\ Len(s) \in Nat /\ DOMAIN s = 1..Len(s) /\ Len(t) \in Nat /\ DOMAIN t = 1..Len(t)
        /\ \A j, k \in DOMAIN s : s[j] = s[k] => j = k
        /\ \A j, k \in DOMAIN t : t[j] = t[k] => j = k
        /\ s \in Seq(Members(s)) /\ t \in Seq(Members(t))
    BY DistinctIs
  <1>2. s \in Seq(S) /\ t \in Seq(S)
    BY <1>1
  <1>3. /\ u \in Seq(S) /\ Len(u) = Len(s) + Len(t)
        /\ \A i \in 1..(Len(s) + Len(t)) : u[i] = IF i <= Len(s) THEN s[i] ELSE t[i - Len(s)]
    BY <1>2, ConcatProperties
  <1> HIDE DEF u
  <1>4. DOMAIN u = 1..(Len(s) + Len(t)) /\ u = [i \in 1..(Len(s) + Len(t)) |-> u[i]]
    <2>1. u \in [1..Len(u) -> S] /\ DOMAIN u = 1..Len(u)
      BY <1>3, LenProperties
    <2> QED BY <2>1, <1>3
  <1>5. /\ \A i \in 1..Len(s) : u[i] = s[i] /\ i \in DOMAIN u
        /\ \A i \in 1..Len(t) : u[Len(s) + i] = t[i] /\ Len(s) + i \in DOMAIN u
    BY <1>1, <1>3, <1>4
  <1>6. \A i \in DOMAIN u : i \in 1..Len(s) \/ (i - Len(s) \in 1..Len(t) /\ i = Len(s) + (i - Len(s)))
    BY <1>1, <1>4
  <1>7. Array!Distinct(u)
    <2>1. ASSUME NEW i \in DOMAIN u, NEW j \in DOMAIN u, u[i] = u[j] PROVE i = j
      <3>1. CASE i \in 1..Len(s) /\ j \in 1..Len(s)
        BY <1>1, <1>5, <2>1, <3>1
      <3>2. CASE i \notin 1..Len(s) /\ j \notin 1..Len(s)
        <4>1. i - Len(s) \in DOMAIN t /\ j - Len(s) \in DOMAIN t
          BY <1>1, <1>6, <3>2
        <4>2. t[i - Len(s)] = t[j - Len(s)]
          BY <1>3, <1>4, <2>1, <3>2, <1>1
        <4>3. i - Len(s) = j - Len(s)
          BY <1>1, <4>1, <4>2
        <4> QED BY <1>1, <1>4, <4>3
      <3>3. CASE i \in 1..Len(s) /\ j \notin 1..Len(s)
        <4>1. u[i] \in Members(s)
          BY <1>1, <1>5, <3>3 DEF Members
        <4>2. u[j] \in Members(t)
          BY <1>1, <1>5, <1>6, <3>3 DEF Members
        <4> QED BY <2>1, <4>1, <4>2
      <3>4. CASE i \notin 1..Len(s) /\ j \in 1..Len(s)
        <4>1. u[j] \in Members(s)
          BY <1>1, <1>5, <3>4 DEF Members
        <4>2. u[i] \in Members(t)
          BY <1>1, <1>5, <1>6, <3>4 DEF Members
        <4> QED BY <2>1, <4>1, <4>2
      <3> QED BY <3>1, <3>2, <3>3, <3>4
    <2>2. Len(s) + Len(t) \in Nat
      BY <1>1
    <2> QED BY <1>4, <2>1, <2>2, IsDistinct
  <1>8. Members(u) = S
    <2>1. ASSUME NEW x \in Members(u) PROVE x \in S
      BY <1>1, <1>5, <1>6 DEF Members
    <2>2. ASSUME NEW x \in S PROVE x \in Members(u)
      BY <1>1, <1>5 DEF Members
    <2> QED BY <2>1, <2>2
  <1>9. ASSUME NEW x, NEW y, Ahead(s, x, y) PROVE Ahead(u, x, y)
    BY <1>1, <1>5, <1>9 DEF Ahead
  <1> QED BY <1>7, <1>8, <1>9 DEF u

\* Arrays of the same ids in the same order are the same.
LEMMA SameOrder ==
  ASSUME NEW s, Array!Distinct(s), NEW t, Array!Distinct(t), Members(s) = Members(t),
         \A x, y : Ahead(s, x, y) => Ahead(t, x, y)
  PROVE  s = t
  <1> DEFINE n == Len(s)
  <1>1. /\ n \in Nat /\ DOMAIN s = 1..n /\ s = [k \in 1..n |-> s[k]]
        /\ \A j, k \in DOMAIN s : s[j] = s[k] => j = k
    BY DistinctIs
  <1>2. /\ Len(t) = n /\ DOMAIN t = 1..n /\ t = [k \in 1..n |-> t[k]]
        /\ \A j, k \in DOMAIN t : t[j] = t[k] => j = k
    BY DistinctIs
  <1> HIDE DEF n
  \* Where the k-th of s stands in t.
  <1> DEFINE p == [k \in 1..n |-> CHOOSE j \in 1..n : t[j] = s[k]]
  <1>3. \A k \in 1..n : p[k] \in 1..n /\ t[p[k]] = s[k]
    <2>1. ASSUME NEW k \in 1..n PROVE \E j \in 1..n : t[j] = s[k]
      <3>1. s[k] \in Members(t)
        BY <1>1 DEF Members
      <3> QED BY <1>2, <3>1 DEF Members
    <2> QED BY <2>1
  <1> HIDE DEF p
  <1>4. ASSUME NEW j \in 1..n, NEW k \in 1..n, j < k PROVE p[j] < p[k]
    <2>1. Ahead(s, s[j], s[k])
      BY <1>1, <1>4 DEF Ahead
    <2>2. PICK i \in DOMAIN t, m \in DOMAIN t : i < m /\ t[i] = s[j] /\ t[m] = s[k]
      BY <2>1 DEF Ahead
    <2>3. p[j] \in DOMAIN t /\ t[p[j]] = s[j] /\ p[k] \in DOMAIN t /\ t[p[k]] = s[k]
      BY <1>2, <1>3
    <2>4. i = p[j]
      BY <1>2, <2>2, <2>3
    <2>5. m = p[k]
      BY <1>2, <2>2, <2>3
    <2> QED BY <2>2, <2>4, <2>5
  \* p goes up from 1..n to 1..n, so it is the identity.
  <1>5. ASSUME NEW k \in 1..n PROVE p[k] = k
    <2>1. p[k] \in 1..n /\ p[k] \in Int /\ k \in Int
      BY <1>1, <1>3
    <2> DEFINE q == p[k]
    <2>2. \A j \in 1..k : j \in 1..n /\ p[j] \in 1..q
      BY <1>1, <1>3, <1>4, <2>1
    <2>3. \A j \in k..n : j \in 1..n /\ p[j] \in q..n
      BY <1>1, <1>3, <1>4, <2>1
    <2>4. \A i, j \in 1..n : p[i] = p[j] => i = j
      BY <1>1, <1>3, <1>4
    <2>5. q \in Int /\ k \in Int /\ n \in Int /\ 1 <= q /\ q <= n /\ 1 <= k /\ k <= n
      BY <1>1, <2>1
    <2> HIDE DEF q
    <2>6. k <= q
      <3> DEFINE low == [j \in 1..k |-> p[j]]
      <3>1. low \in [1..k -> 1..q] /\ \A i, j \in 1..k : low[i] = low[j] => i = j
        BY <2>2, <2>4
      <3> HIDE DEF low
      <3>2. 1 \in Int /\ 1 <= k + 1 /\ 1 <= q + 1
        BY <2>5
      <3>3. k - 1 <= q - 1
        BY <2>5, <3>1, <3>2, NotShorter, ZenonT(30)
      <3> QED BY <2>5, <3>3
    <2>7. q <= k
      <3> DEFINE high == [j \in k..n |-> p[j]]
      <3>1. high \in [k..n -> q..n] /\ \A i, j \in k..n : high[i] = high[j] => i = j
        BY <2>3, <2>4
      <3> HIDE DEF high
      <3>2. k <= n + 1 /\ q <= n + 1
        BY <2>5
      <3>3. n - k <= n - q
        BY <2>5, <3>1, <3>2, NotShorter, ZenonT(30)
      <3> QED BY <2>5, <3>3
    <2>8. q = k
      BY <2>5, <2>6, <2>7
    <2> QED BY <2>8 DEF q
  <1>6. \A k \in 1..n : s[k] = t[k]
    BY <1>3, <1>5
  <1> QED BY <1>1, <1>2, <1>6

-----------------------------------------------------------------------------
(* The widgets of the dashboard *)

\* An order that has every widget once.
Complete(order) == Array!Distinct(order) /\ Members(order) = Dashboard!Known

\* What is stored or fetched may be an earlier version's, but has no id twice;
\* what is rearranged or sent is complete.
WidgetsInv ==
  /\ view = [customizing |-> view.customizing, dragId |-> view.dragId,
             currentOrder |-> view.currentOrder]
  /\ view.dragId \in Dashboard!Known \cup {Dashboard!None} /\ Complete(view.currentOrder)
  /\ Array!Distinct(db) /\ Array!Distinct(query.data) /\ Array!Distinct(query.reply)
  /\ \A i \in Slots :
       net[i] = Q!Free \/ ("layout" \in DOMAIN net[i] /\ Complete(net[i].layout))

\* What the dashboard computes of arrays.
LEMMA DashboardArrays ==
  /\ \A s : Dashboard!ToSet(s) = Members(s)
  /\ \A s, j, k : Dashboard!ArrayMove(s, j, k) = Array!ArrayMove(s, j, k)
  /\ \A s, x : x \in Members(s) => Dashboard!IndexOf(s, x) \in DOMAIN s
  BY DEF Dashboard!ToSet, Members, Dashboard!ArrayMove, Array!ArrayMove, Dashboard!IndexOf

\* The registry has every widget once.
LEMMA RegistryIs == Complete(Registry)
  BY LayoutsAssumption, DashboardArrays DEF Complete, Dashboard!Known

\* What is stored is completed with the widgets it lacks.
LEMMA OrderIs ==
  ASSUME NEW layout, Array!Distinct(layout)
  PROVE  Complete(Dashboard!OrderOf(layout))
  <1> DEFINE known == Dashboard!Filter(layout, Dashboard!Known)
             missing == Dashboard!Filter(Registry, Dashboard!Known \ Members(known))
  <1>1. Dashboard!OrderOf(layout) = known \o missing
    BY DashboardArrays DEF Dashboard!OrderOf
  <1>2. Array!Distinct(known) /\ Members(known) = Members(layout) \cap Dashboard!Known
    BY FilterIs DEF Filtered
  <1> HIDE DEF known
  <1>3. /\ Array!Distinct(missing)
        /\ Members(missing) = Members(Registry) \cap (Dashboard!Known \ Members(known))
    BY RegistryIs, FilterIs DEF Filtered, Complete
  <1> HIDE DEF missing
  <1>4. Members(known) \cap Members(missing) = {}
    BY <1>3
  <1>5. /\ Array!Distinct(known \o missing)
        /\ Members(known \o missing) = Members(known) \cup Members(missing)
    BY <1>2, <1>3, <1>4, ConcatIs
  <1>6. Members(known) \cup Members(missing) = Dashboard!Known
    BY <1>2, <1>3, RegistryIs DEF Complete
  <1> QED BY <1>1, <1>5, <1>6 DEF Complete

\* A widget dropped on another is moved there, and none is lost.
LEMMA MovedIs ==
  ASSUME NEW order, Complete(order), NEW id \in Dashboard!Known, NEW target \in Dashboard!Known
  PROVE  Complete(Dashboard!Moved(order, id, target))
  <1>1. Dashboard!IndexOf(order, id) \in DOMAIN order /\ Dashboard!IndexOf(order, target) \in DOMAIN order
    BY DashboardArrays DEF Complete
  <1>2. Dashboard!Moved(order, id, target) =
          Array!ArrayMove(order, Dashboard!IndexOf(order, id), Dashboard!IndexOf(order, target))
    BY DashboardArrays DEF Dashboard!Moved
  <1> QED BY <1>1, <1>2, MoveIs DEF Complete

\* The dashboard opens with the registry, and a stored layout.
LEMMA WidgetsInit == Dashboard!Init => WidgetsInv
  <1> SUFFICES ASSUME Dashboard!Init PROVE WidgetsInv
    OBVIOUS
  <1>1. net = [i \in Slots |-> Q!Free] /\ query = Q!Opened(<<>>)
    BY DashboardQuery DEF Dashboard!Init
  <1>2. Array!Distinct(<<>>)
    BY DEF Array!Distinct
  <1>3. query.data = <<>> /\ query.reply = <<>>
    BY <1>1 DEF Q!Opened
  <1>4. db \in Layouts
    BY DEF Dashboard!Init
  <1>5. view = [customizing |-> FALSE, dragId |-> Dashboard!None, currentOrder |-> Registry]
    BY DEF Dashboard!Init
  <1> QED BY <1>1, <1>2, <1>3, <1>4, <1>5, LayoutsAssumption, RegistryIs DEF WidgetsInv

\* No step loses or doubles a widget.
LEMMA WidgetsStep == DashboardInv /\ WidgetsInv /\ [Dashboard!Next]_vars => WidgetsInv'
  <1> SUFFICES ASSUME DashboardInv, WidgetsInv, [Dashboard!Next]_vars PROVE WidgetsInv'
    OBVIOUS
  <1> USE DEF WidgetsInv
  <1>0. IsNet(net) /\ \A i \in Slots : net[i] = Q!Free \/ net[i].op = "save"
    BY DEF DashboardInv
  <1>1. CASE UNCHANGED vars
    BY <1>1 DEF vars
  <1>2. CASE Dashboard!StartCustomizing \/ Dashboard!Cancel
    <2>1. Complete(Dashboard!Order)
      BY OrderIs DEF Dashboard!Order
    <2>2. \/ view' = [view EXCEPT !.customizing = TRUE, !.currentOrder = Dashboard!Order]
          \/ view' = [view EXCEPT !.customizing = FALSE, !.currentOrder = Dashboard!Order]
      BY Zenon, <1>2 DEF Dashboard!StartCustomizing, Dashboard!Cancel
    <2>3. UNCHANGED <<db, query, net>>
      BY <1>2 DEF Dashboard!StartCustomizing, Dashboard!Cancel
    <2> QED BY <2>1, <2>2, <2>3
  <1>3. ASSUME NEW id \in Dashboard!Known, Dashboard!DragStart(id) PROVE WidgetsInv'
    BY <1>3 DEF Dashboard!DragStart
  <1>4. ASSUME NEW target \in Dashboard!Known, Dashboard!Drop(target) PROVE WidgetsInv'
    <2> DEFINE next == Dashboard!Moved(view.currentOrder, view.dragId, target)
    <2>1. view.dragId \in Dashboard!Known
      BY <1>4 DEF Dashboard!Drop
    <2>2. Complete(next)
      BY <2>1, MovedIs
    <2> HIDE DEF next
    <2>3. /\ view' = [view EXCEPT !.currentOrder = next, !.dragId = Dashboard!None]
          /\ UNCHANGED <<db, query, net>>
      BY <1>4 DEF Dashboard!Drop, next
    <2> QED BY <2>2, <2>3
  <1>5. CASE Dashboard!Save
    <2> DEFINE r == [op |-> "save", stage |-> "sent", layout |-> view.currentOrder]
    <2>1. net' = Q!Send(net, r) /\ UNCHANGED <<db, view, query>>
      BY <1>5, DashboardQuery DEF Dashboard!Save
    <2>2. IsRequest(r) /\ "layout" \in DOMAIN r /\ Complete(r.layout)
      BY DEF IsRequest
    <2> HIDE DEF r
    <2>3. \A i \in Slots : net[i] = Q!Free
      BY <1>0, <1>5 DEF Dashboard!Save, Dashboard!Pending, IsNet
    <2>4. Q!FreeSlots(net) # {}
      BY <1>0, <2>3, SlotsAssumption DEF Q!FreeSlots, IsNet
    <2>5. PICK i \in Slots : net'[i] = r /\ \A j \in Slots \ {i} : net'[j] = net[j]
      BY <1>0, <2>1, <2>2, <2>4, SendIs
    <2> QED BY <2>1, <2>2, <2>5
  <1>6. ASSUME NEW i \in Slots, Dashboard!ServeSave(i) PROVE WidgetsInv'
    <2>1. net[i] # Q!Free
      BY <1>6, FreeIs DEF Dashboard!ServeSave
    <2>2. PICK stage : net' = Staged(net, i, stage)
      BY <1>6 DEF Dashboard!ServeSave, Staged
    <2>3. /\ "layout" \in DOMAIN net[i] /\ "layout" # "stage" /\ Complete(net[i].layout)
      BY <2>1
    <2>4. /\ "layout" \in DOMAIN net'[i] /\ net'[i].layout = net[i].layout
          /\ \A j \in Slots \ {i} : net'[j] = net[j]
      BY <1>0, <2>2, <2>3, StageIs
    <2>5. db' \in {db, net[i].layout} /\ UNCHANGED <<view, query>>
      BY <1>6 DEF Dashboard!ServeSave
    <2> QED BY <2>3, <2>4, <2>5 DEF Complete
  <1>7. ASSUME NEW i \in Slots, Dashboard!SaveAccepted(i) PROVE WidgetsInv'
    <2>1. net[i] # Q!Free
      BY <1>7, FreeIs DEF Dashboard!SaveAccepted
    <2>2. net' = Staged(net, i, "refetching")
      BY <1>7 DEF Dashboard!SaveAccepted, Staged
    <2>3. /\ "layout" \in DOMAIN net[i] /\ "layout" # "stage" /\ Complete(net[i].layout)
      BY <2>1
    <2>4. /\ "layout" \in DOMAIN net'[i] /\ net'[i].layout = net[i].layout
          /\ \A j \in Slots \ {i} : net'[j] = net[j]
      BY <1>0, <2>2, <2>3, StageIs
    <2>5. query' = Q!Invalidate(query, TRUE) /\ UNCHANGED <<db, view>>
      BY <1>7, DashboardQuery DEF Dashboard!SaveAccepted
    <2>6. query'.data = query.data /\ query'.reply \in {query.data, query.reply}
      BY <2>5 DEF Q!Invalidate, Q!FetchAgain, DashboardInv, IsQuery
    <2> QED BY <2>3, <2>4, <2>5, <2>6
  <1>8. ASSUME NEW i \in Slots, Dashboard!SaveRefused(i) PROVE WidgetsInv'
    <2>1. net' = Q!Settle(net, i) /\ UNCHANGED <<db, view, query>>
      BY <1>8, DashboardQuery DEF Dashboard!SaveRefused
    <2>2. net'[i] = Q!Free /\ \A j \in Slots \ {i} : net'[j] = net[j]
      BY <1>0, <2>1, SettleIs
    <2> QED BY <2>1, <2>2
  <1>9. CASE Dashboard!ServeQuery
    <2>1. query' = Q!Serve(query, db) /\ UNCHANGED <<db, view, net>>
      BY <1>9, DashboardQuery DEF Dashboard!ServeQuery
    <2>2. query'.data = query.data /\ query'.reply = db
      BY <2>1, ServeIs DEF DashboardInv
    <2> QED BY <2>1, <2>2
  <1>10. ASSUME NEW q, Dashboard!Fetched(q), Array!Distinct(q.data), Array!Distinct(q.reply)
         PROVE  WidgetsInv'
    <2>1. /\ query' = q /\ UNCHANGED db
          /\ net' = [i \in Slots |-> IF net[i].stage = "refetching" THEN Q!Free ELSE net[i]]
          /\ view' = view \/ view' = [view EXCEPT !.customizing = FALSE]
      BY <1>10, DashboardQuery DEF Dashboard!Fetched
    <2>2. \A i \in Slots : net'[i] \in {Q!Free, net[i]}
      BY <2>1
    <2>3. /\ view' = [customizing |-> view'.customizing, dragId |-> view'.dragId,
                      currentOrder |-> view'.currentOrder]
          /\ view'.dragId = view.dragId /\ view'.currentOrder = view.currentOrder
      BY <2>1
    <2> QED BY <1>10, <2>1, <2>2, <2>3
  <1>11. CASE Dashboard!LandQuery
    <2>1. Dashboard!Fetched(Q!Land(query))
      BY <1>11, DashboardQuery DEF Dashboard!LandQuery
    <2>2. Q!Land(query).data = query.reply /\ Q!Land(query).reply = query.reply
      BY DEF Q!Land, DashboardInv, IsQuery
    <2> QED BY <1>10, <2>1, <2>2
  <1>12. CASE Dashboard!FailQuery
    <2>1. Dashboard!Fetched(Q!FetchFails(query))
      BY <1>12, DashboardQuery DEF Dashboard!FailQuery
    <2>2. Q!FetchFails(query).data = query.data /\ Q!FetchFails(query).reply = query.data
      BY DEF Q!FetchFails, DashboardInv, IsQuery
    <2> QED BY <1>10, <2>1, <2>2
  <1>13. ASSUME NEW i \in Slots, Dashboard!Lose(i) PROVE WidgetsInv'
    <2>1. /\ Q!Losable(net, i) /\ net' = Q!Lost(net, i) /\ query' = Q!AfterLoss(net, i, query)
          /\ UNCHANGED <<db, view>>
      BY <1>13, DashboardQuery DEF Dashboard!Lose
    <2>2. net' = Staged(net, i, "failed") /\ net[i] # Q!Free
      BY <2>1, FreeIs DEF Q!Lost, Q!Losable, Staged
    <2>3. /\ "layout" \in DOMAIN net[i] /\ "layout" # "stage" /\ Complete(net[i].layout)
      BY <2>2
    <2>4. /\ "layout" \in DOMAIN net'[i] /\ net'[i].layout = net[i].layout
          /\ \A j \in Slots \ {i} : net'[j] = net[j]
      BY <1>0, <2>2, <2>3, StageIs
    <2>5. query'.data = query.data /\ query'.reply = query.reply
      BY <1>0, <2>1, LoseNone DEF DashboardInv
    <2> QED BY <2>1, <2>3, <2>4, <2>5
  <1> QED BY <1>1, <1>2, <1>3, <1>4, <1>5, <1>6, <1>7, <1>8, <1>9, <1>11, <1>12, <1>13 DEF Dashboard!Next

\* A complete order is as long as the registry.
LEMMA CompleteIs ==
  ASSUME NEW order, Complete(order)
  PROVE  Dashboard!ToSet(order) = Dashboard!Known /\ Len(order) = Len(Registry)
  <1>1. Cardinality(Members(order)) = Len(order) /\ Cardinality(Members(Registry)) = Len(Registry)
    BY RegistryIs, DistinctIs DEF Complete
  <1> QED BY <1>1, RegistryIs, DashboardArrays DEF Complete

\* What is shown and what is sent is complete.
LEMMA WidgetsOnce == WidgetsInv => Dashboard!EveryWidgetOnce
  <1> SUFFICES ASSUME WidgetsInv PROVE Dashboard!EveryWidgetOnce
    OBVIOUS
  <1>1. Complete(Dashboard!DisplayOrder)
    BY OrderIs DEF WidgetsInv, Dashboard!DisplayOrder, Dashboard!Order
  <1>2. \A i \in Slots : net[i] # Q!Free => Complete(net[i].layout)
    BY DEF WidgetsInv
  <1> QED BY <1>1, <1>2, CompleteIs, DashboardQuery DEF Dashboard!EveryWidgetOnce

-----------------------------------------------------------------------------
(* The habits of the dialog *)

\* A row of habits; one that was never created has no category.
IsRow(r) ==
  /\ r \in [live : BOOLEAN, strayed : BOOLEAN, order : Nat, category : Categories \cup {"none"}]
  /\ r.live => r.category # "none"
IsRows(d) ==
  /\ d = [category |-> d.category, habit |-> d.habit]
  /\ d.habit = [h \in HabitIds |-> d.habit[h]] /\ \A h \in HabitIds : IsRow(d.habit[h])

\* s lists habits once that were created.
ListsOnce(d, s) ==
  Array!Distinct(s) /\ \A h \in Members(s) : h \in HabitIds /\ d.habit[h].category # "none"

IsHabitView(v, d) ==
  /\ v = [optimistic |-> v.optimistic, editing |-> v.editing, saving |-> v.saving,
          deleting |-> v.deleting, creating |-> v.creating]
  /\ ListsOnce(d, v.optimistic)

\* A request of the dialog; the one reorder that is out has the dragged order.
IsListRequest(r, o) ==
  /\ r.op \in {"create", "update", "delete"} => "id" \in DOMAIN r /\ r.id \in HabitIds
  /\ r.op = "update" => "order" \in DOMAIN r /\ r.order \in Nat
  /\ r.op = "create" => "category" \in DOMAIN r /\ r.category \in Categories
  /\ r.op = "reorder" => /\ "ids" \in DOMAIN r /\ r.ids = o
                         /\ r.stage \in {"sent", "checked", "failed", "done"}
IsListNet(n, o) ==
  /\ IsNet(n) /\ \A i \in Slots : IsListRequest(n[i], o)
  /\ \A i, j \in Slots : n[i].op = "reorder" /\ n[j].op = "reorder" => i = j

\* No mutation of habits has been done whose answer is still on its way.
HabitDone(r) == r.op \in {"create", "update", "delete", "reorder"} /\ r.stage = "done"
NoHabitDone(n) == \A i \in Slots : ~ HabitDone(n[i])

\* A query of habits.
IsListQuery(q, d) ==
  /\ IsQuery(q) /\ Kept(q) /\ q.known
  /\ ListsOnce(d, q.data) /\ ListsOnce(d, q.reply)
AreQueries(q, d, n) ==
  /\ q = [habits |-> q.habits, matrix |-> q.matrix, categories |-> q.categories]
  /\ IsListQuery(q.habits, d) /\ IsListQuery(q.matrix, d) /\ IsQuery(q.categories)
  /\ NoHabitDone(n) => Fresh(q.habits, List!ListHabits(d)) /\ Fresh(q.matrix, List!ListHabits(d))

\* Once the reorder is done, the dragged habits have the numbers of the
\* dragged order, unless a revival or an edit made them stray.
ReordersDone(n) == \A i \in Slots : n[i].op = "reorder" => n[i].stage = "done"
IsNumbered(d, o) ==
  \A k \in DOMAIN o : d.habit[o[k]].live /\ ~ d.habit[o[k]].strayed => d.habit[o[k]].order = k

ListInv ==
  /\ IsRows(db) /\ IsHabitView(view, db) /\ IsListNet(net, view.optimistic)
  /\ AreQueries(query, db, net)
  /\ ReordersDone(net) => IsNumbered(db, view.optimistic)

\* The dialog's queries and mutations are those of Query.
LEMMA ListQuery ==
  /\ \A q, o : List!Invalidate(q, o) = Q!Invalidate(q, o)
  /\ \A q, d : List!Serve(q, d) = Q!Serve(q, d)
  /\ \A q : List!Land(q) = Q!Land(q) /\ List!Idle(q) = Q!Idle(q)
  /\ \A d : List!Loaded(d) = Q!Loaded(d)
  /\ \A n, r : List!Send(n, r) = Q!Send(n, r)
  /\ \A n, i : List!Settle(n, i) = Q!Settle(n, i)
  /\ \A n : List!Quiet(n) = Q!Quiet(n) /\ List!FreeSlots(n) = Q!FreeSlots(n)
  /\ List!Free = Q!Free
  /\ \A q : List!FetchFails(q) = Q!FetchFails(q)
  /\ \A n, i : List!Losable(n, i) = Q!Losable(n, i) /\ List!Lost(n, i) = Q!Lost(n, i)
  /\ \A n, i, q : List!AfterLoss(n, i, q) = Q!AfterLoss(n, i, q)
  BY DEF List!Invalidate, List!Serve, List!Land, List!Idle, List!Loaded, List!Unopened, List!Opened,
         List!Send, List!Settle, List!Quiet, List!Free, List!FreeSlots, List!FetchAgain, List!Min,
         List!FetchFails, List!Losable, List!Lost, List!AfterLoss, List!Unheard,
         Q!FetchFails, Q!Losable, Q!Lost, Q!AfterLoss, Q!Unheard,
         Q!Invalidate, Q!Serve, Q!Land, Q!Idle, Q!Loaded, Q!Unopened, Q!Opened, Q!Send, Q!Settle,
         Q!Quiet, Q!Free, Q!FreeSlots, Q!FetchAgain, Q!Min

\* What the dialog computes of arrays.
LEMMA ListArrays ==
  /\ \A s : List!ToSet(s) = Members(s)
  /\ \A s, j, k : List!ArrayMove(s, j, k) = Array!ArrayMove(s, j, k)
  BY DEF List!ToSet, Members, List!ArrayMove, Array!ArrayMove

-----------------------------------------------------------------------------
(* The order of the server *)

\* The rows are sorted by number and name, and every live one is listed once.
LEMMA ListHabitsIs ==
  ASSUME NEW d, IsRows(d)
  PROVE  /\ Array!Distinct(List!ListHabits(d)) /\ Members(List!ListHabits(d)) = List!Live(d)
         /\ \A x, y \in List!Live(d) :
              d.habit[x].order < d.habit[y].order => Ahead(List!ListHabits(d), x, y)
  <1> DEFINE L == List!Live(d)
             num == [h \in L |-> d.habit[h].order]
             Up(h) == {g \in L : List!Before(num, g, h)}
             r == [h \in L |-> Cardinality(Up(h))]
             f == List!ListHabits(d)
  <1>1. L \in SUBSET HabitIds /\ IsFiniteSet(L) /\ Cardinality(L) \in Nat
    BY IdsAssumption, FS_Subset, FS_CardinalityType DEF List!Live
  <1>2. \A h \in L : num[h] = d.habit[h].order /\ num[h] \in Nat /\ h \in Nat
    BY <1>1, IdsAssumption DEF IsRows, IsRow
  <1>3. \A x, y \in L : x # y => List!Before(num, x, y) \/ List!Before(num, y, x)
    BY <1>2 DEF List!Before
  <1>4. \A x, y \in L : x # y /\ List!Before(num, x, y) => ~ List!Before(num, y, x)
    BY <1>2 DEF List!Before
  <1>5. \A x, y, z \in L : List!Before(num, x, y) /\ List!Before(num, y, z) => List!Before(num, x, z)
    BY <1>2 DEF List!Before
  <1>6. \A x \in L : List!Before(num, x, x)
    BY <1>2 DEF List!Before
  <1>7. \A x, y \in L : d.habit[x].order < d.habit[y].order => List!Before(num, x, y) /\ x # y
    BY <1>2 DEF List!Before
  <1>8. f = [n \in 1..Cardinality(L) |-> CHOOSE h \in L : List!Cardinality(Up(h)) = n]
    BY SameCardinality DEF List!ListHabits, List!Sorted
  <1>9. f = [n \in 1..Cardinality(L) |-> f[n]]
    BY <1>8
  <1>10. \A n \in 1..Cardinality(L) : (\E h \in L : r[h] = n) => f[n] \in L /\ r[f[n]] = n
    BY <1>8, SameCardinality
  <1> HIDE DEF f
  <1>11. ASSUME NEW h \in L PROVE IsFiniteSet(Up(h)) /\ Cardinality(Up(h)) \in 1..Cardinality(L)
    <2>1. Up(h) \in SUBSET L /\ h \in Up(h)
      BY <1>6
    <2>2. IsFiniteSet(Up(h)) /\ Cardinality(Up(h)) <= Cardinality(L)
      BY <1>1, <2>1, FS_Subset
    <2>3. Cardinality(Up(h)) \in Nat /\ Cardinality(Up(h)) # 0
      BY <2>1, <2>2, FS_CardinalityType, FS_EmptySet
    <2> QED BY <1>1, <2>2, <2>3
  <1>12. ASSUME NEW x \in L, NEW y \in L, x # y, List!Before(num, x, y) PROVE r[x] < r[y]
    <2>1. Up(x) \in SUBSET Up(y) /\ y \in Up(y) /\ y \notin Up(x)
      BY <1>4, <1>5, <1>6, <1>12
    <2>2. /\ Cardinality(Up(x)) <= Cardinality(Up(y))
          /\ Cardinality(Up(x)) # Cardinality(Up(y))
      BY <1>11, <2>1, FS_Subset
    <2>3. Cardinality(Up(x)) \in 1..Cardinality(L) /\ Cardinality(Up(y)) \in 1..Cardinality(L)
      BY <1>11
    <2> HIDE DEF Up
    <2> QED BY <2>2, <2>3
  <1>13. r \in [L -> 1..Cardinality(L)]
    BY <1>11
  <1> HIDE DEF r, L, Up, num
  <1>14. \A x, y \in L : r[x] = r[y] => x = y
    <2> SUFFICES ASSUME NEW x \in L, NEW y \in L, x # y PROVE r[x] # r[y]
      OBVIOUS
    <2>1. r[x] \in Int /\ r[y] \in Int
      BY <1>13
    <2>2. r[x] < r[y] \/ r[y] < r[x]
      BY <1>3, <1>12
    <2> QED BY <2>1, <2>2
  <1>15. \A n \in 1..Cardinality(L) : f[n] \in L /\ r[f[n]] = n
    BY <1>1, <1>10, <1>13, <1>14, EveryRank
  <1>16. \A h \in L : r[h] \in 1..Cardinality(L) /\ f[r[h]] = h
    BY <1>13, <1>14, <1>15
  <1>17. Array!Distinct(f) /\ DOMAIN f = 1..Cardinality(L)
    <2>1. \A m, n \in 1..Cardinality(L) : f[m] = f[n] => m = n
      BY <1>15
    <2> QED BY <1>1, <1>9, <2>1, IsDistinct
  <1>18. Members(f) = L
    BY <1>15, <1>16, <1>17 DEF Members
  <1>19. \A x, y \in L : d.habit[x].order < d.habit[y].order => Ahead(f, x, y)
    BY <1>7, <1>12, <1>16, <1>17 DEF Ahead
  <1> QED BY <1>17, <1>18, <1>19 DEF f, L

\* The list of the server has habits once that were created.
LEMMA ListHabitsOnce ==
  ASSUME NEW d, IsRows(d)
  PROVE  ListsOnce(d, List!ListHabits(d))
  BY ListHabitsIs DEF ListsOnce, IsRows, IsRow, List!Live

-----------------------------------------------------------------------------
(* The steps of the dialog *)

\* Habits that were created stay created.
StillThere(d, e) ==
  \A h \in HabitIds : d.habit[h].category # "none" => e.habit[h].category # "none"

\* A list of created habits stays one.
LEMMA OnceStays ==
  ASSUME NEW d, NEW e, StillThere(d, e)
  PROVE  /\ \A s : ListsOnce(d, s) => ListsOnce(e, s)
         /\ \A v : IsHabitView(v, d) => IsHabitView(v, e)
         /\ \A q : IsListQuery(q, d) => IsListQuery(q, e)
  BY DEF StillThere, ListsOnce, IsHabitView, IsListQuery

\* The queries of the dialog when they are fetched again, served and landed.
LEMMA ListQueryIs ==
  ASSUME NEW d, NEW q, IsListQuery(q, d)
  PROVE  /\ IsListQuery(Q!Invalidate(q, TRUE), d)
         /\ \A s : ListsOnce(d, s) => IsListQuery(Q!Serve(q, s), d)
         /\ q.stage = "served" => IsListQuery(Q!Land(q), d)
         /\ IsListQuery(Q!FetchFails(q), d) /\ IsListQuery(Q!Unheard(q), d)
  <1>1. IsListQuery(Q!Invalidate(q, TRUE), d)
    <2>1. Q!Invalidate(q, TRUE).reply \in {q.data, q.reply}
      BY DEF Q!Invalidate, Q!FetchAgain, IsListQuery, IsQuery
    <2> QED BY <2>1, InvalidateIs DEF IsListQuery
  <1>2. \A s : ListsOnce(d, s) => IsListQuery(Q!Serve(q, s), d)
    BY ServeIs DEF IsListQuery
  <1>3. ASSUME q.stage = "served" PROVE IsListQuery(Q!Land(q), d)
    <2>1. Q!Land(q).reply = q.reply
      BY DEF Q!Land, IsListQuery, IsQuery
    <2> QED BY <1>3, <2>1, LandIs DEF IsListQuery
  <1>4. IsListQuery(Q!FetchFails(q), d)
    <2>1. Q!FetchFails(q).reply = q.data
      BY DEF Q!FetchFails, IsListQuery, IsQuery
    <2> QED BY <2>1, FetchFailsIs DEF IsListQuery
  <1>5. IsListQuery(Q!Unheard(q), d)
    BY UnheardIs DEF IsListQuery
  <1> QED BY <1>1, <1>2, <1>3, <1>4, <1>5

\* One request changes.
Changed(n, m, i) == IsNet(m) /\ \A j \in Slots \ {i} : m[j] = n[j]

\* What a change of one request means for what is said of all.
LEMMA ChangedIs ==
  ASSUME NEW n, NEW m, NEW i \in Slots, NEW o, IsListNet(n, o), Changed(n, m, i),
         IsListRequest(m[i], o), m[i].op = "reorder" => n[i].op = "reorder"
  PROVE  /\ IsListNet(m, o)
         /\ ~ HabitDone(n[i]) => (NoHabitDone(m) => NoHabitDone(n))
         /\ HabitDone(m[i]) => ~ NoHabitDone(m)
         /\ m[i].op = n[i].op /\ m[i].stage # "done"
              => (ReordersDone(m) => ReordersDone(n) \/ n[i].op # "reorder")
         /\ (n[i].op = "reorder" => n[i].stage = "done") => (ReordersDone(m) => ReordersDone(n))
  BY DEF IsListNet, Changed, NoHabitDone, ReordersDone, HabitDone

\* A free slot is a request of the dialog, too.
LEMMA FreeRequest == \A o : IsListRequest(Q!Free, o)
  BY FreeIs DEF IsListRequest

\* A request that goes on to another stage is what it was.
LEMMA StagedRequest ==
  ASSUME NEW n, NEW o, IsListNet(n, o), NEW i \in Slots, NEW stage,
         n[i].op = "reorder" => stage \in {"checked", "failed", "done"}
  PROVE  /\ Changed(n, Staged(n, i, stage), i)
         /\ IsListRequest(Staged(n, i, stage)[i], o)
         /\ Staged(n, i, stage)[i].op = n[i].op /\ Staged(n, i, stage)[i].stage = stage
  <1> DEFINE m == Staged(n, i, stage)
  <1>1. /\ IsNet(n) /\ IsRequest(n[i]) /\ IsListRequest(n[i], o)
    BY DEF IsListNet, IsNet
  <1>2. /\ IsNet(m) /\ DOMAIN m[i] = DOMAIN n[i] /\ m[i].stage = stage
        /\ \A f \in DOMAIN n[i] \ {"stage"} : m[i][f] = n[i][f]
        /\ \A j \in Slots \ {i} : m[j] = n[j]
    BY <1>1, StageIs
  <1> HIDE DEF m
  <1>3. m[i].op = n[i].op
    BY <1>1, <1>2 DEF IsRequest
  <1>4. IsListRequest(m[i], o)
    BY <1>1, <1>2, <1>3 DEF IsListRequest
  <1> QED BY <1>2, <1>3, <1>4 DEF Changed, m

\* The dialog opens with the list of the server, and nothing dragged.
LEMMA ListInit == List!Init => ListInv
  <1> SUFFICES ASSUME List!Init PROVE ListInv
    OBVIOUS
  <1> DEFINE row(used, start, h) ==
               [live |-> h \in start, strayed |-> FALSE, order |-> IF h \in start THEN h ELSE 0,
                category |-> IF h \in start THEN used ELSE "none"]
  <1>0. \E used \in Categories, start \in SUBSET HabitIds :
          db = [category |-> {used}, habit |-> [h \in HabitIds |-> row(used, start, h)]]
    BY DEF List!Init
  <1>1. PICK used \in Categories, start \in SUBSET HabitIds :
          db = [category |-> {used}, habit |-> [h \in HabitIds |-> row(used, start, h)]]
    BY <1>0
  <1>2. IsRows(db)
    <2>1. ASSUME NEW h \in HabitIds PROVE IsRow(row(used, start, h))
      <3>1. h \in Nat /\ used # "none"
        BY IdsAssumption
      <3>2. CASE h \in start
        BY <3>1, <3>2 DEF IsRow
      <3>3. CASE h \notin start
        <4>1. (h \in start) = FALSE
          BY <3>3
        <4>2. row(used, start, h) = [live |-> FALSE, strayed |-> FALSE, order |-> 0, category |-> "none"]
          BY <3>3, <4>1
        <4> QED BY <4>2 DEF IsRow
      <3> QED BY <3>2, <3>3
    <2> HIDE DEF row
    <2> QED BY <1>1, <2>1 DEF IsRows
  <1>3. Array!Distinct(<<>>) /\ Members(<<>>) = {} /\ DOMAIN <<>> = {}
    BY DEF Array!Distinct, Members
  <1>4. view = [optimistic |-> <<>>, editing |-> 0, saving |-> 0, deleting |-> 0, creating |-> FALSE]
    BY DEF List!Init, List!NoOrder, List!Nobody
  <1>5. IsHabitView(view, db) /\ IsNumbered(db, view.optimistic)
    BY <1>3, <1>4 DEF IsHabitView, ListsOnce, IsNumbered
  <1>6. net = [i \in Slots |-> Q!Free]
    BY ListQuery DEF List!Init
  <1>7. IsListNet(net, view.optimistic)
    BY <1>6, FreeIs, FreeRequest DEF IsListNet, IsNet
  <1>8. query = [habits |-> Q!Loaded(List!ListHabits(db)), matrix |-> Q!Loaded(List!ListHabits(db)),
                 categories |-> Q!Loaded(db.category)]
    BY ListQuery DEF List!Init
  <1>9. \A e : Q!Loaded(e).reply = e
    BY DEF Q!Loaded, Q!Unopened, Q!Opened
  <1>10. IsListQuery(Q!Loaded(List!ListHabits(db)), db)
    BY <1>2, <1>9, OpenedIs, ListHabitsOnce DEF IsListQuery
  <1>11. AreQueries(query, db, net)
    BY <1>8, <1>10, OpenedIs DEF AreQueries
  <1> QED BY <1>2, <1>5, <1>7, <1>11 DEF ListInv

-----------------------------------------------------------------------------
(* The queries of the dialog *)

QueryNames == {"habits", "matrix", "categories"}

\* All three are fetched again; then nothing is claimed of them.
LEMMA AllInvalidated ==
  ASSUME NEW d, NEW n, NEW m, AreQueries(query, d, n)
  PROVE  AreQueries(List!InvalidateAll, d, m)
  <1> DEFINE q == List!InvalidateAll
  <1>1. DOMAIN query = QueryNames
    BY DEF AreQueries, QueryNames
  <1>2. q = [habits |-> Q!Invalidate(query.habits, TRUE), matrix |-> Q!Invalidate(query.matrix, TRUE),
             categories |-> Q!Invalidate(query.categories, TRUE)]
    <2>1. q = [k \in QueryNames |-> Q!Invalidate(query[k], TRUE)]
      BY <1>1, ListQuery DEF List!InvalidateAll
    <2> HIDE DEF q
    <2> QED BY <2>1 DEF QueryNames
  <1> HIDE DEF q
  <1>3. IsListQuery(q.habits, d) /\ IsListQuery(q.matrix, d)
    BY <1>2, ListQueryIs DEF AreQueries
  <1>4. IsQuery(q.categories)
    BY <1>2, InvalidateIs DEF AreQueries
  <1>5. \A l : Fresh(q.habits, l) /\ Fresh(q.matrix, l)
    BY <1>2, InvalidateIs DEF AreQueries, IsListQuery
  <1>6. q = [habits |-> q.habits, matrix |-> q.matrix, categories |-> q.categories]
    BY <1>2
  <1> QED BY <1>3, <1>4, <1>5, <1>6 DEF AreQueries, q

\* The same habits are there, live and with the same numbers.
SameList(d, e) ==
  /\ StillThere(d, e) /\ List!Live(e) = List!Live(d)
  /\ \A h \in List!Live(d) : e.habit[h].order = d.habit[h].order

\* Rows that do not change are such.
LEMMA SameListIs ==
  ASSUME NEW d, NEW e, e.habit = d.habit
  PROVE  SameList(d, e)
  BY DEF SameList, StillThere, List!Live

\* The list does not change: neither does what the queries claim.
LEMMA SameQueries ==
  ASSUME NEW q, NEW d, NEW e, NEW n, NEW m, AreQueries(q, d, n), SameList(d, e),
         NoHabitDone(m) => NoHabitDone(n)
  PROVE  AreQueries(q, e, m)
  <1>1. StillThere(d, e)
    BY DEF SameList
  <1>2. List!ListHabits(e) = List!ListHabits(d)
    <2> DEFINE num(c) == [h \in List!Live(c) |-> c.habit[h].order]
    <2>1. num(e) = num(d)
      BY DEF SameList
    <2> QED BY <2>1 DEF List!ListHabits
  <1> QED BY <1>1, <1>2, OnceStays DEF AreQueries

\* A request is sent.
LEMMA SendChanges ==
  ASSUME NEW n, NEW o, IsListNet(n, o), Q!FreeSlots(n) # {}, NEW r, IsRequest(r),
         r.op # "reorder", IsListRequest(r, o), r.stage = "sent"
  PROVE  /\ IsListNet(Q!Send(n, r), o)
         /\ NoHabitDone(Q!Send(n, r)) => NoHabitDone(n)
         /\ ReordersDone(Q!Send(n, r)) => ReordersDone(n)
  <1> DEFINE m == Q!Send(n, r)
  <1>1. PICK i \in Slots : /\ n[i] = Q!Free /\ m[i] = r /\ IsNet(m)
                          /\ \A j \in Slots \ {i} : m[j] = n[j]
    BY SendIs DEF IsListNet
  <1> HIDE DEF m
  <1>2. Changed(n, m, i)
    BY <1>1 DEF Changed
  <1>3. n[i].op = "none" /\ ~ HabitDone(n[i])
    BY <1>1, FreeIs DEF HabitDone
  <1> QED BY <1>1, <1>2, <1>3, ChangedIs DEF m

\* Nothing changes but requests that are no done mutations of habits.
LEMMA SameRows ==
  ASSUME ListInv, UNCHANGED <<db, view, query>>, IsListNet(net', view.optimistic),
         NoHabitDone(net') => NoHabitDone(net),
         ReordersDone(net') => ReordersDone(net)
  PROVE  ListInv'
  <1>1. AreQueries(query, db, net')
    BY SameListIs, SameQueries DEF ListInv
  <1> QED BY <1>1 DEF ListInv

\* Nothing changes but the view, and not what was dragged.
LEMMA SameOptimistic ==
  ASSUME ListInv, UNCHANGED <<db, query, net>>, view'.optimistic = view.optimistic,
         view' = [optimistic |-> view'.optimistic, editing |-> view'.editing, saving |-> view'.saving,
                  deleting |-> view'.deleting, creating |-> view'.creating]
  PROVE  ListInv'
  <1>1. IsHabitView(view', db)
    BY DEF ListInv, IsHabitView
  <1>2. UNCHANGED <<NoHabitDone(net), ReordersDone(net), IsNumbered(db, view.optimistic)>>
    BY DEF NoHabitDone, ReordersDone, IsNumbered
  <1> QED BY <1>1, <1>2 DEF ListInv

\* The habits of the dialog are those of its list, once.
LEMMA OrderedIs ==
  ASSUME NEW d, NEW s, ListsOnce(d, s), NEW o, Array!Distinct(o)
  PROVE  LET kept == List!Filter(o, Members(s))
             t == List!OrderedHabits(s, o)
         IN /\ ListsOnce(d, t) /\ Members(t) = Members(s)
            /\ \A x, y : Ahead(kept, x, y) => Ahead(t, x, y)
  <1> DEFINE kept == List!Filter(o, Members(s))
             rest == List!Filter(s, HabitIds \ Members(kept))
             t == List!OrderedHabits(s, o)
  <1>1. t = kept \o rest
    BY ListArrays DEF List!OrderedHabits
  <1>2. Array!Distinct(s) /\ Members(s) \subseteq HabitIds
    BY DEF ListsOnce
  <1>3. Array!Distinct(kept) /\ Members(kept) = Members(o) \cap Members(s)
    BY FilterIs DEF Filtered
  <1> HIDE DEF kept, t
  <1>4. Array!Distinct(rest) /\ Members(rest) = Members(s) \cap (HabitIds \ Members(kept))
    BY <1>2, FilterIs DEF Filtered
  <1> HIDE DEF rest
  <1>5. Members(kept) \cap Members(rest) = {} /\ Members(kept) \cup Members(rest) = Members(s)
    BY <1>2, <1>3, <1>4
  <1>6. /\ Array!Distinct(t) /\ Members(t) = Members(s)
        /\ \A x, y : Ahead(kept, x, y) => Ahead(t, x, y)
    BY <1>1, <1>3, <1>4, <1>5, ConcatIs
  <1>7. ListsOnce(d, t)
    BY <1>6 DEF ListsOnce
  <1> QED BY <1>6, <1>7 DEF t, kept

\* What can be dragged are habits of the list, once.
LEMMA SortableIs ==
  ASSUME ListInv
  PROVE  /\ ListsOnce(db, List!SortableIds)
         /\ Members(List!Shown) \subseteq HabitIds
  <1>1. ListsOnce(db, List!Shown) /\ Members(List!Shown) = Members(query.habits.data)
    BY OrderedIs DEF ListInv, AreQueries, IsListQuery, IsHabitView, ListsOnce, List!Shown
  <1>2. Filtered(List!SortableIds, List!Shown, HabitIds \ {view.editing, view.deleting})
    BY <1>1, FilterIs DEF List!SortableIds, ListsOnce
  <1> QED BY <1>1, <1>2 DEF ListsOnce, Filtered

\* A request changes that is no done mutation of habits, neither before nor
\* after, nor a reorder that is not done before but after.
LEMMA SameRowsStaged ==
  ASSUME ListInv, NEW i \in Slots, NEW stage, net' = Staged(net, i, stage),
         UNCHANGED <<db, view, query>>, ~ HabitDone(net[i]),
         net[i].op = "reorder" => stage \in {"checked", "failed"}
  PROVE  ListInv'
  <1>1. IsListNet(net, view.optimistic)
    BY DEF ListInv
  <1>2. /\ Changed(net, net', i) /\ IsListRequest(net'[i], view.optimistic)
        /\ net'[i].op = net[i].op /\ net'[i].stage = stage
    BY <1>1, StagedRequest
  <1>3. IsListNet(net', view.optimistic) /\ (NoHabitDone(net') => NoHabitDone(net))
    BY <1>1, <1>2, ChangedIs
  <1>4. ReordersDone(net') => ReordersDone(net)
    BY <1>2 DEF ReordersDone, Changed
  <1> QED BY <1>3, <1>4, SameRows

\* A reorder is sent with the dragged order.
LEMMA DragStep ==
  ASSUME ListInv, NEW from, NEW to, List!DragEnd(from, to)
  PROVE  ListInv'
  <1> DEFINE next == List!ArrayMove(List!SortableIds, from, to)
             r == [op |-> "reorder", stage |-> "sent", ids |-> next]
  <1>1. /\ net' = Q!Send(net, r) /\ view' = [view EXCEPT !.optimistic = next]
        /\ UNCHANGED <<db, query>>
        /\ Q!FreeSlots(net) # {} /\ from \in DOMAIN List!SortableIds /\ to \in DOMAIN List!SortableIds
    BY ListQuery DEF List!DragEnd, List!CanSend
  <1>2. \A j \in Slots : net[j].op # "reorder"
    BY DEF ListInv, IsListNet, IsNet, List!DragEnd, List!Pending
  <1>3. ListsOnce(db, next)
    BY <1>1, SortableIs, MoveIs, ListArrays DEF ListsOnce
  <1> HIDE DEF next
  <1>4. IsRequest(r) /\ IsListRequest(r, next) /\ r.op = "reorder" /\ r.stage = "sent"
    BY DEF IsRequest, IsListRequest
  <1> HIDE DEF r
  <1>5. PICK i \in Slots : /\ net[i] = Q!Free /\ net'[i] = r /\ IsNet(net')
                          /\ \A j \in Slots \ {i} : net'[j] = net[j]
    BY <1>1, <1>4, SendIs DEF ListInv, IsListNet
  <1>6. view'.optimistic = next /\ IsHabitView(view', db)
    BY <1>1, <1>3 DEF ListInv, IsHabitView
  <1>7. IsListNet(net', next)
    BY <1>2, <1>4, <1>5 DEF ListInv, IsListNet, IsListRequest
  <1>8. ~ ReordersDone(net')
    BY <1>4, <1>5 DEF ReordersDone
  <1>9. NoHabitDone(net') => NoHabitDone(net)
    BY <1>5, FreeIs DEF NoHabitDone, HabitDone
  <1>10. AreQueries(query, db, net')
    BY <1>9, SameListIs, SameQueries DEF ListInv
  <1> QED BY <1>1, <1>6, <1>7, <1>8, <1>10 DEF ListInv

\* The rows of the list get the numbers of the dragged order.
LEMMA ReorderStep ==
  ASSUME ListInv, NEW i \in Slots, List!ReorderCommit(i)
  PROVE  ListInv'
  <1> DEFINE o == view.optimistic
             L == List!Live(db)
             place(h) == List!IndexOf(net[i].ids, h)
  <1>1. IsListNet(net, o) /\ net[i].op = "reorder" /\ net[i].ids = o /\ net[i].stage = "checked"
    BY DEF ListInv, IsListNet, IsListRequest, List!ReorderCommit
  <1>2. db' = [db EXCEPT !.habit = [h \in HabitIds |->
                 IF h \in List!ToSet(net[i].ids) \cap L THEN List!Numbered(db.habit[h], place(h))
                 ELSE db.habit[h]]]
    BY DEF List!ReorderCommit
  <1>3. net' = Staged(net, i, "done") /\ UNCHANGED <<view, query>>
    BY DEF List!ReorderCommit, List!Answer, Staged
  <1>4. /\ DOMAIN o = 1..Len(o) /\ Len(o) \in Nat /\ \A j, k \in DOMAIN o : o[j] = o[k] => j = k
    BY DistinctIs DEF ListInv, IsHabitView, ListsOnce
  <1>5. ASSUME NEW k \in DOMAIN o PROVE place(o[k]) = k
    <2> DEFINE ids == net[i].ids
    <2>1. ids = o
      BY <1>1
    <2>2. /\ k \in DOMAIN ids /\ ids[k] = o[k]
          /\ \A j \in DOMAIN ids : ids[j] = o[k] => j = k
      BY <1>4, <2>1
    <2> HIDE DEF ids
    <2>3. place(o[k]) = CHOOSE j \in DOMAIN ids : ids[j] = o[k]
      BY DEF List!IndexOf, ids
    <2> QED BY <2>2, <2>3
  <1> HIDE DEF place
  <1>6. ASSUME NEW h \in Members(o) PROVE place(h) \in Nat
    <2>1. PICK k \in DOMAIN o : h = o[k]
      BY DEF Members
    <2>2. place(h) = k
      BY <1>5, <2>1
    <2> QED BY <1>4, <2>2
  <1>7. /\ db' = [category |-> db'.category, habit |-> db'.habit]
        /\ db'.habit = [h \in HabitIds |-> db'.habit[h]]
        /\ \A h \in HabitIds :
             db'.habit[h] = IF h \in Members(o) \cap L THEN List!Numbered(db.habit[h], place(h))
                            ELSE db.habit[h]
    BY <1>1, <1>2, ListArrays DEF ListInv, IsRows
  <1>8. ASSUME NEW h \in HabitIds
        PROVE  /\ IsRow(db'.habit[h]) /\ db'.habit[h].category = db.habit[h].category
               /\ db'.habit[h].live = db.habit[h].live
               /\ h \in Members(o) \cap L => db'.habit[h].order = place(h)
    <2>1. IsRow(db.habit[h])
      BY DEF ListInv, IsRows
    <2>2. CASE h \in Members(o) \cap L
      <3> DEFINE k == place(h)
      <3>1. k \in Nat /\ db'.habit[h] = List!Numbered(db.habit[h], k)
        BY <1>6, <1>7, <2>2
      <3> QED BY <2>1, <3>1 DEF IsRow, List!Numbered
    <2>3. CASE h \notin Members(o) \cap L
      BY <1>7, <2>1, <2>3
    <2> QED BY <2>2, <2>3
  <1>9. IsRows(db')
    BY <1>7, <1>8 DEF IsRows
  <1>10. StillThere(db, db')
    BY <1>8 DEF StillThere
  <1>11. IsHabitView(view', db')
    BY <1>3, <1>10, OnceStays DEF ListInv
  <1>12. IsNumbered(db', o)
    <2> SUFFICES ASSUME NEW k \in DOMAIN o, db'.habit[o[k]].live PROVE db'.habit[o[k]].order = k
      BY DEF IsNumbered
    <2>1. o[k] \in Members(o) /\ o[k] \in HabitIds
      BY DEF Members, ListInv, IsHabitView, ListsOnce
    <2>2. o[k] \in L
      BY <1>8, <2>1 DEF List!Live
    <2> QED BY <1>5, <1>8, <2>1, <2>2
  <1>13. /\ Changed(net, net', i) /\ IsListRequest(net'[i], o)
         /\ net'[i].op = "reorder" /\ net'[i].stage = "done"
    BY <1>1, <1>3, StagedRequest
  <1>14. IsListNet(net', o) /\ ~ NoHabitDone(net')
    BY <1>1, <1>13, ChangedIs DEF HabitDone
  <1>15. AreQueries(query', db', net')
    BY <1>3, <1>10, <1>14, OnceStays DEF ListInv, AreQueries
  <1> QED BY <1>3, <1>9, <1>11, <1>12, <1>14, <1>15 DEF ListInv

\* A habit is deleted, created, revived or edited: it keeps its number or
\* strays, and what is listed changes only if the request goes through.
LEMMA RowStep ==
  ASSUME ListInv, NEW i \in Slots, NEW stage, net' = Staged(net, i, stage), UNCHANGED <<view, query>>,
         net[i].op \in {"create", "update", "delete"}, net[i].stage # "done",
         stage \in {"done", "failed"},
         IsRows(db'), StillThere(db, db'),
         \A h \in HabitIds :
           db.habit[h].category # "none" /\ db'.habit[h].live /\ ~ db'.habit[h].strayed =>
             /\ db.habit[h].live /\ ~ db.habit[h].strayed
             /\ db'.habit[h].order = db.habit[h].order,
         stage = "failed" => SameList(db, db')
  PROVE  ListInv'
  <1>1. IsListNet(net, view.optimistic)
    BY DEF ListInv
  <1>2. /\ Changed(net, net', i) /\ IsListRequest(net'[i], view.optimistic)
        /\ net'[i].op = net[i].op /\ net'[i].stage = stage
    BY <1>1, StagedRequest
  <1>3. /\ IsListNet(net', view.optimistic)
        /\ NoHabitDone(net') => NoHabitDone(net)
        /\ HabitDone(net'[i]) => ~ NoHabitDone(net')
        /\ ReordersDone(net') => ReordersDone(net)
    BY <1>1, <1>2, ChangedIs DEF HabitDone
  <1>4. IsHabitView(view', db')
    BY OnceStays DEF ListInv
  <1>5. AreQueries(query', db', net')
    <2>1. CASE stage = "failed"
      BY <1>3, <2>1, SameQueries DEF ListInv
    <2>2. CASE stage = "done"
      <3>1. ~ NoHabitDone(net')
        BY <1>2, <1>3, <2>2 DEF HabitDone
      <3> QED BY <3>1, OnceStays DEF ListInv, AreQueries
    <2> QED BY <2>1, <2>2
  <1>6. IsNumbered(db, view.optimistic) => IsNumbered(db', view.optimistic)
    BY DEF IsNumbered, ListInv, IsHabitView, ListsOnce, Members
  <1> QED BY <1>3, <1>4, <1>5, <1>6 DEF ListInv

\* Who waits for the fetch that is over is no reorder, and not just done.
LEMMA FetchedStep ==
  ASSUME ListInv, NEW q \in DOMAIN query, NEW new, List!Fetched(q, new), IsQuery(new),
         q # "categories" => /\ IsListQuery(new, db)
                             /\ \A l : Fresh(query[q], l) => Fresh(new, l)
  PROVE  ListInv'
  <1> DEFINE through == {i \in Slots : List!Through(q, i)}
  <1>1. /\ query' = [query EXCEPT ![q] = new] /\ UNCHANGED db
        /\ net' = [i \in Slots |-> IF i \in through THEN Q!Free ELSE net[i]]
        /\ view' = List!Resumed({net[i].op : i \in through})
    BY ListQuery DEF List!Fetched
  <1>2. \A i \in through : net[i].stage \in {"refetching", "refetchingCategories"}
    BY DEF List!Through
  <1> HIDE DEF through
  <1>3. \A i \in Slots : /\ IsRequest(net[i]) /\ IsListRequest(net[i], view.optimistic)
                         /\ i \in through => net'[i] = Q!Free
                         /\ i \notin through => net'[i] = net[i]
    BY <1>1 DEF ListInv, IsListNet, IsNet
  <1>4. IsNet(net')
    BY <1>1, <1>3, FreeIs DEF IsNet
  <1>5. /\ \A i \in Slots : IsListRequest(net'[i], view.optimistic)
        /\ \A i \in Slots : net'[i].op = "reorder" => net'[i] = net[i]
    BY <1>3, FreeRequest, FreeIs
  <1>6. IsListNet(net', view.optimistic)
    BY <1>4, <1>5 DEF ListInv, IsListNet
  <1>7. NoHabitDone(net') => NoHabitDone(net)
    BY <1>2, <1>3 DEF NoHabitDone, HabitDone
  <1>8. ReordersDone(net') => ReordersDone(net)
    BY <1>2, <1>3 DEF ReordersDone, IsListRequest
  <1>9. view'.optimistic = view.optimistic /\ IsHabitView(view', db')
    BY <1>1 DEF ListInv, IsHabitView, List!Resumed
  <1>10. AreQueries(query', db, net')
    <2>1. q \in {"habits", "matrix", "categories"}
      BY DEF ListInv, AreQueries
    <2>2. AreQueries(query, db, net)
      BY DEF ListInv
    <2>3. CASE q = "habits"
      <3>1. query' = [habits |-> new, matrix |-> query.matrix, categories |-> query.categories]
        BY <1>1, <2>2, <2>3 DEF AreQueries
      <3> QED BY <1>7, <2>2, <2>3, <3>1 DEF AreQueries
    <2>4. CASE q = "matrix"
      <3>1. query' = [habits |-> query.habits, matrix |-> new, categories |-> query.categories]
        BY <1>1, <2>2, <2>4 DEF AreQueries
      <3> QED BY <1>7, <2>2, <2>4, <3>1 DEF AreQueries
    <2>5. CASE q = "categories"
      <3>1. query' = [habits |-> query.habits, matrix |-> query.matrix, categories |-> new]
        BY <1>1, <2>2, <2>5 DEF AreQueries
      <3> QED BY <1>7, <2>2, <3>1 DEF AreQueries
    <2> QED BY <2>1, <2>3, <2>4, <2>5
  <1> QED BY <1>1, <1>6, <1>8, <1>9, <1>10 DEF ListInv

\* What lands has been served, and what fails claims nothing.
LEMMA LandStep ==
  ASSUME ListInv, NEW q \in DOMAIN query, List!LandQuery(q) \/ List!FailQuery(q)
  PROVE  ListInv'
  <1>1. /\ q \in {"habits", "matrix", "categories"} /\ IsQuery(query[q])
        /\ q # "categories" => IsListQuery(query[q], db)
    BY DEF ListInv, AreQueries, IsListQuery
  <1>2. CASE List!LandQuery(q)
    <2>1. query[q].stage = "served" /\ List!Fetched(q, Q!Land(query[q]))
      BY <1>2, ListQuery DEF List!LandQuery
    <2> QED BY <1>1, <2>1, ListQueryIs, LandIs, FetchedStep
  <1>3. CASE List!FailQuery(q)
    <2>1. List!Fetched(q, Q!FetchFails(query[q]))
      BY <1>3, ListQuery DEF List!FailQuery
    <2> QED BY <1>1, <2>1, ListQueryIs, FetchFailsIs, FetchedStep
  <1> QED BY <1>2, <1>3

\* A query gets the list of the server.
LEMMA ServeStep ==
  ASSUME ListInv, NEW q \in DOMAIN query, List!ServeQuery(q)
  PROVE  ListInv'
  <1> DEFINE l == List!ListHabits(db)
  <1>1. /\ q # "categories" => query' = [query EXCEPT ![q] = Q!Serve(@, l)]
        /\ q = "categories" => query' = [query EXCEPT ![q] = Q!Serve(@, db.category)]
        /\ UNCHANGED <<db, view, net>>
    BY ListQuery DEF List!ServeQuery
  <1>2. ListsOnce(db, l)
    BY ListHabitsOnce DEF ListInv
  <1> HIDE DEF l
  <1>3. q \in {"habits", "matrix", "categories"}
    BY DEF ListInv, AreQueries
  <1>4. AreQueries(query, db, net)
    BY DEF ListInv
  <1>5. AreQueries(query', db, net)
    <2>3. CASE q = "habits"
      <3>1. query' = [habits |-> Q!Serve(query.habits, l), matrix |-> query.matrix,
                      categories |-> query.categories]
        BY <1>1, <1>4, <2>3 DEF AreQueries
      <3> QED BY <1>2, <1>4, <3>1, ListQueryIs, ServeIs DEF AreQueries, IsListQuery, l
    <2>4. CASE q = "matrix"
      <3>1. query' = [habits |-> query.habits, matrix |-> Q!Serve(query.matrix, l),
                      categories |-> query.categories]
        BY <1>1, <1>4, <2>4 DEF AreQueries
      <3> QED BY <1>2, <1>4, <3>1, ListQueryIs, ServeIs DEF AreQueries, IsListQuery, l
    <2>5. CASE q = "categories"
      <3>1. query' = [habits |-> query.habits, matrix |-> query.matrix,
                      categories |-> Q!Serve(query.categories, db.category)]
        BY <1>1, <1>4, <2>5 DEF AreQueries
      <3> QED BY <1>4, <3>1, ServeIs DEF AreQueries
    <2> QED BY <1>3, <2>3, <2>4, <2>5
  <1> QED BY <1>1, <1>5 DEF ListInv

\* The server deletes a habit.
LEMMA DeleteStep ==
  ASSUME ListInv, NEW i \in Slots, List!ServeDelete(i)
  PROVE  ListInv'
  <1> DEFINE id == net[i].id
             row == [db.habit[id] EXCEPT !.live = FALSE]
             stage == IF db.habit[id].live THEN "done" ELSE "failed"
  <1>1. net[i].op = "delete" /\ net[i].stage = "sent" /\ IsListRequest(net[i], view.optimistic)
    BY DEF List!ServeDelete, List!Arrived, ListInv, IsListNet
  <1>2. id \in HabitIds /\ IsRow(db.habit[id])
    BY <1>1 DEF IsListRequest, ListInv, IsRows
  <1>3. net' = Staged(net, i, stage) /\ UNCHANGED <<view, query>>
    BY DEF List!ServeDelete, List!Answer, Staged
  <1>4. db' = [db EXCEPT !.habit[id].live = FALSE]
    BY DEF List!ServeDelete
  <1>5. /\ IsRow(row) /\ ~ row.live /\ row.category = db.habit[id].category
        /\ ~ db.habit[id].live => row = db.habit[id]
    BY <1>2 DEF IsRow
  <1>6. /\ db' = [category |-> db'.category, habit |-> db'.habit]
        /\ db'.habit = [h \in HabitIds |-> db'.habit[h]]
        /\ db'.habit[id] = row /\ \A h \in HabitIds \ {id} : db'.habit[h] = db.habit[h]
        /\ db.habit = [h \in HabitIds |-> db.habit[h]] /\ \A h \in HabitIds : IsRow(db.habit[h])
    BY <1>2, <1>4 DEF ListInv, IsRows
  <1> HIDE DEF row, id
  <1>7. IsRows(db') /\ StillThere(db, db')
    BY <1>5, <1>6 DEF IsRows, StillThere
  <1>8. stage = "failed" => SameList(db, db')
    BY <1>5, <1>6, SameListIs
  <1>9. \A h \in HabitIds : db'.habit[h].live => db'.habit[h] = db.habit[h]
    BY <1>5, <1>6
  <1>10. stage \in {"done", "failed"}
    OBVIOUS
  <1> HIDE DEF stage
  <1> QED BY <1>1, <1>3, <1>7, <1>8, <1>9, <1>10, RowStep

\* The server creates a habit, or revives it.
LEMMA CreateStep ==
  ASSUME ListInv, NEW i \in Slots, List!ServeCreate(i)
  PROVE  ListInv'
  <1> DEFINE h == net[i].id
             c == net[i].category
             found == c \in db.category
             stage == IF found THEN "done" ELSE "failed"
             old == db.habit[h]
             again == old.strayed \/ ~ old.live
             revived == [old EXCEPT !.strayed = again, !.live = TRUE]
             created == [old EXCEPT !.live = TRUE, !.category = c]
  <1>1. net[i].op = "create" /\ net[i].stage = "sent" /\ IsListRequest(net[i], view.optimistic)
    BY DEF List!ServeCreate, List!Arrived, ListInv, IsListNet
  <1>2. h \in HabitIds /\ c \in Categories /\ c # "none" /\ IsRow(old)
    BY <1>1, IdsAssumption DEF IsListRequest, ListInv, IsRows
  <1>3. net' = Staged(net, i, stage) /\ UNCHANGED <<view, query>>
    BY DEF List!ServeCreate, List!Answer, Staged
  <1>4. /\ ~ found => db' = db
        /\ found /\ old.category # "none" =>
             db' = [db EXCEPT !.habit[h].strayed = again, !.habit[h].live = TRUE]
        /\ found /\ old.category = "none" => db' = [db EXCEPT !.habit[h] = created]
    BY DEF List!ServeCreate
  <1>5. /\ old.category # "none" => IsRow(revived) /\ revived.category = old.category
        /\ IsRow(created) /\ created.category # "none"
        /\ ~ revived.strayed => old.live /\ ~ old.strayed
        /\ revived.order = old.order
    BY <1>2 DEF IsRow
  <1>6. /\ db = [category |-> db.category, habit |-> db.habit]
        /\ db.habit = [g \in HabitIds |-> db.habit[g]] /\ \A g \in HabitIds : IsRow(db.habit[g])
    BY DEF ListInv, IsRows
  <1> HIDE DEF again
  <1>7. /\ db' = [category |-> db'.category, habit |-> db'.habit]
        /\ db'.habit = [g \in HabitIds |-> db'.habit[g]]
        /\ \A g \in HabitIds \ {h} : db'.habit[g] = db.habit[g]
        /\ ~ found => db'.habit[h] = old
        /\ found /\ old.category # "none" => db'.habit[h] = revived
        /\ found /\ old.category = "none" => db'.habit[h] = created
    <2>1. CASE ~ found
      BY <1>4, <1>6, <2>1
    <2>2. CASE found /\ old.category # "none"
      <3>1. /\ db' = [category |-> db'.category, habit |-> db'.habit]
            /\ db'.habit = [db.habit EXCEPT ![h].strayed = again, ![h].live = TRUE]
        BY <1>4, <1>6, <2>2
      <3>2. db'.habit = [db.habit EXCEPT ![h] = revived]
        BY <1>2, <1>6, <3>1
      <3> QED BY <1>2, <1>6, <2>2, <3>1, <3>2
    <2>3. CASE found /\ old.category = "none"
      BY <1>2, <1>4, <1>6, <2>3
    <2> QED BY <2>1, <2>2, <2>3
  <1>8. ~ found => SameList(db, db')
    BY <1>4, SameListIs
  <1> HIDE DEF revived, created, found
  <1>9. IsRows(db') /\ StillThere(db, db')
    BY <1>2, <1>5, <1>6, <1>7 DEF IsRows, StillThere
  <1>10. \A g \in HabitIds :
           db.habit[g].category # "none" /\ db'.habit[g].live /\ ~ db'.habit[g].strayed =>
             /\ db.habit[g].live /\ ~ db.habit[g].strayed
             /\ db'.habit[g].order = db.habit[g].order
    BY <1>2, <1>5, <1>7
  <1>11. stage \in {"done", "failed"} /\ (stage = "failed" => ~ found)
    OBVIOUS
  <1> HIDE DEF stage
  <1> QED BY <1>1, <1>3, <1>8, <1>9, <1>10, <1>11, RowStep

\* An update reads the number of its row.
LEMMA UpdateReadStep ==
  ASSUME ListInv, NEW i \in Slots, List!UpdateRead(i)
  PROVE  ListInv'
  <1> DEFINE r == net[i]
             num == db.habit[r.id].order
  <1>1. /\ r.op = "update" /\ r.stage = "sent" /\ UNCHANGED <<db, view, query>>
        /\ IsListNet(net, view.optimistic) /\ IsRequest(r) /\ IsListRequest(r, view.optimistic)
    BY DEF List!UpdateRead, List!Arrived, ListInv, IsListNet, IsNet
  <1>2. PICK stage \in {"read", "failed"} : net' = [net EXCEPT ![i].order = num, ![i].stage = stage]
    BY DEF List!UpdateRead
  <1>3. num \in Nat
    BY <1>1 DEF IsListRequest, ListInv, IsRows, IsRow
  <1> HIDE DEF num
  <1>4. /\ net' = [j \in Slots |-> net'[j]] /\ DOMAIN net' = Slots
        /\ net'[i] = [net[i] EXCEPT !.order = num, !.stage = stage]
        /\ \A j \in Slots \ {i} : net'[j] = net[j]
    BY <1>1, <1>2 DEF IsListNet, IsNet
  <1>5. IsRequest(net'[i]) /\ net'[i].op = "update" /\ net'[i].stage = stage
    <2>1. {"op", "stage"} \subseteq DOMAIN r /\ DOMAIN net'[i] = DOMAIN r
      BY <1>1, <1>4 DEF IsRequest
    <2>2. net'[i].op = "update" /\ net'[i].stage = stage
      BY <1>1, <1>4, <2>1
    <2>3. net'[i] = [f \in DOMAIN net'[i] |-> net'[i][f]]
      BY <1>4
    <2> QED BY <2>1, <2>2, <2>3 DEF IsRequest
  <1>6. "order" \in DOMAIN r /\ "id" \in DOMAIN r /\ r.id \in HabitIds
    BY <1>1 DEF IsListRequest
  <1>7. /\ "order" \in DOMAIN net'[i] /\ net'[i].order = num
        /\ "id" \in DOMAIN net'[i] /\ net'[i].id = r.id
    BY <1>1, <1>4, <1>6
  <1>8. IsListRequest(net'[i], view.optimistic)
    BY <1>3, <1>5, <1>6, <1>7 DEF IsListRequest
  <1>9. IsNet(net')
    BY <1>1, <1>4, <1>5 DEF IsListNet, IsNet
  <1>10. Changed(net, net', i)
    BY <1>4, <1>9 DEF Changed
  <1>11. /\ IsListNet(net', view.optimistic)
         /\ NoHabitDone(net') => NoHabitDone(net)
         /\ ReordersDone(net') => ReordersDone(net)
    BY <1>1, <1>5, <1>8, <1>10, ChangedIs DEF HabitDone
  <1> QED BY <1>1, <1>11, SameRows

\* An update writes its row, which strays if its number has changed since.
LEMMA UpdateWriteStep ==
  ASSUME ListInv, NEW i \in Slots, List!UpdateWrite(i)
  PROVE  ListInv'
  <1> DEFINE h == net[i].id
             old == db.habit[h]
             num == net[i].order
             astray == old.strayed \/ num # old.order
             row == [old EXCEPT !.order = num, !.strayed = astray]
             stage == IF old.live THEN "done" ELSE "failed"
  <1>1. net[i].op = "update" /\ net[i].stage = "read" /\ IsListRequest(net[i], view.optimistic)
    BY DEF List!UpdateWrite, ListInv, IsListNet
  <1>2. h \in HabitIds /\ IsRow(old) /\ num \in Nat
    BY <1>1 DEF IsListRequest, ListInv, IsRows
  <1>3. net' = Staged(net, i, stage) /\ UNCHANGED <<view, query>>
    BY DEF List!UpdateWrite, List!Answer, Staged
  <1>4. db' = [db EXCEPT !.habit[h].order = num, !.habit[h].strayed = astray]
    BY DEF List!UpdateWrite
  <1>a. astray \in BOOLEAN /\ (~ astray => ~ old.strayed /\ num = old.order)
    BY <1>2 DEF IsRow
  <1> HIDE DEF astray, num
  <1>5. /\ IsRow(row) /\ row.live = old.live /\ row.category = old.category
        /\ ~ row.strayed => ~ old.strayed /\ row.order = old.order
    BY <1>2, <1>a DEF IsRow
  <1>6. /\ db = [category |-> db.category, habit |-> db.habit]
        /\ db.habit = [g \in HabitIds |-> db.habit[g]] /\ \A g \in HabitIds : IsRow(db.habit[g])
    BY DEF ListInv, IsRows
  <1>7. /\ db' = [category |-> db'.category, habit |-> db'.habit]
        /\ db'.habit = [g \in HabitIds |-> db'.habit[g]]
        /\ \A g \in HabitIds \ {h} : db'.habit[g] = db.habit[g]
        /\ db'.habit[h] = row
    <2>1. /\ db' = [category |-> db'.category, habit |-> db'.habit]
          /\ db'.habit = [db.habit EXCEPT ![h].order = num, ![h].strayed = astray]
      BY <1>4, <1>6
    <2>2. db'.habit = [db.habit EXCEPT ![h] = row]
      BY <1>2, <1>6, <2>1
    <2> QED BY <1>2, <1>6, <2>1, <2>2
  <1> HIDE DEF row, h, old
  <1>8. IsRows(db') /\ StillThere(db, db')
    BY <1>2, <1>5, <1>6, <1>7 DEF IsRows, StillThere, old
  <1>9. \A g \in HabitIds :
          db.habit[g].category # "none" /\ db'.habit[g].live /\ ~ db'.habit[g].strayed =>
            /\ db.habit[g].live /\ ~ db.habit[g].strayed
            /\ db'.habit[g].order = db.habit[g].order
    BY <1>2, <1>5, <1>7 DEF old
  <1>10. stage = "failed" => SameList(db, db')
    <2>1. SUFFICES ASSUME ~ old.live PROVE SameList(db, db')
      OBVIOUS
    <2>2. \A g \in HabitIds : db'.habit[g].live = db.habit[g].live
      BY <1>2, <1>5, <1>7 DEF old
    <2>3. List!Live(db') = List!Live(db)
      BY <2>2 DEF List!Live
    <2>4. \A g \in List!Live(db) : g \in HabitIds \ {h}
      BY <2>1 DEF List!Live, old
    <2> QED BY <1>7, <1>8, <2>3, <2>4 DEF SameList
  <1>11. stage \in {"done", "failed"}
    OBVIOUS
  <1> HIDE DEF stage
  <1> QED BY <1>1, <1>3, <1>8, <1>9, <1>10, <1>11, RowStep

\* A request that is lost fails.  If it is a done mutation of habits, the
\* queries claim nothing any more; if it is a done reorder, nothing is said of
\* the numbers until its failure is heard.
LEMMA LoseStep ==
  ASSUME ListInv, NEW i \in Slots, List!Lose(i)
  PROVE  ListInv'
  <1> DEFINE own == net[i].op \in {"createCategory", "deleteCategory"}
             after(k) == IF own /\ k # "categories" THEN query[k] ELSE Q!AfterLoss(net, i, query[k])
  <1>1. /\ Q!Losable(net, i) /\ net' = Q!Lost(net, i) /\ UNCHANGED <<db, view>>
        /\ query' = [k \in DOMAIN query |-> after(k)]
    BY ListQuery DEF List!Lose
  <1>2. IsListNet(net, view.optimistic) /\ AreQueries(query, db, net)
    BY DEF ListInv
  <1>3. net' = Staged(net, i, "failed")
    BY <1>1 DEF Q!Lost, Staged
  <1>4. /\ Changed(net, net', i) /\ IsListRequest(net'[i], view.optimistic)
        /\ net'[i].op = net[i].op /\ net'[i].stage = "failed"
    BY <1>2, <1>3, StagedRequest
  <1>5. /\ IsListNet(net', view.optimistic)
        /\ ~ HabitDone(net[i]) => (NoHabitDone(net') => NoHabitDone(net))
    BY <1>2, <1>4, ChangedIs
  <1>6. ReordersDone(net') => ReordersDone(net)
    BY <1>4 DEF ReordersDone, Changed
  <1>7. query' = [habits |-> after("habits"), matrix |-> after("matrix"), categories |-> after("categories")]
    <2>1. DOMAIN query = {"habits", "matrix", "categories"}
      BY <1>2 DEF AreQueries
    <2> HIDE DEF after
    <2> QED BY <1>1, <2>1
  <1>8. \A q : IsListQuery(q, db) =>
          LET r == Q!AfterLoss(net, i, q)
          IN /\ IsListQuery(r, db) /\ (net[i].stage = "done" => \A l : Fresh(r, l))
             /\ net[i].stage # "done" => r = q
    BY ListQueryIs, UnheardIs DEF Q!AfterLoss, IsListQuery
  <1>9. IsQuery(after("categories"))
    BY <1>2, UnheardIs DEF AreQueries, Q!AfterLoss
  <1>10. AreQueries(query', db, net')
    <2>1. CASE own
      <3>1. after("habits") = query.habits /\ after("matrix") = query.matrix /\ ~ HabitDone(net[i])
        BY <2>1 DEF HabitDone
      <3> HIDE DEF after, own
      <3> QED BY <1>2, <1>5, <1>7, <1>9, <3>1 DEF AreQueries
    <2>2. CASE ~ own
      <3>1. /\ after("habits") = Q!AfterLoss(net, i, query.habits)
            /\ after("matrix") = Q!AfterLoss(net, i, query.matrix)
        BY <2>2
      <3> HIDE DEF after, own
      <3>2. CASE net[i].stage = "done"
        BY <1>2, <1>7, <1>8, <1>9, <3>1, <3>2 DEF AreQueries
      <3>3. CASE net[i].stage # "done"
        <4>1. ~ HabitDone(net[i])
          BY <3>3 DEF HabitDone
        <4> QED BY <1>2, <1>5, <1>7, <1>8, <1>9, <3>1, <3>3, <4>1 DEF AreQueries
      <3> QED BY <3>2, <3>3
    <2> QED BY <2>1, <2>2
  <1> QED BY <1>1, <1>5, <1>6, <1>10 DEF ListInv

\* A request is answered, and its slot is free.
LEMMA SettleChanges ==
  ASSUME NEW n, NEW o, IsListNet(n, o), NEW i \in Slots
  PROVE  /\ IsListNet(Q!Settle(n, i), o)
         /\ ~ HabitDone(n[i]) => (NoHabitDone(Q!Settle(n, i)) => NoHabitDone(n))
         /\ (n[i].op = "reorder" => n[i].stage = "done") =>
              (ReordersDone(Q!Settle(n, i)) => ReordersDone(n))
  <1> DEFINE m == Q!Settle(n, i)
  <1>1. IsNet(m) /\ m[i] = Q!Free /\ \A j \in Slots \ {i} : m[j] = n[j]
    BY SettleIs DEF IsListNet
  <1> HIDE DEF m
  <1>2. Changed(n, m, i) /\ IsListRequest(m[i], o) /\ m[i].op # "reorder"
    BY <1>1, FreeRequest, FreeIs DEF Changed
  <1> QED BY <1>2, ChangedIs DEF m

\* The server creates or deletes a category, or does not.
LEMMA CategoryStep ==
  ASSUME ListInv, NEW i \in Slots, NEW stage, net' = Staged(net, i, stage), UNCHANGED <<view, query>>,
         net[i].op \in {"createCategory", "deleteCategory"},
         db' = [category |-> db'.category, habit |-> db.habit]
  PROVE  ListInv'
  <1>1. IsListNet(net, view.optimistic) /\ ~ HabitDone(net[i])
    BY DEF ListInv, HabitDone
  <1>2. /\ Changed(net, net', i) /\ IsListRequest(net'[i], view.optimistic)
        /\ net'[i].op = net[i].op
    BY <1>1, StagedRequest
  <1>3. /\ IsListNet(net', view.optimistic)
        /\ NoHabitDone(net') => NoHabitDone(net)
        /\ ReordersDone(net') => ReordersDone(net)
    BY <1>1, <1>2, ChangedIs
  <1>4. db'.habit = db.habit
    OBVIOUS
  <1>5. IsRows(db') /\ StillThere(db, db')
    BY <1>4 DEF ListInv, IsRows, StillThere
  <1>6. IsHabitView(view', db')
    BY <1>5, OnceStays DEF ListInv
  <1>7. AreQueries(query, db', net')
    BY <1>3, <1>4, SameListIs, SameQueries DEF ListInv
  <1>8. IsNumbered(db, view.optimistic) => IsNumbered(db', view.optimistic)
    BY <1>4 DEF IsNumbered
  <1> QED BY <1>3, <1>5, <1>6, <1>7, <1>8 DEF ListInv

\* The answers of the server to the dialog.
LEMMA AnswerStep ==
  ASSUME ListInv, NEW i \in Slots,
         \/ List!ReorderAccepted(i) \/ List!ReorderRefused(i) \/ List!HabitChanged(i)
         \/ List!CategoriesChanged(i) \/ List!Refused(i)
  PROVE  ListInv'
  <1>0. IsListNet(net, view.optimistic)
    BY DEF ListInv
  <1>1. CASE List!ReorderAccepted(i)
    <2>1. /\ net' = Q!Settle(net, i) /\ query' = List!InvalidateAll /\ UNCHANGED <<db, view>>
          /\ net[i].stage = "done"
      BY <1>1, ListQuery DEF List!ReorderAccepted, List!Answered
    <2>2. IsListNet(net', view.optimistic) /\ (ReordersDone(net') => ReordersDone(net))
      BY <1>0, <2>1, SettleChanges
    <2>3. AreQueries(query', db, net')
      BY <2>1, AllInvalidated DEF ListInv
    <2> QED BY <2>1, <2>2, <2>3 DEF ListInv
  <1>2. CASE List!ReorderRefused(i)
    <2>1. /\ net' = Q!Settle(net, i) /\ view' = [view EXCEPT !.optimistic = <<>>] /\ UNCHANGED <<db, query>>
          /\ net[i].op = "reorder" /\ net[i].stage = "failed"
      BY <1>2, ListQuery DEF List!ReorderRefused, List!Answered, List!NoOrder
    <2>2. /\ IsListNet(net', view.optimistic) /\ (NoHabitDone(net') => NoHabitDone(net))
          /\ \A j \in Slots \ {i} : net[j].op # "reorder"
      BY <1>0, <2>1, SettleChanges DEF HabitDone, IsListNet
    <2>3. net'[i].op # "reorder" /\ \A j \in Slots \ {i} : net'[j] = net[j]
      BY <1>0, <2>1, SettleIs, FreeIs DEF IsListNet
    <2>4. \A o : IsListNet(net', o)
      BY <2>2, <2>3 DEF IsListNet, IsListRequest
    <2>5. Array!Distinct(<<>>) /\ Members(<<>>) = {} /\ DOMAIN <<>> = {}
      BY DEF Array!Distinct, Members
    <2>6. view'.optimistic = <<>> /\ IsHabitView(view', db) /\ IsNumbered(db, view'.optimistic)
      BY <2>1, <2>5 DEF ListInv, IsHabitView, ListsOnce, IsNumbered
    <2>7. AreQueries(query, db, net')
      BY <2>2, SameListIs, SameQueries DEF ListInv
    <2>8. IsRows(db)
      BY DEF ListInv
    <2> QED BY <2>1, <2>4, <2>6, <2>7, <2>8 DEF ListInv
  <1>3. CASE List!HabitChanged(i)
    <2>1. /\ net' = Staged(net, i, "refetching") /\ query' = List!InvalidateAll /\ UNCHANGED <<db, view>>
          /\ net[i].op \in {"create", "update", "delete"}
      BY <1>3 DEF List!HabitChanged, List!Answered, Staged
    <2>2. IsListNet(net', view.optimistic) /\ (ReordersDone(net') => ReordersDone(net))
      BY <1>0, <2>1, StagedRequest, ChangedIs
    <2>3. AreQueries(query', db, net')
      BY <2>1, AllInvalidated DEF ListInv
    <2> QED BY <2>1, <2>2, <2>3 DEF ListInv
  <1>4. CASE List!CategoriesChanged(i)
    <2>1. /\ net' = Staged(net, i, "refetchingCategories") /\ UNCHANGED <<db, view>>
          /\ query' = [query EXCEPT !.categories = Q!Invalidate(@, TRUE)]
          /\ net[i].op \in {"createCategory", "deleteCategory"}
      BY <1>4, ListQuery DEF List!CategoriesChanged, List!Answered, Staged
    <2>2. /\ IsListNet(net', view.optimistic) /\ (ReordersDone(net') => ReordersDone(net))
          /\ NoHabitDone(net') => NoHabitDone(net)
      BY <1>0, <2>1, StagedRequest, ChangedIs DEF HabitDone
    <2>3. AreQueries(query, db, net)
      BY DEF ListInv
    <2>4. query' = [habits |-> query.habits, matrix |-> query.matrix,
                    categories |-> Q!Invalidate(query.categories, TRUE)]
      BY <2>1, <2>3 DEF AreQueries
    <2>5. IsQuery(Q!Invalidate(query.categories, TRUE))
      BY <2>3, InvalidateIs DEF AreQueries
    <2>6. AreQueries(query', db, net')
      BY <2>2, <2>3, <2>4, <2>5 DEF AreQueries
    <2> QED BY <2>1, <2>2, <2>6 DEF ListInv
  <1>5. CASE List!Refused(i)
    <2>1. /\ net' = Q!Settle(net, i) /\ UNCHANGED <<db, query>>
          /\ net[i].op # "reorder" /\ ~ HabitDone(net[i])
          /\ view' = view \/ view' = [view EXCEPT !.saving = 0]
      BY <1>5, ListQuery DEF List!Refused, HabitDone
    <2>2. /\ IsListNet(net', view.optimistic) /\ (ReordersDone(net') => ReordersDone(net))
          /\ NoHabitDone(net') => NoHabitDone(net)
      BY <1>0, <2>1, SettleChanges
    <2>3. view'.optimistic = view.optimistic /\ IsHabitView(view', db)
      BY <2>1 DEF ListInv, IsHabitView
    <2>4. AreQueries(query, db, net')
      BY <2>2, SameListIs, SameQueries DEF ListInv
    <2> QED BY <2>1, <2>2, <2>3, <2>4 DEF ListInv
  <1> QED BY <1>1, <1>2, <1>3, <1>4, <1>5

\* Every step of the dialog and the server keeps the invariant.
LEMMA ListStep == ListInv /\ [List!Next]_vars => ListInv'
  <1> SUFFICES ASSUME ListInv, [List!Next]_vars PROVE ListInv'
    OBVIOUS
  <1>0. IsListNet(net, view.optimistic) /\ IsHabitView(view, db)
    BY DEF ListInv
  <1>1. CASE UNCHANGED vars
    <2>1. UNCHANGED <<db, view, query, net>>
      BY <1>1 DEF vars
    <2> QED BY <2>1, SameOptimistic DEF ListInv, IsHabitView
  <1>2. ASSUME NEW from, NEW to, List!DragEnd(from, to) PROVE ListInv'
    BY <1>2, DragStep
  <1>3. ASSUME NEW h, List!EditRow(h) \/ List!AskDelete(h) PROVE ListInv'
    BY <1>0, <1>3, SameOptimistic DEF List!EditRow, List!AskDelete, IsHabitView
  <1>4. CASE List!CancelEdit \/ List!KeepHabit \/ List!AddHabit \/ List!CancelCreate
    BY <1>0, <1>4, SameOptimistic
       DEF List!CancelEdit, List!KeepHabit, List!AddHabit, List!CancelCreate, IsHabitView
  <1>5. ASSUME NEW r, IsRequest(r), r.op # "reorder", r.stage = "sent",
               IsListRequest(r, view.optimistic), Q!FreeSlots(net) # {}, net' = Q!Send(net, r),
               UNCHANGED <<db, query>>,
               view' = view \/ \E w : view' = [view EXCEPT !.saving = w]
        PROVE  ListInv'
    <2>1. /\ IsListNet(net', view.optimistic)
          /\ NoHabitDone(net') => NoHabitDone(net)
          /\ ReordersDone(net') => ReordersDone(net)
      BY <1>0, <1>5, SendChanges
    <2>2. view'.optimistic = view.optimistic /\ IsHabitView(view', db)
      BY <1>0, <1>5 DEF IsHabitView
    <2>3. AreQueries(query, db, net')
      BY <2>1, SameListIs, SameQueries DEF ListInv
    <2> QED BY <1>5, <2>1, <2>2, <2>3 DEF ListInv
  <1>6. CASE List!ConfirmDelete
    <2> DEFINE r == [op |-> "delete", stage |-> "sent", id |-> view.deleting]
    <2>1. view.deleting \in HabitIds
      BY <1>6, SortableIs, ListArrays DEF List!ConfirmDelete
    <2>2. IsRequest(r) /\ IsListRequest(r, view.optimistic)
      BY <2>1 DEF IsRequest, IsListRequest
    <2>3. Q!FreeSlots(net) # {} /\ net' = Q!Send(net, r) /\ UNCHANGED <<db, view, query>>
      BY <1>6, ListQuery DEF List!ConfirmDelete, List!CanSend
    <2> QED BY <1>5, <2>2, <2>3
  <1>7. ASSUME NEW h \in HabitIds, NEW c \in Categories, List!CreateHabit(h, c) PROVE ListInv'
    <2> DEFINE r == [op |-> "create", stage |-> "sent", id |-> h, category |-> c]
    <2>2. IsRequest(r) /\ IsListRequest(r, view.optimistic)
      BY DEF IsRequest, IsListRequest
    <2>3. Q!FreeSlots(net) # {} /\ net' = Q!Send(net, r) /\ UNCHANGED <<db, view, query>>
      BY <1>7, ListQuery DEF List!CreateHabit, List!CanSend
    <2> QED BY <1>5, <2>2, <2>3
  <1>8. ASSUME NEW c, List!CreateCategory(c) PROVE ListInv'
    <2> DEFINE r == [op |-> "createCategory", stage |-> "sent", category |-> c]
    <2>2. IsRequest(r) /\ IsListRequest(r, view.optimistic)
      BY DEF IsRequest, IsListRequest
    <2>3. Q!FreeSlots(net) # {} /\ net' = Q!Send(net, r) /\ UNCHANGED <<db, view, query>>
      BY <1>8, ListQuery DEF List!CreateCategory, List!CanSend
    <2> QED BY <1>5, <2>2, <2>3
  <1>9. ASSUME NEW c, List!DeleteCategory(c) PROVE ListInv'
    <2> DEFINE r == [op |-> "deleteCategory", stage |-> "sent", category |-> c]
    <2>2. IsRequest(r) /\ IsListRequest(r, view.optimistic)
      BY DEF IsRequest, IsListRequest
    <2>3. Q!FreeSlots(net) # {} /\ net' = Q!Send(net, r) /\ UNCHANGED <<db, view, query>>
      BY <1>9, ListQuery DEF List!DeleteCategory, List!CanSend
    <2> QED BY <1>5, <2>2, <2>3
  <1>10. ASSUME NEW i \in Slots, List!ReorderCheck(i) \/ List!CountHabits(i) PROVE ListInv'
    <2>1. PICK stage \in {"checked", "failed", "counted"} :
            /\ net' = Staged(net, i, stage)
            /\ net[i].op = "reorder" => stage \in {"checked", "failed"}
      BY <1>10 DEF List!ReorderCheck, List!CountHabits, List!Arrived, Staged
    <2>2. ~ HabitDone(net[i]) /\ UNCHANGED <<db, view, query>>
      BY <1>10 DEF List!ReorderCheck, List!CountHabits, List!Arrived, HabitDone
    <2> QED BY <2>1, <2>2, SameRowsStaged
  <1>11. ASSUME NEW i \in Slots, List!ServeCreateCategory(i) \/ List!ServeDeleteCategory(i)
         PROVE  ListInv'
    <2>1. db = [category |-> db.category, habit |-> db.habit]
      BY DEF ListInv, IsRows
    <2>2. \E stage : net' = Staged(net, i, stage)
      BY <1>11 DEF List!ServeCreateCategory, List!ServeDeleteCategory, List!Answer, Staged
    <2>3. db' = db \/ \E c : db' = [db EXCEPT !.category = c]
      BY <1>11 DEF List!ServeCreateCategory, List!ServeDeleteCategory
    <2>4. db' = [category |-> db'.category, habit |-> db.habit]
      BY <2>1, <2>3
    <2>5. net[i].op \in {"createCategory", "deleteCategory"} /\ UNCHANGED <<view, query>>
      BY <1>11 DEF List!ServeCreateCategory, List!ServeDeleteCategory, List!Arrived
    <2> QED BY <2>2, <2>4, <2>5, CategoryStep
  <1>12. ASSUME NEW i \in Slots,
                \/ List!ReorderCommit(i) \/ List!UpdateRead(i) \/ List!UpdateWrite(i)
                \/ List!ServeDelete(i) \/ List!ServeCreate(i) \/ List!Lose(i)
                \/ List!ReorderAccepted(i) \/ List!ReorderRefused(i) \/ List!HabitChanged(i)
                \/ List!CategoriesChanged(i) \/ List!Refused(i)
         PROVE  ListInv'
    BY <1>12, ReorderStep, UpdateReadStep, UpdateWriteStep, DeleteStep, CreateStep, LoseStep, AnswerStep
  <1>13. ASSUME NEW q \in DOMAIN query, List!ServeQuery(q) \/ List!LandQuery(q) \/ List!FailQuery(q)
         PROVE  ListInv'
    BY <1>13, ServeStep, LandStep
  <1>14. CASE List!SaveEdit
    <2> DEFINE r == [op |-> "update", stage |-> "sent", id |-> view.editing, order |-> 0]
    <2>1. view.editing \in HabitIds
      BY <1>14, SortableIs, ListArrays DEF List!SaveEdit
    <2>2. IsRequest(r) /\ IsListRequest(r, view.optimistic)
      BY <2>1 DEF IsRequest, IsListRequest
    <2>3. /\ Q!FreeSlots(net) # {} /\ net' = Q!Send(net, r) /\ UNCHANGED <<db, query>>
          /\ \E w : view' = [view EXCEPT !.saving = w]
      BY <1>14, ListQuery DEF List!SaveEdit, List!CanSend
    <2> QED BY <1>5, <2>2, <2>3
  <1> QED BY <1>14, <1>1, <1>2, <1>3, <1>4, <1>6, <1>7, <1>8, <1>9, <1>10, <1>11, <1>12, <1>13 DEF List!Next

-----------------------------------------------------------------------------
(* What the dialog and the table show *)

\* Once nothing is in flight, both have the list of the server, unless they
\* missed something.
LEMMA ListSettles ==
  ASSUME ListInv, List!Settled
  PROVE  /\ ~ query.habits.missed => query.habits.data = List!ListHabits(db)
         /\ ~ query.matrix.missed => query.matrix.data = List!ListHabits(db)
         /\ ReordersDone(net)
  <1>1. \A i \in Slots : net[i] = Q!Free
    BY ListQuery DEF List!Settled, Q!Quiet, Q!FreeSlots, ListInv, IsListNet, IsNet
  <1>2. NoHabitDone(net) /\ ReordersDone(net)
    BY <1>1, FreeIs DEF NoHabitDone, HabitDone, ReordersDone
  <1>3. query.habits.stage = "idle" /\ query.matrix.stage = "idle"
    BY ListQuery DEF List!Settled, Q!Idle, ListInv, AreQueries
  <1>4. /\ IsListQuery(query.habits, db) /\ Fresh(query.habits, List!ListHabits(db))
        /\ IsListQuery(query.matrix, db) /\ Fresh(query.matrix, List!ListHabits(db))
    BY <1>2 DEF ListInv, AreQueries
  <1> QED BY <1>2, <1>3, <1>4 DEF IsListQuery, Kept, Fresh

\* What is shown are the habits of the dialog's list; settled, those of the server.
LEMMA HabitsListed == ListInv => List!EveryHabitListed
  <1> SUFFICES ASSUME ListInv
               PROVE  /\ List!IsInjective(List!Shown)
                      /\ List!ToSet(List!Shown) = List!ToSet(query.habits.data)
                      /\ List!Settled /\ ~ query.habits.missed =>
                           List!ToSet(List!Shown) = List!Live(db)
    BY DEF List!EveryHabitListed
  <1>1. ListsOnce(db, List!Shown) /\ Members(List!Shown) = Members(query.habits.data)
    BY OrderedIs DEF ListInv, AreQueries, IsListQuery, IsHabitView, ListsOnce, List!Shown
  <1>2. List!IsInjective(List!Shown)
    BY <1>1, DistinctIs DEF ListsOnce, List!IsInjective
  <1>3. ASSUME List!Settled, ~ query.habits.missed PROVE Members(List!Shown) = List!Live(db)
    <2>1. query.habits.data = List!ListHabits(db) /\ IsRows(db)
      BY <1>3, ListSettles DEF ListInv
    <2> QED BY <1>1, <2>1, ListHabitsIs
  <1> QED BY <1>1, <1>2, <1>3, ListArrays

\* Settled, a habit dragged before another has the lower number.
LEMMA OrderKept == ListInv => List!DraggedOrderKept
  <1> DEFINE o == view.optimistic
             D == {h \in List!ToSet(o) : ~ db.habit[h].strayed}
             H == List!ListHabits(db)
             kept == List!Filter(o, Members(H))
             s == List!Filter(List!Shown, D)
             t == List!Filter(H, D)
  <1> SUFFICES ASSUME ListInv, List!Settled, ~ query.habits.missed, ~ query.matrix.missed
               PROVE  s = List!Filter(query.matrix.data, D)
    BY DEF List!DraggedOrderKept
  <1>1. /\ query.habits.data = H /\ query.matrix.data = H /\ IsRows(db) /\ IsNumbered(db, o)
        /\ ListsOnce(db, H) /\ Array!Distinct(o)
    BY ListSettles, ListHabitsOnce DEF ListInv, IsHabitView, ListsOnce
  <1>2. /\ Array!Distinct(H) /\ Members(H) = List!Live(db)
        /\ \A x, y \in Members(H) : db.habit[x].order < db.habit[y].order => Ahead(H, x, y)
    BY <1>1, ListHabitsIs
  <1>3. /\ Array!Distinct(List!Shown) /\ Members(List!Shown) = Members(H)
        /\ \A x, y : Ahead(kept, x, y) => Ahead(List!Shown, x, y)
    BY <1>1, OrderedIs DEF ListsOnce, List!Shown
  <1>4. Filtered(kept, o, Members(H))
    BY <1>1, FilterIs
  <1>5. D \subseteq Members(o) /\ \A h \in D : ~ db.habit[h].strayed
    BY ListArrays
  <1> HIDE DEF kept, D, H
  <1>6. Filtered(s, List!Shown, D)
    BY <1>3, FilterIs
  <1>7. Filtered(t, H, D)
    BY <1>2, FilterIs
  <1> HIDE DEF s, t
  <1>8. ASSUME NEW x, NEW y, Ahead(s, x, y) PROVE Ahead(t, x, y)
    <2>1. x \in D /\ y \in D /\ Ahead(List!Shown, x, y)
      BY <1>6, <1>8 DEF Filtered
    <2>2. x \in Members(H) /\ y \in Members(H) /\ x # y
      <3> DEFINE u == List!Shown
      <3>1. DOMAIN u = 1..Len(u) /\ Len(u) \in Nat /\ \A j, k \in DOMAIN u : u[j] = u[k] => j = k
        BY <1>3, DistinctIs
      <3> HIDE DEF u
      <3>2. PICK j \in DOMAIN u, k \in DOMAIN u : j < k /\ u[j] = x /\ u[k] = y
        BY <2>1 DEF Ahead, u
      <3>3. j # k
        BY <3>1, <3>2
      <3>4. x \in Members(u) /\ y \in Members(u)
        BY <3>2 DEF Members
      <3> QED BY <1>3, <3>1, <3>2, <3>3, <3>4 DEF u
    <2>3. Ahead(o, x, y)
      <3>1. ~ Ahead(List!Shown, y, x)
        BY <1>3, <2>1, <2>2, AheadIs
      <3>2. ~ Ahead(o, y, x)
        BY <1>3, <1>4, <2>2, <3>1 DEF Filtered
      <3> QED BY <1>1, <1>5, <2>1, <2>2, <3>2, AheadIs
    <2>4. PICK j \in DOMAIN o, k \in DOMAIN o : j < k /\ o[j] = x /\ o[k] = y
      BY <2>3 DEF Ahead
    <2>5. db.habit[x].live /\ db.habit[y].live
      BY <1>2, <2>2 DEF List!Live
    <2>6. db.habit[x].order = j /\ db.habit[y].order = k
      BY <1>1, <1>5, <2>1, <2>4, <2>5 DEF IsNumbered
    <2>7. Ahead(H, x, y)
      BY <1>2, <2>2, <2>4, <2>6
    <2> QED BY <1>7, <2>1, <2>7 DEF Filtered
  <1>9. s = t
    BY <1>3, <1>6, <1>7, <1>8, SameOrder DEF Filtered
  <1> QED BY <1>1, <1>9 DEF t

-----------------------------------------------------------------------------
(* The pages together *)

\* The invariant of the page that is open.
PagesInv ==
  /\ page = "habit" => EntryInv
  /\ page = "habits" => ListInv
  /\ page = "notes" => NotesInv
  /\ page = "tasks" => TasksInv
  /\ page = "reminders" => RemindersInv /\ FormsInv
  /\ page = "dashboard" => DashboardInv /\ WidgetsInv

\* Every page opens with its invariant.
LEMMA PagesInit == Init => PagesInv
  BY EntryInit, ListInit, NotesInit, TasksInit, RemindersInit, FormsInit, DashboardInit, WidgetsInit
     DEF Init, PagesInv

\* Every step of the open page keeps its invariant.
LEMMA PagesStep == PagesInv /\ [Next]_vars => PagesInv'
  <1> SUFFICES ASSUME PagesInv, [Next]_vars PROVE PagesInv'
    OBVIOUS
  <1>1. UNCHANGED page
    BY DEF Next, vars
  <1>2. /\ page = "habit" => [Entry!Next]_vars
        /\ page = "habits" => [List!Next]_vars
        /\ page = "notes" => [Notes!Next]_vars
        /\ page = "tasks" => [Tasks!Next]_vars
        /\ page = "reminders" => [Reminders!Next]_vars
        /\ page = "dashboard" => [Dashboard!Next]_vars
    BY DEF Next
  <1>3. CASE page = "habit"
    BY <1>1, <1>2, <1>3, EntryStep DEF PagesInv
  <1>4. CASE page = "notes"
    BY <1>1, <1>2, <1>4, NotesStep DEF PagesInv
  <1>5. CASE page = "tasks"
    BY <1>1, <1>2, <1>5, TasksStep DEF PagesInv
  <1>6. CASE page = "reminders"
    BY <1>1, <1>2, <1>6, RemindersStep, FormsStep DEF PagesInv
  <1>7. CASE page = "dashboard"
    BY <1>1, <1>2, <1>7, DashboardStep, WidgetsStep DEF PagesInv
  <1>8. CASE page = "habits"
    BY <1>1, <1>2, <1>8, ListStep DEF PagesInv
  <1> QED BY <1>1, <1>3, <1>4, <1>5, <1>6, <1>7, <1>8 DEF PagesInv

\* Whatever page is open keeps its invariant: what its queries claim of the
\* server, and what is typed, dragged or in flight.
THEOREM PagesInvariant == Spec => []PagesInv
  BY PagesInit, PagesStep, PTL DEF Spec

\* Once nothing is in flight, a page shows what the server has, however the
\* server and the network ordered its mutations and refetches, except for what
\* missed a mutation: its answer was lost, or was an error though it was done,
\* or a fetch failed, and nothing was fetched since.
THEOREM PagesDoSettle == Spec => []PagesSettle
  <1>1. PagesInv => PagesSettle
    BY DashboardSettles, NotesSettle, TasksSettle, RemindersSettled, EntrySettles
       DEF PagesInv, PagesSettle
  <1> QED BY <1>1, PagesInvariant, PTL

\* What the page computes of a habit and a value, completion, percentage and
\* schedule, is what the server computes (habitMatrixUtils.ts:66).
THEOREM MirrorStaysInSync == Spec => []MirrorInSync
  <1>1. PagesInv => MirrorInSync
    BY EntryMirror DEF PagesInv, MirrorInSync
  <1> QED BY <1>1, PagesInvariant, PTL

\* A save from a row opened while no other save was in flight, on a list that
\* had missed none, changes no field but those the user entered, unless another
\* save has written the habit between its read and its write (habit.go:316).
THEOREM KeepsUntouchedFields == Spec => UntouchedFieldsKept
  <1>1. PagesInv /\ [Next]_vars => [page = "habit" => Entry!KeepsUntouchedFields]_vars
    BY EntryUntouched DEF PagesInv
  <1> QED BY <1>1, PagesInvariant, PTL DEF Spec, UntouchedFieldsKept

\* A note's draft is saved to the note whose text the form was opened with.
THEOREM DraftsStayApart == Spec => DraftGoesToItsNote
  <1>1. PagesInv /\ [Next]_vars => [page = "notes" => Notes!KeepsDraftsApart]_vars
    BY NotesApart DEF PagesInv
  <1> QED BY <1>1, PagesInvariant, PTL DEF Spec, DraftGoesToItsNote

\* A reminder's form sends the schedule it shows.
THEOREM FormsDoAgree == Spec => []FormAgrees
  <1>1. PagesInv => FormAgrees
    BY FormsAgree DEF PagesInv, FormAgrees
  <1> QED BY <1>1, PagesInvariant, PTL

\* The dialog lists every habit of its list once, and of the server unless it
\* missed something, whatever was dragged, created and deleted since
\* (ManageHabitsDialog.tsx, orderedHabits).
THEOREM HabitsAreListed == Spec => []EveryHabitListed
  <1>1. PagesInv => EveryHabitListed
    BY HabitsListed DEF PagesInv, EveryHabitListed
  <1> QED BY <1>1, PagesInvariant, PTL

\* The habits that were dragged stand in the table in the dialog's order, but
\* for those a revival or an edit that overlapped the reorder made stray, and a
\* refused reorder leaves no trace.
THEOREM DraggedOrderIsKept == Spec => []DraggedOrderKept
  <1>1. PagesInv => DraggedOrderKept
    BY OrderKept DEF PagesInv, DraggedOrderKept
  <1> QED BY <1>1, PagesInvariant, PTL

\* The dashboard shows, and saves, every widget once, whatever was stored.
THEOREM WidgetsAreOnce == Spec => []EveryWidgetOnce
  <1>1. PagesInv => EveryWidgetOnce
    BY WidgetsOnce DEF PagesInv, EveryWidgetOnce
  <1> QED BY <1>1, PagesInvariant, PTL
=============================================================================
