---------------------------- MODULE RoutingProofs ----------------------------
(***************************************************************************)
(* Machine-checked theorems about Routing, for identifiers of any width,   *)
(* buckets of any size, and any nodes, strangers and local identifiers;    *)
(* and about the lookup of Maintenance that fills the table, for any       *)
(* candidates and limits.                                                  *)
(***************************************************************************)
EXTENDS Routing, Maintenance, FiniteSetTheorems, SequenceTheorems, WellFoundedInduction,
        TLAPS

-----------------------------------------------------------------------------
(* Counting and sharing out a bucket.                                      *)

(* A set of numbers that is not empty has a least one.                     *)
LEMMA Least ==
    ASSUME NEW S \in SUBSET Nat, S # {}
    PROVE  \E n \in S : \A m \in S : n <= m
<1>1. PICK n \in S : \A m \in S : ~(<<m, n>> \in OpToRel(<, Nat))
  BY NatLessThanWellFounded, WFMin
<1>2. \A m \in S : m \in Nat /\ n \in Nat /\ ~(m < n)
  BY <1>1 DEF OpToRel
<1>3. \A m \in S : n <= m
  BY <1>2
<1> QED
  BY <1>3

LEMMA FirstIsLeast ==
    ASSUME NEW S \in SUBSET Nat, S # {}
    PROVE  First(S) \in S /\ \A m \in S : First(S) <= m
  BY Least DEF First

(* The places of a bucket can be listed in order.                          *)
Lists(K, n, f) ==
    /\ f \in [1..n -> K]
    /\ \A i, j \in 1..n : i < j => f[i] < f[j]
    /\ \A k \in K : \E i \in 1..n : f[i] = k
LEMMA Listed ==
    ASSUME NEW N \in Nat, NEW K \in SUBSET (1..N)
    PROVE  \E n \in 0..N : \E f : Lists(K, n, f)
<1> DEFINE Fine(m) == \A L \in SUBSET (1..m) : \E n \in 0..m : \E f : Lists(L, n, f)
           Poor == {m \in Nat : ~Fine(m)}
<1>1. Fine(0)
  <2> SUFFICES ASSUME NEW L \in SUBSET (1..0) PROVE \E n \in 0..0 : \E f : Lists(L, n, f)
    OBVIOUS
  <2>1. L = {} /\ 1..0 = {}
    OBVIOUS
  <2>2. Lists(L, 0, [i \in 1..0 |-> i])
    BY <2>1 DEF Lists
  <2> QED
    BY <2>2
<1>2. ASSUME NEW m \in Nat, Fine(m) PROVE Fine(m + 1)
  <2> SUFFICES ASSUME NEW L \in SUBSET (1..(m + 1))
               PROVE  \E n \in 0..(m + 1) : \E f : Lists(L, n, f)
    OBVIOUS
  <2>1. CASE m + 1 \notin L
    <3>1. L \in SUBSET (1..m)
      BY <2>1
    <3>p. PICK n \in 0..m : \E f : Lists(L, n, f)
      BY <3>1, <1>2
    <3>2. PICK f : Lists(L, n, f)
      BY <3>p
    <3> QED
      BY <3>2
  <2>2. CASE m + 1 \in L
    <3> DEFINE O == L \ {m + 1}
    <3>1. O \in SUBSET (1..m)
      OBVIOUS
    <3>p. PICK n \in 0..m : \E f : Lists(O, n, f)
      BY <3>1, <1>2
    <3>2. PICK f : Lists(O, n, f)
      BY <3>p
    <3> DEFINE g == [i \in 1..(n + 1) |-> IF i = n + 1 THEN m + 1 ELSE f[i]]
    <3>a. \A i \in 1..n : f[i] \in O
      BY <3>2 DEF Lists
    <3>b. \A k \in O : k \in L /\ k < m + 1 /\ k \in Nat
      BY <3>1
    <3>3. /\ \A i \in 1..n : f[i] \in L /\ f[i] < m + 1 /\ f[i] \in Nat /\ g[i] = f[i]
          /\ g[n + 1] = m + 1
      <4>1. /\ \A i \in 1..n : g[i] = f[i]
            /\ g[n + 1] = m + 1
        OBVIOUS
      <4> QED
        BY <3>a, <3>b, <4>1
    <3>4. g \in [1..(n + 1) -> L]
      BY <3>3, <2>2
    <3>5. \A i, j \in 1..(n + 1) : i < j => g[i] < g[j]
      <4> SUFFICES ASSUME NEW i \in 1..(n + 1), NEW j \in 1..(n + 1), i < j PROVE g[i] < g[j]
        OBVIOUS
      <4>1. i \in 1..n /\ (j \in 1..n \/ j = n + 1)
        OBVIOUS
      <4> HIDE DEF g
      <4> QED
        BY <4>1, <3>2, <3>3 DEF Lists
    <3>6. \A k \in L : \E i \in 1..(n + 1) : g[i] = k
      <4> SUFFICES ASSUME NEW k \in L PROVE \E i \in 1..(n + 1) : g[i] = k
        OBVIOUS
      <4>1. CASE k = m + 1
        BY <3>3, <4>1
      <4>2. CASE k # m + 1
        <5>1. PICK i \in 1..n : f[i] = k
          BY <3>2, <4>2 DEF Lists
        <5> QED
          BY <3>3, <5>1
      <4> QED
        BY <4>1, <4>2
    <3> HIDE DEF g
    <3>7. Lists(L, n + 1, g) /\ n + 1 \in 0..(m + 1)
      BY <3>4, <3>5, <3>6 DEF Lists
    <3> QED
      BY <3>7
  <2> QED
    BY <2>1, <2>2
<1>3. Poor = {}
  <2> SUFFICES ASSUME Poor # {} PROVE FALSE
    OBVIOUS
  <2>0. Poor \in SUBSET Nat
    OBVIOUS
  <2> HIDE DEF Fine
  <2>1. PICK m \in Poor : \A k \in Poor : m <= k
    BY <2>0, Least
  <2>2. m \in Nat /\ ~Fine(m)
    OBVIOUS
  <2>3. m # 0
    BY <1>1, <2>2
  <2>4. m - 1 \in Nat /\ m - 1 \notin Poor
    BY <2>1, <2>2, <2>3
  <2>5. Fine(m - 1)
    BY <2>4
  <2>6. Fine((m - 1) + 1)
    BY <2>4, <2>5, <1>2
  <2> QED
    BY <2>2, <2>6
<1>4. Fine(N)
  BY <1>3
<1> QED
  BY <1>4

(* Increasing lists a set of places: one position for each, in order.      *)
LEMMA InOrder ==
    ASSUME NEW N \in Nat, NEW K \in SUBSET (1..N)
    PROVE  /\ Cardinality(K) \in 0..N
           /\ Lists(K, Cardinality(K), Increasing(K))
<1>0. \A k \in K : k \in Nat
  OBVIOUS
<1>p. PICK n \in 0..N : \E f : Lists(K, n, f)
  BY Listed
<1>1. PICK f : Lists(K, n, f)
  BY <1>p
<1>2. f \in Bijection(1..n, K)
  <2>1. f \in Injection(1..n, K)
    <3>1. \A i, j \in 1..n : f[i] = f[j] => i = j
      <4>1. \A i \in 1..n : f[i] \in Nat
        <5>1. \A i \in 1..n : f[i] \in K
          BY <1>1 DEF Lists
        <5> QED
          BY <1>0, <5>1
      <4> QED
        BY <1>1, <4>1 DEF Lists
    <3> QED
      BY <1>1, <3>1 DEF Lists, Injection, IsInjective
  <2>2. f \in Surjection(1..n, K)
    BY <1>1 DEF Lists, Surjection
  <2> QED
    BY <2>1, <2>2 DEF Bijection
<1>3. IsFiniteSet(1..n) /\ Cardinality(1..n) = n
  BY FS_Interval
<1>4. ExistsBijection(1..n, K)
  BY <1>2 DEF ExistsBijection
<1>5. Cardinality(K) = n /\ IsFiniteSet(K)
  BY <1>3, <1>4, FS_Bijection
<1> DEFINE g == Increasing(K)
<1>6. /\ g \in [1..n -> K]
      /\ \A i, j \in DOMAIN g : i < j => g[i] < g[j]
  <2>1. f \in [1..Cardinality(K) -> K] /\ \A i, j \in DOMAIN f : i < j => f[i] < f[j]
    BY <1>1, <1>5 DEF Lists
  <2>2. /\ g \in [1..Cardinality(K) -> K]
        /\ \A i, j \in DOMAIN g : i < j => g[i] < g[j]
    BY <2>1 DEF Increasing
  <2> QED
    BY <2>2, <1>5
<1> HIDE DEF g
<1>7. g \in Injection(1..n, K)
  <2>0. \A i \in 1..n : g[i] \in K
    BY <1>6
  <2>1. \A i, j \in 1..n : g[i] = g[j] => i = j
    <3>1. \A i \in 1..n : g[i] \in Nat
      BY <1>0, <2>0
    <3>2. \A i, j \in 1..n : i < j => g[i] < g[j]
      BY <1>6
    <3> QED
      BY <3>1, <3>2
  <2> QED
    BY <1>6, <2>1 DEF Injection, IsInjective
<1>8. g \in Surjection(1..n, K)
  BY <1>3, <1>5, <1>7, FS_Injection
<1>9. Lists(K, n, g)
  BY <1>6, <1>8 DEF Lists, Surjection
<1> QED
  BY <1>5, <1>9 DEF g

(* One half's share of a bucket: its contacts, no longer than the bucket.  *)
IsShare(t, s, r) ==
    /\ t \in Seq(Contacts) /\ Len(t) <= Len(s)
    /\ \A i \in DOMAIN t : \E j \in DOMAIN s : t[i] = s[j] /\ contains(r, s[j].id)
    /\ \A j \in DOMAIN s : contains(r, s[j].id) => \E i \in DOMAIN t : t[i] = s[j]
LEMMA Shared ==
    ASSUME NEW s \in Seq(Contacts), NEW r PROVE IsShare(Share(s, r), s, r)
<1> DEFINE K == {i \in DOMAIN s : contains(r, s[i].id)}
           places == Increasing(K)
           n == Cardinality(K)
           t == Share(s, r)
<1>1. DOMAIN s = 1..Len(s) /\ Len(s) \in Nat /\ \A i \in DOMAIN s : s[i] \in Contacts
  BY LenProperties, ElementOfSeq
<1>2. K \in SUBSET (1..Len(s)) /\ \A k \in K : k \in DOMAIN s /\ contains(r, s[k].id)
  BY <1>1
<1>3. t = [i \in DOMAIN places |-> s[places[i]]]
  BY DEF Share
<1>4. \A j \in DOMAIN s : contains(r, s[j].id) => j \in K
  OBVIOUS
<1> HIDE DEF K, t
<1>5. n \in 0..Len(s) /\ Lists(K, n, places)
  BY <1>1, <1>2, InOrder
<1> HIDE DEF n, places
<1>6. DOMAIN places = 1..n /\ \A i \in 1..n : places[i] \in K
  BY <1>5 DEF Lists
<1>7. DOMAIN t = 1..n /\ \A i \in 1..n : t[i] = s[places[i]]
  BY <1>3, <1>6
<1>8. t \in [1..n -> Contacts]
  BY <1>1, <1>2, <1>3, <1>6
<1>9. t \in Seq(Contacts) /\ Len(t) = n
  <2>1. n \in Nat
    BY <1>1, <1>5
  <2>2. t \in Seq(Contacts)
    BY <1>8, <2>1, SeqDef
  <2>3. DOMAIN t = 1..Len(t) /\ Len(t) \in Nat
    BY <2>2, LenProperties
  <2> QED
    BY <1>7, <2>1, <2>2, <2>3
<1>10. \A i \in DOMAIN t : \E j \in DOMAIN s : t[i] = s[j] /\ contains(r, s[j].id)
  BY <1>2, <1>6, <1>7
<1>11. \A j \in DOMAIN s : contains(r, s[j].id) => \E i \in DOMAIN t : t[i] = s[j]
  <2> SUFFICES ASSUME NEW j \in DOMAIN s, contains(r, s[j].id)
               PROVE  \E i \in DOMAIN t : t[i] = s[j]
    OBVIOUS
  <2>1. PICK i \in 1..n : places[i] = j
    BY <1>4, <1>5 DEF Lists
  <2> QED
    BY <1>7, <2>1
<1>12. Len(t) <= Len(s)
  BY <1>1, <1>5, <1>9
<1> QED
  BY <1>9, <1>10, <1>11, <1>12 DEF t, IsShare

-----------------------------------------------------------------------------
(* Ranges.                                                                 *)

(* The half with the next bit of an identifier contains it, and no other.  *)
LEMMA Halves ==
    ASSUME NEW r \in Seq({0, 1}), Len(r) < Bits
    PROVE  /\ \A q \in split(r) : q \in Seq({0, 1}) /\ Len(q) = Len(r) + 1
           /\ \A q \in split(r), id \in Ids : contains(q, id) => contains(r, id)
           /\ \A id \in Ids : contains(r, id) => \E q \in split(r) : contains(q, id)
           /\ \A p, q \in split(r), id \in Ids : contains(p, id) /\ contains(q, id) => p = q
<1>1. Len(r) \in Nat /\ Bits \in Nat /\ DOMAIN r = 1..Len(r)
  BY WidthAssumption, LenProperties
<1>2. ASSUME NEW v \in {0, 1}
      PROVE  /\ Append(r, v) \in Seq({0, 1}) /\ Len(Append(r, v)) = Len(r) + 1
             /\ DOMAIN Append(r, v) = 1..(Len(r) + 1)
             /\ \A i \in 1..Len(r) : Append(r, v)[i] = r[i]
             /\ Append(r, v)[Len(r) + 1] = v
  BY <1>1, AppendProperties, LenProperties
<1>3. ASSUME NEW v \in {0, 1}, NEW id \in Ids
      PROVE  contains(Append(r, v), id) <=> contains(r, id) /\ id[Len(r) + 1] = v
  <2> DEFINE q == Append(r, v)
             n == Len(r)
  <2>1. /\ DOMAIN q = 1..(n + 1) /\ \A i \in 1..n : q[i] = r[i]
        /\ q[n + 1] = v
    BY <1>2
  <2> HIDE DEF q, n
  <2>2. contains(q, id) <=> \A i \in 1..(n + 1) : q[i] = id[i]
    BY <2>1 DEF contains
  <2>3. contains(r, id) <=> \A i \in 1..n : r[i] = id[i]
    BY <1>1 DEF contains, n
  <2>4. n \in Nat
    BY <1>1 DEF n
  <2>5. contains(q, id) <=> contains(r, id) /\ id[n + 1] = v
    BY <2>1, <2>2, <2>3, <2>4
  <2> QED
    BY <2>5 DEF q, n
<1>4. \A id \in Ids : id[Len(r) + 1] \in {0, 1}
  <2>1. Len(r) + 1 \in 1..Bits
    BY <1>1
  <2> QED
    BY <2>1 DEF Ids
<1>5. \A q : q \in split(r) <=> \E v \in {0, 1} : q = Append(r, v)
  BY DEF split
<1>6. ASSUME NEW id \in Ids, contains(r, id) PROVE \E q \in split(r) : contains(q, id)
  BY <1>3, <1>4, <1>5, <1>6
<1>7. \A q \in split(r) : q \in Seq({0, 1}) /\ Len(q) = Len(r) + 1
  BY <1>2, <1>5
<1>8. \A q \in split(r), id \in Ids : contains(q, id) => contains(r, id)
  BY <1>3, <1>5
<1>9. ASSUME NEW p \in split(r), NEW q \in split(r), NEW id \in Ids,
             contains(p, id), contains(q, id)
      PROVE  p = q
  <2>1. PICK v \in {0, 1} : p = Append(r, v)
    BY <1>5
  <2>2. PICK w \in {0, 1} : q = Append(r, w)
    BY <1>5
  <2>3. v = w
    BY <1>3, <1>9, <2>1, <2>2
  <2> QED
    BY <2>1, <2>2, <2>3
<1> QED
  BY <1>6, <1>7, <1>8, <1>9

(* No range is empty.                                                      *)
LEMMA Inhabited ==
    ASSUME NEW r \in Seq({0, 1}), Len(r) <= Bits
    PROVE  \E id \in Ids : contains(r, id)
<1> DEFINE id == [i \in 1..Bits |-> IF i <= Len(r) THEN r[i] ELSE 0]
<1>1. /\ Len(r) \in Nat /\ Bits \in Nat /\ DOMAIN r = 1..Len(r)
      /\ \A i \in 1..Len(r) : r[i] \in {0, 1}
  BY WidthAssumption, LenProperties, ElementOfSeq
<1>2. id \in Ids
  BY <1>1 DEF Ids
<1>3. \A i \in DOMAIN r : i \in 1..Bits /\ i <= Len(r)
  BY <1>1
<1>4. contains(r, id)
  BY <1>3 DEF contains
<1> HIDE DEF id
<1> QED
  BY <1>2, <1>4


-----------------------------------------------------------------------------
(* Tables.                                                                 *)

(* The table has a contact of this identifier, or one that is not bad.     *)
Holds(b, id) == \E r \in DOMAIN b : \E i \in DOMAIN b[r] : b[r][i].id = id
Lives(b, id) ==
    \E r \in DOMAIN b : \E i \in DOMAIN b[r] :
        b[r][i].id = id /\ b[r][i].fails < MAX_CONSECUTIVE_FAILURES
(* No contact that is not bad leaves the table for good.                   *)
KeptBy(b, d) == \A id : Lives(b, id) => Lives(d, id)
(* A contact of this identifier has not failed at all.                     *)
Fresh(b, id) ==
    \E r \in DOMAIN b : \E i \in DOMAIN b[r] : b[r][i].id = id /\ b[r][i].fails = 0

LEMMA KeptTwice ==
    ASSUME NEW b, NEW d, NEW e, KeptBy(b, d), KeptBy(d, e) PROVE KeptBy(b, e)
  BY DEF KeptBy
LEMMA KeptSame == \A b : KeptBy(b, b)
  BY DEF KeptBy
LEMMA LivesHolds == \A b, id : Lives(b, id) => Holds(b, id)
  BY DEF Lives, Holds
LEMMA FreshLives == \A b, id : Fresh(b, id) => Lives(b, id)
  BY DEF Fresh, Lives, MAX_CONSECUTIVE_FAILURES

(* What a table is made of.                                                *)
LEMMA Buckets ==
    ASSUME NEW b, IsTable(b), NEW r \in DOMAIN b
    PROVE  /\ b[r] \in Seq(Contacts) /\ Len(b[r]) \in Nat /\ DOMAIN b[r] = 1..Len(b[r])
           /\ \A i \in DOMAIN b[r] : b[r][i] \in Contacts
           /\ r \in Seq({0, 1}) /\ Len(r) \in Nat /\ Len(r) <= Bits
           /\ \A i \in DOMAIN b[r] : /\ b[r][i].id \in Ids /\ b[r][i].address \in Addresses
                                     /\ b[r][i].fails \in 0..2 /\ b[r][i].stale \in BOOLEAN
<1>1. b[r] \in Seq(Contacts) /\ r \in Seq({0, 1}) /\ Len(r) <= Bits
  BY DEF IsTable
<1>2. /\ Len(b[r]) \in Nat /\ DOMAIN b[r] = 1..Len(b[r])
      /\ \A i \in DOMAIN b[r] : b[r][i] \in Contacts
  BY <1>1, LenProperties, ElementOfSeq
<1>3. Len(r) \in Nat
  BY <1>1, LenProperties
<1>4. \A c \in Contacts : /\ c.id \in Ids /\ c.address \in Addresses
                          /\ c.fails \in 0..2 /\ c.stale \in BOOLEAN
  BY DEF Contacts, MAX_CONSECUTIVE_FAILURES
<1> QED
  BY <1>1, <1>2, <1>3, <1>4

(* bucket_index finds the one range of an identifier.                      *)
LEMMA Found ==
    ASSUME NEW b, IsTable(b), NEW id \in Ids
    PROVE  /\ bucket_index(b, id) \in DOMAIN b /\ contains(bucket_index(b, id), id)
           /\ \A r \in DOMAIN b : contains(r, id) => r = bucket_index(b, id)
<1>1. \E r \in DOMAIN b : contains(r, id)
  BY DEF IsTable
<1>2. bucket_index(b, id) \in DOMAIN b /\ contains(bucket_index(b, id), id)
  BY <1>1 DEF bucket_index
<1> HIDE DEF bucket_index
<1> QED
  BY <1>2 DEF IsTable

(* contact finds one of an identifier's contacts, whenever there is one.   *)
LEMMA KnownIsHeld ==
    ASSUME NEW b, NEW me, Sound(b, me), NEW id \in Ids
    PROVE  Known(b, id) <=> Holds(b, id)
<1> DEFINE r == bucket_index(b, id)
<1>1. IsTable(b)
  BY DEF Sound
<1>2. r \in DOMAIN b /\ \A q \in DOMAIN b : contains(q, id) => q = r
  BY <1>1, Found
<1>3. Known(b, id) <=> \E j \in DOMAIN b[r] : b[r][j].id = id
  BY DEF Known, Matching
<1> HIDE DEF r
<1>4. \A q \in DOMAIN b : \A i \in DOMAIN b[q] : contains(q, b[q][i].id)
  BY DEF Sound, Tidy
<1>5. ASSUME Holds(b, id) PROVE \E j \in DOMAIN b[r] : b[r][j].id = id
  <2>1. PICK q \in DOMAIN b : \E i \in DOMAIN b[q] : b[q][i].id = id
    BY <1>5 DEF Holds
  <2>2. q = r
    BY <1>2, <1>4, <2>1
  <2> QED
    BY <2>1, <2>2
<1>6. ASSUME \E j \in DOMAIN b[r] : b[r][j].id = id PROVE Holds(b, id)
  BY <1>2, <1>6 DEF Holds
<1> QED
  BY <1>3, <1>5, <1>6

LEMMA ContactFound ==
    ASSUME NEW b, IsTable(b), NEW id \in Ids, Known(b, id)
    PROVE  \E i \in DOMAIN b[bucket_index(b, id)] :
             /\ contact(b, id) = <<bucket_index(b, id), i>>
             /\ b[bucket_index(b, id)][i].id = id
<1> DEFINE r == bucket_index(b, id)
           J == {j \in DOMAIN b[r] : b[r][j].id = id}
           M == Matching(b, id)
<1>1. r \in DOMAIN b
  BY Found
<1>2. M = {<<r, i>> : i \in J}
  BY DEF Matching
<1>3. M # {}
  BY DEF Known
<1>4. J \in SUBSET Nat /\ \A j \in J : j \in DOMAIN b[r] /\ b[r][j].id = id
  <2> HIDE DEF r
  <2>1. DOMAIN b[r] = 1..Len(b[r]) /\ Len(b[r]) \in Nat
    BY <1>1, Buckets
  <2> QED
    BY <2>1
<1> HIDE DEF r, J, M
<1>5. J # {}
  BY <1>2, <1>3
<1>6. PICK n \in J : \A m \in J : n <= m
  BY <1>4, <1>5, Least
<1>7. \A p \in M : \E i \in J : p = <<r, i>> /\ p[2] = i
  BY <1>2
<1>8. <<r, n>> \in M /\ \A q \in M : <<r, n>>[2] <= q[2]
  BY <1>2, <1>6, <1>7
<1>9. contact(b, id) \in M
  BY <1>8 DEF contact, M
<1> QED
  BY <1>4, <1>7, <1>9 DEF r

(* One contact of a table is written over.                                 *)
Rewritten(b, d, me, r, i, c) ==
    /\ Sound(d, me)
    /\ (b[r][i].fails < 2 => c.id = b[r][i].id /\ c.fails < 2) => KeptBy(b, d)
    /\ c.id = b[r][i].id => /\ \A id : Holds(b, id) => Holds(d, id)
                            /\ \A id : Lives(b, id) /\ id # c.id => Lives(d, id)
    /\ \A q \in DOMAIN b : \A j \in DOMAIN b[q] : q # r \/ j # i =>
         q \in DOMAIN d /\ j \in DOMAIN d[q] /\ d[q][j] = b[q][j]
LEMMA Written ==
    ASSUME NEW b, NEW me, Sound(b, me), NEW r \in DOMAIN b, NEW i \in DOMAIN b[r],
           NEW c \in Contacts, contains(r, c.id), c.id # me
    PROVE  Rewritten(b, [b EXCEPT ![r][i] = c], me, r, i, c)
<1> DEFINE d == [b EXCEPT ![r][i] = c]
<1>1. IsTable(b) /\ Tidy(b, me)
  BY DEF Sound
<1>2. b[r] \in Seq(Contacts) /\ Len(b[r]) \in Nat /\ DOMAIN b[r] = 1..Len(b[r])
  BY <1>1, Buckets
<1>3. b \in [DOMAIN b -> Seq(Contacts)]
  BY <1>1 DEF IsTable
<1>4. /\ DOMAIN d = DOMAIN b /\ d[r] = [b[r] EXCEPT ![i] = c]
      /\ \A q \in DOMAIN b : q # r => d[q] = b[q]
  BY <1>3
<1>5. /\ d[r] \in Seq(Contacts) /\ Len(d[r]) = Len(b[r]) /\ DOMAIN d[r] = DOMAIN b[r]
      /\ d[r][i] = c /\ \A j \in DOMAIN b[r] : j # i => d[r][j] = b[r][j]
  <2>1. [b[r] EXCEPT ![i] = c] \in Seq(Contacts)
    BY <1>2, ExceptSeq
  <2>2. /\ Len([b[r] EXCEPT ![i] = c]) = Len(b[r])
        /\ \A j \in 1..Len(b[r]) : [b[r] EXCEPT ![i] = c][j] = IF j = i THEN c ELSE b[r][j]
    BY <1>2, ExceptSeq
  <2> QED
    BY <1>2, <1>4, <2>1, <2>2
<1>6. d = [q \in DOMAIN d |-> d[q]]
  BY <1>3
<1> HIDE DEF d
<1>7. d \in [DOMAIN d -> Seq(Contacts)]
  <2>1. \A q \in DOMAIN d : d[q] \in Seq(Contacts)
    BY <1>3, <1>4, <1>5
  <2> QED
    BY <1>6, <2>1
<1>8. IsTable(d)
  BY <1>1, <1>4, <1>7 DEF IsTable
<1>9. Tidy(d, me)
  <2> SUFFICES ASSUME NEW q \in DOMAIN d
               PROVE  /\ Len(d[q]) <= BUCKET_SIZE
                      /\ \A j \in DOMAIN d[q] : contains(q, d[q][j].id) /\ d[q][j].id # me
    BY DEF Tidy
  <2>1. CASE q # r
    BY <1>1, <1>4, <2>1 DEF Tidy
  <2>2. CASE q = r
    BY <1>1, <1>5, <2>2 DEF Tidy
  <2> QED
    BY <2>1, <2>2
<1>10. ASSUME NEW q \in DOMAIN b, NEW j \in DOMAIN b[q], q # r \/ j # i
       PROVE  q \in DOMAIN d /\ j \in DOMAIN d[q] /\ d[q][j] = b[q][j]
  BY <1>4, <1>5, <1>10
<1>11. Holds(d, c.id) /\ (c.fails < 2 => Lives(d, c.id))
  BY <1>4, <1>5 DEF Holds, Lives, MAX_CONSECUTIVE_FAILURES
<1>12. ASSUME b[r][i].fails < 2 => c.id = b[r][i].id /\ c.fails < 2 PROVE KeptBy(b, d)
  <2> SUFFICES ASSUME NEW id, Lives(b, id) PROVE Lives(d, id)
    BY DEF KeptBy
  <2>0. PICK q \in DOMAIN b : \E j \in DOMAIN b[q] : b[q][j].id = id /\ b[q][j].fails < 2
    BY DEF Lives, MAX_CONSECUTIVE_FAILURES
  <2>1. PICK j \in DOMAIN b[q] : b[q][j].id = id /\ b[q][j].fails < 2
    BY <2>0
  <2>2. CASE q # r \/ j # i
    BY <1>10, <2>1, <2>2 DEF Lives, MAX_CONSECUTIVE_FAILURES
  <2>3. CASE q = r /\ j = i
    BY <1>11, <1>12, <2>1, <2>3
  <2> QED
    BY <2>2, <2>3
<1>13. ASSUME c.id = b[r][i].id, NEW id, Holds(b, id) PROVE Holds(d, id)
  <2>0. PICK q \in DOMAIN b : \E j \in DOMAIN b[q] : b[q][j].id = id
    BY <1>13 DEF Holds
  <2>1. PICK j \in DOMAIN b[q] : b[q][j].id = id
    BY <2>0
  <2>2. CASE q # r \/ j # i
    BY <1>10, <2>1, <2>2 DEF Holds
  <2>3. CASE q = r /\ j = i
    BY <1>11, <1>13, <2>1, <2>3
  <2> QED
    BY <2>2, <2>3
<1>14. ASSUME c.id = b[r][i].id, NEW id, Lives(b, id), id # c.id PROVE Lives(d, id)
  <2>0. PICK q \in DOMAIN b : \E j \in DOMAIN b[q] : b[q][j].id = id /\ b[q][j].fails < 2
    BY <1>14 DEF Lives, MAX_CONSECUTIVE_FAILURES
  <2>1. PICK j \in DOMAIN b[q] : b[q][j].id = id /\ b[q][j].fails < 2
    BY <2>0
  <2>2. q # r \/ j # i
    BY <1>14, <2>1
  <2> QED
    BY <1>10, <2>1, <2>2 DEF Lives, MAX_CONSECUTIVE_FAILURES
<1>15. Sound(d, me)
  BY <1>8, <1>9 DEF Sound
<1> QED
  BY <1>10, <1>12, <1>13, <1>14, <1>15 DEF d, Rewritten


-----------------------------------------------------------------------------
(* Splitting.                                                              *)

(* A split of the local identifier's bucket keeps the table sound and all  *)
(* of its contacts, and makes that bucket's range one bit narrower.        *)
LEMMA SplitOnce ==
    ASSUME NEW b, Sound(b, local_id), local_id \in Ids, Len(bucket_index(b, local_id)) < Bits
    PROVE  /\ Sound(split_bucket(b), local_id) /\ KeptBy(b, split_bucket(b))
           /\ \A id : Holds(b, id) => Holds(split_bucket(b), id)
           /\ Len(bucket_index(split_bucket(b), local_id)) = Len(bucket_index(b, local_id)) + 1
<1> DEFINE home == bucket_index(b, local_id)
           rest == DOMAIN b \ {home}
           d == split_bucket(b)
<1>1. IsTable(b) /\ Tidy(b, local_id)
  BY DEF Sound
<1>2. home \in DOMAIN b /\ contains(home, local_id)
  BY <1>1, Found
<1>3. d = [r \in rest \cup split(home) |-> IF r \in rest THEN b[r] ELSE Share(b[home], r)]
  BY DEF split_bucket
<1> HIDE DEF home, d
<1>4. /\ home \in Seq({0, 1}) /\ Len(home) \in Nat /\ Len(home) < Bits /\ Bits \in Nat
      /\ b[home] \in Seq(Contacts)
  BY <1>1, <1>2, Buckets, WidthAssumption DEF home
<1>5. /\ \A q \in split(home) : q \in Seq({0, 1}) /\ Len(q) = Len(home) + 1
      /\ \A q \in split(home), id \in Ids : contains(q, id) => contains(home, id)
      /\ \A id \in Ids : contains(home, id) => \E q \in split(home) : contains(q, id)
      /\ \A p, q \in split(home), id \in Ids : contains(p, id) /\ contains(q, id) => p = q
  BY <1>4, Halves
<1>6. \A r \in rest, q \in split(home), id \in Ids : ~(contains(r, id) /\ contains(q, id))
  BY <1>1, <1>2, <1>5 DEF IsTable
<1>7. \A q \in split(home) : q \notin rest
  <2> SUFFICES ASSUME NEW q \in split(home), q \in rest PROVE FALSE
    OBVIOUS
  <2>1. q \in Seq({0, 1}) /\ Len(q) <= Bits
    BY <1>4, <1>5
  <2>2. PICK id \in Ids : contains(q, id)
    BY <2>1, Inhabited
  <2> QED
    BY <1>6, <2>2
<1>8. /\ DOMAIN d = rest \cup split(home)
      /\ \A r \in rest : d[r] = b[r]
      /\ \A q \in split(home) : d[q] = Share(b[home], q)
  BY <1>3, <1>7
<1>9. ASSUME NEW q \in split(home)
      PROVE  /\ d[q] \in Seq(Contacts) /\ Len(d[q]) <= Len(b[home])
             /\ \A i \in DOMAIN d[q] : \E j \in DOMAIN b[home] :
                  d[q][i] = b[home][j] /\ contains(q, b[home][j].id)
             /\ \A j \in DOMAIN b[home] : contains(q, b[home][j].id) =>
                  \E i \in DOMAIN d[q] : d[q][i] = b[home][j]
  <2>1. d[q] = Share(b[home], q)
    BY <1>8
  <2>2. IsShare(d[q], b[home], q)
    BY <1>4, <2>1, Shared
  <2> QED
    BY <2>2 DEF IsShare
<1>10. IsTable(d)
  <2>1. d \in [DOMAIN d -> Seq(Contacts)]
    <3>1. \A r \in DOMAIN d : d[r] \in Seq(Contacts)
      BY <1>1, <1>8, <1>9 DEF IsTable
    <3>2. d = [r \in DOMAIN d |-> d[r]]
      BY <1>3
    <3> QED
      BY <3>1, <3>2
  <2>2. \A r \in DOMAIN d : r \in Seq({0, 1}) /\ Len(r) <= Bits
    BY <1>1, <1>4, <1>5, <1>8 DEF IsTable
  <2>3. ASSUME NEW id \in Ids PROVE \E r \in DOMAIN d : contains(r, id)
    <3>1. PICK r \in DOMAIN b : contains(r, id)
      BY <1>1 DEF IsTable
    <3>2. CASE r # home
      BY <1>8, <3>1, <3>2
    <3>3. CASE r = home
      BY <1>5, <1>8, <3>1, <3>3
    <3> QED
      BY <3>2, <3>3
  <2>4. ASSUME NEW r \in DOMAIN d, NEW q \in DOMAIN d, NEW id \in Ids,
               contains(r, id), contains(q, id)
        PROVE  r = q
    <3>1. CASE r \in rest /\ q \in rest
      BY <1>1, <2>4, <3>1 DEF IsTable
    <3>2. CASE r \in split(home) /\ q \in split(home)
      BY <1>5, <2>4, <3>2
    <3> QED
      BY <1>6, <1>8, <2>4, <3>1, <3>2
  <2> QED
    BY <2>1, <2>2, <2>3, <2>4 DEF IsTable
<1>11. Tidy(d, local_id)
  <2> SUFFICES ASSUME NEW r \in DOMAIN d
               PROVE  /\ Len(d[r]) <= BUCKET_SIZE
                      /\ \A i \in DOMAIN d[r] : contains(r, d[r][i].id) /\ d[r][i].id # local_id
    BY DEF Tidy
  <2>1. CASE r \in rest
    BY <1>1, <1>8, <2>1 DEF Tidy
  <2>2. CASE r \in split(home)
    <3>1. /\ Len(b[home]) <= BUCKET_SIZE
          /\ \A j \in DOMAIN b[home] : b[home][j].id # local_id
      BY <1>1, <1>2 DEF Tidy
    <3>2. \A i \in DOMAIN d[r] : contains(r, d[r][i].id) /\ d[r][i].id # local_id
      BY <1>9, <2>2, <3>1
    <3>3. /\ Len(d[r]) <= Len(b[home]) /\ Len(d[r]) \in Nat /\ Len(b[home]) \in Nat
      BY <1>4, <1>9, <2>2, LenProperties
    <3> QED
      BY <3>1, <3>2, <3>3, WidthAssumption
  <2> QED
    BY <1>8, <2>1, <2>2
<1>12. ASSUME NEW r \in DOMAIN b, NEW i \in DOMAIN b[r]
       PROVE  \E q \in DOMAIN d : \E j \in DOMAIN d[q] : d[q][j] = b[r][i]
  <2>1. CASE r # home
    BY <1>8, <2>1
  <2>2. CASE r = home
    <3>1. contains(home, b[home][i].id) /\ b[home][i].id \in Ids
      BY <1>1, <1>2, <2>2, Buckets DEF Tidy
    <3>2. PICK q \in split(home) : contains(q, b[home][i].id)
      BY <1>5, <3>1
    <3>3. \E j \in DOMAIN d[q] : d[q][j] = b[home][i]
      BY <1>9, <2>2, <3>2
    <3> QED
      BY <1>8, <2>2, <3>3
  <2> QED
    BY <2>1, <2>2
<1>13. KeptBy(b, d) /\ \A id : Holds(b, id) => Holds(d, id)
  <2>1. ASSUME NEW id, Holds(b, id) PROVE Holds(d, id)
    BY <1>12, <2>1 DEF Holds
  <2>2. ASSUME NEW id, Lives(b, id) PROVE Lives(d, id)
    <3>1. PICK r \in DOMAIN b : \E i \in DOMAIN b[r] :
            b[r][i].id = id /\ b[r][i].fails < MAX_CONSECUTIVE_FAILURES
      BY <2>2 DEF Lives
    <3>2. PICK i \in DOMAIN b[r] :
            b[r][i].id = id /\ b[r][i].fails < MAX_CONSECUTIVE_FAILURES
      BY <3>1
    <3>3. PICK q \in DOMAIN d : \E j \in DOMAIN d[q] : d[q][j] = b[r][i]
      BY <1>12
    <3> QED
      BY <3>2, <3>3 DEF Lives
  <2> QED
    BY <2>1, <2>2 DEF KeptBy
<1>14. Len(bucket_index(d, local_id)) = Len(home) + 1
  <2>1. PICK q \in split(home) : contains(q, local_id)
    BY <1>2, <1>5
  <2>2. q = bucket_index(d, local_id)
    BY <1>8, <1>10, <2>1, Found
  <2> QED
    BY <1>5, <2>2
<1> QED
  BY <1>10, <1>11, <1>13, <1>14 DEF Sound, d, home

(* The tables after 0, 1, ... n splits, as a function.                     *)
Chain(f, b, n) ==
    f = [k \in 0..n |-> IF k = 0 THEN b ELSE split_bucket(f[k - 1])]
LEMMA ChainExists ==
    ASSUME NEW b, NEW N \in Nat PROVE \E f : Chain(f, b, N)
<1> DEFINE Without == {n \in Nat : ~\E f : Chain(f, b, n)}
<1>1. SUFFICES ASSUME Without # {} PROVE FALSE
  OBVIOUS
<1>2. PICK n \in Without : \A m \in Without : n <= m
  <2>1. Without \in SUBSET Nat
    OBVIOUS
  <2> QED
    BY <1>1, <2>1, Least
<1>3. n \in Nat /\ ~\E f : Chain(f, b, n)
  OBVIOUS
<1>4. CASE n = 0
  <2> DEFINE f == [k \in 0..0 |-> b]
  <2>1. f = [k \in 0..0 |-> IF k = 0 THEN b ELSE split_bucket(f[k - 1])]
    OBVIOUS
  <2> HIDE DEF f
  <2> QED
    BY <1>3, <1>4, <2>1 DEF Chain
<1>5. CASE n # 0
  <2>1. n - 1 \in Nat /\ n - 1 \notin Without
    BY <1>2, <1>3, <1>5
  <2>2. PICK f : Chain(f, b, n - 1)
    BY <2>1
  <2> DEFINE g == [k \in 0..n |-> IF k = n THEN split_bucket(f[n - 1]) ELSE f[k]]
  <2>3. ASSUME NEW k \in 0..n
        PROVE  g[k] = IF k = 0 THEN b ELSE split_bucket(g[k - 1])
    <3>1. CASE k = n
      BY <1>3, <1>5, <3>1
    <3>2. CASE k # n
      <4>1. k \in 0..(n - 1) /\ (k # 0 => k - 1 \in 0..n /\ k - 1 # n)
        BY <1>3, <3>2
      <4>2. f[k] = IF k = 0 THEN b ELSE split_bucket(f[k - 1])
        BY <2>2, <4>1 DEF Chain
      <4>3. g[k] = f[k] /\ (k # 0 => g[k - 1] = f[k - 1])
        BY <3>2, <4>1
      <4> HIDE DEF g
      <4> QED
        BY <4>2, <4>3
    <3> QED
      BY <3>1, <3>2
  <2>4. g = [k \in 0..n |-> g[k]]
    OBVIOUS
  <2> HIDE DEF g
  <2>5. g = [k \in 0..n |-> IF k = 0 THEN b ELSE split_bucket(g[k - 1])]
    BY <2>3, <2>4
  <2> QED
    BY <1>3, <2>5 DEF Chain
<1> QED
  BY <1>4, <1>5

(* The loop of insert_verified ends, with a sound table and every contact. *)
LEMMA SplitsEnough ==
    ASSUME NEW b, Sound(b, local_id), local_id \in Ids, NEW id \in Ids
    PROVE  /\ Sound(SplitFor(b, id), local_id) /\ KeptBy(b, SplitFor(b, id))
           /\ \A i : Holds(b, i) => Holds(SplitFor(b, id), i)
<1> DEFINE after == CHOOSE f : Chain(f, b, Bits)
           room == Bits - Len(bucket_index(b, local_id))
           ends == {n \in 0..room : ~MustSplit(after[n], id)}
           Fine(n) == /\ Sound(after[n], local_id) /\ KeptBy(b, after[n])
                      /\ \A i : Holds(b, i) => Holds(after[n], i)
                      /\ Len(bucket_index(after[n], local_id))
                           = Len(bucket_index(b, local_id)) + n
           Poor == {n \in Nat : n <= room /\ ~Fine(n)}
<1>1. Bits \in Nat /\ room \in 0..Bits /\ Len(bucket_index(b, local_id)) \in Nat
  <2>1. IsTable(b)
    BY DEF Sound
  <2>2. bucket_index(b, local_id) \in DOMAIN b
    BY <2>1, Found
  <2>3. Len(bucket_index(b, local_id)) \in Nat /\ Len(bucket_index(b, local_id)) <= Bits
    BY <2>1, <2>2, Buckets
  <2> QED
    BY <2>3, WidthAssumption
<1>2. Chain(after, b, Bits)
  BY <1>1, ChainExists
<1>3. SplitFor(b, id) = after[First(ends)]
  BY DEF SplitFor, Chain
<1> HIDE DEF after
<1>4. after[0] = b /\ \A k \in 1..Bits : after[k] = split_bucket(after[k - 1])
  BY <1>1, <1>2 DEF Chain
<1> HIDE DEF room
<1>5. Fine(0)
  BY <1>1, <1>4, KeptSame
<1>6. ASSUME NEW n \in Nat, Fine(n), n + 1 <= room PROVE Fine(n + 1)
  <2>1. n + 1 \in 1..Bits /\ (n + 1) - 1 = n
    BY <1>1, <1>6
  <2>2. after[n + 1] = split_bucket(after[n])
    BY <1>4, <2>1
  <2>3. Len(bucket_index(after[n], local_id)) < Bits
    BY <1>1, <1>6 DEF room
  <2>4. /\ Sound(after[n + 1], local_id) /\ KeptBy(after[n], after[n + 1])
        /\ \A i : Holds(after[n], i) => Holds(after[n + 1], i)
        /\ Len(bucket_index(after[n + 1], local_id))
             = Len(bucket_index(after[n], local_id)) + 1
    BY <1>6, <2>2, <2>3, SplitOnce
  <2>5. KeptBy(b, after[n + 1])
    BY <1>6, <2>4, KeptTwice
  <2>6. Len(bucket_index(after[n + 1], local_id)) = Len(bucket_index(b, local_id)) + (n + 1)
    BY <1>1, <1>6, <2>4
  <2> QED
    BY <1>6, <2>4, <2>5, <2>6
<1>7. Poor = {}
  <2> HIDE DEF Fine
  <2> SUFFICES ASSUME Poor # {} PROVE FALSE
    OBVIOUS
  <2>0. Poor \in SUBSET Nat
    OBVIOUS
  <2>1. PICK n \in Poor : \A m \in Poor : n <= m
    BY <2>0, Least
  <2>2. n \in Nat /\ n <= room /\ ~Fine(n) /\ n # 0
    BY <1>5
  <2>3. n - 1 \in Nat /\ n - 1 <= room /\ n - 1 \notin Poor /\ (n - 1) + 1 = n
    BY <1>1, <2>1, <2>2
  <2>4. Fine((n - 1) + 1)
    BY <1>6, <2>2, <2>3
  <2> QED
    BY <2>2, <2>3, <2>4
<1>8. room \in ends
  <2>1. Fine(room)
    BY <1>1, <1>7
  <2> DEFINE t == after[room]
             r == bucket_index(t, id)
  <2>2. IsTable(t) /\ Len(bucket_index(t, local_id)) = Bits
    BY <1>1, <2>1 DEF Sound, room
  <2> SUFFICES ASSUME MustSplit(t, id) PROVE FALSE
    BY <1>1
  <2>3. contains(r, local_id) /\ Len(r) < Bits
    BY DEF MustSplit
  <2>4. r \in DOMAIN t
    BY <2>2, Found
  <2>5. r = bucket_index(t, local_id)
    BY <2>2, <2>3, <2>4, Found
  <2> QED
    BY <1>1, <2>2, <2>3, <2>5
<1>9. First(ends) \in ends
  <2>1. ends \in SUBSET Nat
    BY <1>1
  <2> QED
    BY <1>8, <2>1, FirstIsLeast
<1>10. First(ends) \in Nat /\ First(ends) <= room
  BY <1>1, <1>9
<1>11. Fine(First(ends))
  <2> HIDE DEF Fine, ends
  <2> QED
    BY <1>7, <1>10
<1> QED
  BY <1>3, <1>11


-----------------------------------------------------------------------------
(* Insertion.                                                              *)

(* A contact as it enters: heard of just now.                              *)
LEMMA Entering ==
    ASSUME NEW n \in Peers
    PROVE  verified(n) \in Contacts /\ verified(n).id = n.id /\ verified(n).fails = 0
  BY DEF Peers, verified, Contacts, MAX_CONSECUTIVE_FAILURES

(* The bad contacts are those that failed twice.                           *)
LEMMA BadFailedTwice ==
    ASSUME NEW c, c.fails \in 0..2 PROVE status(c) = "bad" <=> c.fails >= 2
<1>1. CASE c.fails >= 2
  BY <1>1 DEF status, MAX_CONSECUTIVE_FAILURES
<1>2. CASE ~(c.fails >= 2) /\ c.stale
  BY <1>2 DEF status, MAX_CONSECUTIVE_FAILURES
<1>3. CASE ~(c.fails >= 2) /\ ~c.stale
  BY <1>3 DEF status, MAX_CONSECUTIVE_FAILURES
<1> QED
  BY <1>1, <1>2, <1>3

(* A contact joins a bucket that has room.                                 *)
LEMMA JoinsBucket ==
    ASSUME NEW b, NEW me, Sound(b, me), NEW r \in DOMAIN b, Len(b[r]) < BUCKET_SIZE,
           NEW c \in Contacts, contains(r, c.id), c.id # me
    PROVE  Sound([b EXCEPT ![r] = Append(@, c)], me)
           /\ KeptBy(b, [b EXCEPT ![r] = Append(@, c)])
<1> DEFINE d == [b EXCEPT ![r] = Append(@, c)]
<1>1. IsTable(b) /\ Tidy(b, me)
  BY DEF Sound
<1>2. b[r] \in Seq(Contacts) /\ Len(b[r]) \in Nat /\ DOMAIN b[r] = 1..Len(b[r])
  BY <1>1, Buckets
<1>3. b \in [DOMAIN b -> Seq(Contacts)]
  BY <1>1 DEF IsTable
<1>4. /\ DOMAIN d = DOMAIN b /\ d[r] = Append(b[r], c)
      /\ \A q \in DOMAIN b : q # r => d[q] = b[q]
  BY <1>3
<1>5. /\ d[r] \in Seq(Contacts) /\ Len(d[r]) = Len(b[r]) + 1
      /\ DOMAIN d[r] = 1..(Len(b[r]) + 1) /\ d[r][Len(b[r]) + 1] = c
      /\ \A j \in 1..Len(b[r]) : d[r][j] = b[r][j]
  <2>1. /\ Append(b[r], c) \in Seq(Contacts) /\ Len(Append(b[r], c)) = Len(b[r]) + 1
        /\ \A j \in 1..Len(b[r]) : Append(b[r], c)[j] = b[r][j]
        /\ Append(b[r], c)[Len(b[r]) + 1] = c
    BY <1>2, AppendProperties
  <2> QED
    BY <1>4, <2>1, LenProperties
<1>6. d = [q \in DOMAIN d |-> d[q]]
  BY <1>3
<1> HIDE DEF d
<1>7. d \in [DOMAIN d -> Seq(Contacts)]
  <2>1. \A q \in DOMAIN d : d[q] \in Seq(Contacts)
    BY <1>3, <1>4, <1>5
  <2> QED
    BY <1>6, <2>1
<1>8. IsTable(d)
  BY <1>1, <1>4, <1>7 DEF IsTable
<1>9. Tidy(d, me)
  <2> SUFFICES ASSUME NEW q \in DOMAIN d
               PROVE  /\ Len(d[q]) <= BUCKET_SIZE
                      /\ \A j \in DOMAIN d[q] : contains(q, d[q][j].id) /\ d[q][j].id # me
    BY DEF Tidy
  <2>1. CASE q # r
    BY <1>1, <1>4, <2>1 DEF Tidy
  <2>2. CASE q = r
    <3>1. Len(d[r]) <= BUCKET_SIZE
      BY <1>2, <1>5, WidthAssumption
    <3>2. \A j \in 1..Len(b[r]) : contains(r, d[r][j].id) /\ d[r][j].id # me
      BY <1>1, <1>2, <1>5 DEF Tidy
    <3>3. \A j \in DOMAIN d[r] : j \in 1..Len(b[r]) \/ j = Len(b[r]) + 1
      BY <1>2, <1>5
    <3> QED
      BY <1>5, <2>2, <3>1, <3>2, <3>3
  <2> QED
    BY <2>1, <2>2
<1>10. ASSUME NEW q \in DOMAIN b, NEW j \in DOMAIN b[q]
       PROVE  q \in DOMAIN d /\ j \in DOMAIN d[q] /\ d[q][j] = b[q][j]
  <2>1. CASE q # r
    BY <1>4, <2>1
  <2>2. CASE q = r
    BY <1>2, <1>4, <1>5, <2>2
  <2> QED
    BY <2>1, <2>2
<1>11. KeptBy(b, d)
  BY <1>10 DEF KeptBy, Lives
<1> QED
  BY <1>8, <1>9, <1>11 DEF Sound, d

(* The contacts to be probed are contacts of the bucket.                   *)
LEMMA InTurn ==
    ASSUME NEW nodes \in Seq(Contacts), NEW what, NEW s \in SetToSeqs(Having(nodes, what))
    PROVE  [i \in DOMAIN s |-> Whom(nodes[s[i]])] \in Seq(Peers)
<1> DEFINE Q == Having(nodes, what)
           m == Cardinality(Q)
<1>1. Q \subseteq DOMAIN nodes
  BY DEF Having
<1>2. /\ DOMAIN nodes = 1..Len(nodes) /\ Len(nodes) \in Nat
      /\ \A i \in DOMAIN nodes : nodes[i] \in Contacts
  BY LenProperties, ElementOfSeq
<1>3. s \in [1..m -> Q]
  BY DEF SetToSeqs
<1> HIDE DEF Q
<1>4. m \in Nat
  <2>1. IsFiniteSet(1..Len(nodes))
    BY <1>2, FS_Interval
  <2>2. IsFiniteSet(Q)
    BY <1>1, <1>2, <2>1, FS_Subset
  <2> QED
    BY <2>2, FS_CardinalityType
<1> HIDE DEF m
<1>5. \A c \in Contacts : Whom(c) \in Peers
  BY DEF Contacts, Whom, Peers
<1>6. DOMAIN s = 1..m /\ \A i \in 1..m : Whom(nodes[s[i]]) \in Peers
  BY <1>1, <1>2, <1>3, <1>5
<1>7. [i \in DOMAIN s |-> Whom(nodes[s[i]])] \in [1..m -> Peers]
  BY <1>6
<1> QED
  BY <1>4, <1>7, SeqDef

(* What an insertion leaves behind.                                        *)
IsOutcome(o, b) ==
    /\ Sound(o.buckets, local_id) /\ KeptBy(b, o.buckets)
    /\ \A i \in o.incumbents : i \in Seq(Peers)
    /\ o.candidate \in Peers
    /\ o.incumbents = {<<>>} \/ o.candidate.id # local_id
    /\ o.incumbents = {<<>>} \/ \A id : Holds(b, id) => Holds(o.buckets, id)
LEMMA Inserted ==
    ASSUME NEW b, Sound(b, local_id), local_id \in Ids, NEW n \in Peers, n.id # local_id
    PROVE  IsOutcome(insert_verified(b, n), b)
<1> DEFINE t == SplitFor(b, n.id)
           r == bucket_index(t, n.id)
           bad == Having(t[r], "bad")
           room == Len(t[r]) < BUCKET_SIZE
           o == insert_verified(b, n)
           asked == {[i \in DOMAIN s |-> Whom(t[r][s[i]])] :
                        s \in SetToSeqs(Having(t[r], "questionable"))}
<1> SUFFICES IsOutcome(o, b)
  OBVIOUS
<1>1. n.id \in Ids
  BY DEF Peers
<1>2. /\ o.buckets = CASE room -> [t EXCEPT ![r] = Append(@, verified(n))]
                       [] ~room /\ bad # {} -> [t EXCEPT ![r][First(bad)] = verified(n)]
                       [] OTHER -> t
      /\ o.incumbents = IF room \/ bad # {} THEN {<<>>} ELSE asked
      /\ o.candidate = n
  BY DEF insert_verified
<1> HIDE DEF o, t
<1>3. /\ Sound(t, local_id) /\ KeptBy(b, t) /\ \A i : Holds(b, i) => Holds(t, i)
  BY <1>1, SplitsEnough DEF t
<1>4. r \in DOMAIN t /\ contains(r, n.id) /\ IsTable(t)
  BY <1>1, <1>3, Found DEF Sound
<1> HIDE DEF r
<1>5. /\ t[r] \in Seq(Contacts) /\ DOMAIN t[r] = 1..Len(t[r]) /\ Len(t[r]) \in Nat
      /\ \A i \in DOMAIN t[r] : t[r][i].fails \in 0..2
  BY <1>4, Buckets
<1>6. verified(n) \in Contacts /\ verified(n).id = n.id /\ verified(n).fails = 0
  BY Entering
<1>7. <<>> \in Seq(Peers)
  BY EmptySeq
<1>8. CASE room
  <2>1. o.buckets = [t EXCEPT ![r] = Append(@, verified(n))] /\ o.incumbents = {<<>>}
    BY <1>2, <1>8
  <2>2. Sound(o.buckets, local_id) /\ KeptBy(t, o.buckets)
    BY <1>3, <1>4, <1>6, <1>8, <2>1, JoinsBucket
  <2>3. KeptBy(b, o.buckets)
    BY <1>3, <2>2, KeptTwice
  <2> QED
    BY <1>2, <1>7, <2>1, <2>2, <2>3 DEF IsOutcome
<1>9. CASE ~room /\ bad # {}
  <2> DEFINE k == First(bad)
  <2>1. bad \in SUBSET Nat /\ \A j \in bad : j \in DOMAIN t[r] /\ status(t[r][j]) = "bad"
    BY <1>5 DEF Having
  <2> HIDE DEF bad
  <2>2. k \in bad
    BY <1>9, <2>1, FirstIsLeast
  <2>3. o.buckets = [t EXCEPT ![r][k] = verified(n)] /\ o.incumbents = {<<>>}
    BY <1>2, <1>9
  <2> HIDE DEF k
  <2>4. k \in DOMAIN t[r] /\ t[r][k].fails >= 2 /\ t[r][k].fails \in 0..2
    BY <1>5, <2>1, <2>2, BadFailedTwice
  <2>a. Rewritten(t, o.buckets, local_id, r, k, verified(n))
    BY <1>3, <1>4, <1>6, <2>3, <2>4, Written
  <2>5. Sound(o.buckets, local_id) /\ KeptBy(t, o.buckets)
    BY <2>4, <2>a DEF Rewritten
  <2>6. KeptBy(b, o.buckets)
    BY <1>3, <2>5, KeptTwice
  <2> QED
    BY <1>2, <1>7, <2>3, <2>5, <2>6 DEF IsOutcome
<1>10. CASE ~room /\ bad = {}
  <2>1. o.buckets = t /\ o.incumbents = asked
    BY <1>2, <1>10
  <2>2. \A i \in asked : i \in Seq(Peers)
    BY <1>5, InTurn
  <2> HIDE DEF asked
  <2> QED
    BY <1>2, <1>3, <2>1, <2>2 DEF IsOutcome
<1> QED
  BY <1>8, <1>9, <1>10

(* An answer: a contact is heard of again, or enters.                      *)
LEMMA Observed ==
    ASSUME NEW b, Sound(b, local_id), local_id \in Ids, NEW n \in Peers
    PROVE  IsOutcome(observe_response(b, n), b)
<1> DEFINE o == observe_response(b, n)
<1>1. n.id \in Ids /\ IsTable(b)
  BY DEF Peers, Sound
<1>2. <<>> \in Seq(Peers)
  BY EmptySeq
<1>3. CASE n.id = local_id
  <2>1. o.buckets = b /\ o.incumbents = {<<>>} /\ o.candidate = n
    BY <1>3 DEF observe_response
  <2> HIDE DEF o
  <2>2. IsOutcome(o, b)
    BY <1>2, <2>1, KeptSame DEF IsOutcome
  <2> QED
    BY <2>2 DEF o
<1>4. CASE n.id # local_id /\ Known(b, n.id)
  <2> DEFINE r == bucket_index(b, n.id)
  <2>1. /\ o.buckets = Write(b, contact(b, n.id), verified(n)) /\ o.incumbents = {<<>>}
        /\ o.candidate = n
    BY <1>4 DEF observe_response
  <2>2. r \in DOMAIN b /\ contains(r, n.id)
    BY <1>1, Found
  <2>3. PICK i \in DOMAIN b[r] : contact(b, n.id) = <<r, i>> /\ b[r][i].id = n.id
    BY <1>1, <1>4, ContactFound
  <2> HIDE DEF o, r
  <2>4. o.buckets = [b EXCEPT ![r][i] = verified(n)]
    BY <2>1, <2>3 DEF Write
  <2>5. verified(n) \in Contacts /\ verified(n).id = n.id /\ verified(n).fails = 0
    BY Entering
  <2>a. Rewritten(b, o.buckets, local_id, r, i, verified(n))
    BY <1>4, <2>2, <2>3, <2>4, <2>5, Written
  <2>6. Sound(o.buckets, local_id) /\ KeptBy(b, o.buckets)
    BY <2>3, <2>5, <2>a DEF Rewritten
  <2>7. IsOutcome(o, b)
    BY <1>2, <2>1, <2>6 DEF IsOutcome
  <2> QED
    BY <2>7 DEF o
<1>5. CASE n.id # local_id /\ ~Known(b, n.id)
  <2>1. o = insert_verified(b, n)
    BY <1>5 DEF observe_response
  <2> QED
    BY <1>5, <2>1, Inserted
<1> QED
  BY <1>3, <1>4, <1>5

(* A failure is counted on one contact of the identifier, and no other.    *)
LEMMA Failed ==
    ASSUME NEW b, Sound(b, local_id), local_id \in Ids, NEW id \in Ids
    PROVE  /\ Sound(record_failure(b, id), local_id)
           /\ \A i : Holds(b, i) => Holds(record_failure(b, id), i)
           /\ \A i : Lives(b, i) /\ i # id => Lives(record_failure(b, id), i)
           /\ \A i : Fresh(b, i) => Lives(record_failure(b, id), i)
<1> DEFINE d == record_failure(b, id)
<1>1. IsTable(b) /\ Tidy(b, local_id)
  BY DEF Sound
<1>2. CASE ~Known(b, id)
  <2>1. d = b
    BY <1>2 DEF record_failure
  <2> QED
    BY <2>1, FreshLives
<1>3. CASE Known(b, id)
  <2> DEFINE r == bucket_index(b, id)
  <2>1. r \in DOMAIN b /\ contains(r, id)
    BY <1>1, Found
  <2>2. PICK i \in DOMAIN b[r] : contact(b, id) = <<r, i>> /\ b[r][i].id = id
    BY <1>1, <1>3, ContactFound
  <2> DEFINE old == b[r][i]
             c == [old EXCEPT !.fails = IF @ < MAX_CONSECUTIVE_FAILURES THEN @ + 1 ELSE @]
  <2>3. d = [b EXCEPT ![r][i] = c]
    BY <1>3, <2>2 DEF record_failure, Write, At
  <2> HIDE DEF r, d
  <2>4. old \in Contacts
    BY <1>1, <2>1, Buckets
  <2>5. id # local_id
    BY <1>1, <2>1, <2>2 DEF Tidy
  <2> HIDE DEF old
  <2>6. c \in Contacts /\ c.id = old.id
    BY <2>4 DEF Contacts, MAX_CONSECUTIVE_FAILURES
  <2> HIDE DEF c
  <2>7. old.id = id
    BY <2>2 DEF old
  <2>a. Rewritten(b, d, local_id, r, i, c)
    BY <2>1, <2>3, <2>5, <2>6, <2>7, Written
  <2>8. /\ Sound(d, local_id) /\ \A j : Holds(b, j) => Holds(d, j)
        /\ \A j : Lives(b, j) /\ j # c.id => Lives(d, j)
    BY <2>6, <2>a DEF old, Rewritten
  <2>9. ASSUME NEW j, Fresh(b, j) PROVE Lives(d, j)
    <3>1. CASE j # c.id
      BY <2>8, <2>9, <3>1, FreshLives
    <3>2. CASE old.fails = 0
      <4>1. c.fails = 1
        BY <2>4, <3>2 DEF c, Contacts, MAX_CONSECUTIVE_FAILURES
      <4>2. KeptBy(b, d)
        BY <2>6, <2>a, <4>1 DEF old, Rewritten
      <4> QED
        BY <2>9, <4>2, FreshLives DEF KeptBy
    <3>3. CASE old.fails # 0
      <4>1. PICK q \in DOMAIN b : \E k \in DOMAIN b[q] : b[q][k].id = j /\ b[q][k].fails = 0
        BY <2>9 DEF Fresh
      <4>2. PICK k \in DOMAIN b[q] : b[q][k].id = j /\ b[q][k].fails = 0
        BY <4>1
      <4>3. q # r \/ k # i
        BY <3>3, <4>2 DEF old
      <4>4. q \in DOMAIN d /\ k \in DOMAIN d[q] /\ d[q][k] = b[q][k]
        BY <2>a, <4>3 DEF Rewritten
      <4> QED
        BY <4>2, <4>4 DEF Lives, MAX_CONSECUTIVE_FAILURES
    <3> QED
      BY <3>1, <3>2, <3>3
  <2> QED
    BY <2>6, <2>7, <2>8, <2>9 DEF d
<1> QED
  BY <1>2, <1>3


-----------------------------------------------------------------------------
(* Table and probes together.                                              *)

(* The state of table and probes that a step goes through.                 *)
Good(s) ==
    /\ s = State(s.buckets, s.probes, s.keys)
    /\ Sound(s.buckets, local_id) /\ Booked(s.probes, s.keys)
    /\ \A p \in s.probes : p \in Waiting(local_id)

LEMMA Rebooked ==
    ASSUME NEW s, NEW L, s = State(s.buckets, s.probes, s.keys)
    PROVE  [s EXCEPT !.keys = L] = State(s.buckets, s.probes, L)
<1>1. \A b, P, K : [State(b, P, K) EXCEPT !.keys = L] = State(b, P, L)
  BY DEF State
<1> QED
  BY <1>1

(* A ping is queued under its key, or refused and the key returned.        *)
LEMMA QueryStarted ==
    ASSUME NEW b, NEW P, NEW K, Sound(b, local_id), \A q \in P : q \in Waiting(local_id),
           NEW p \in Waiting(local_id), p.incumbent \in K, Booked(P, K \ {p.incumbent}),
           NEW u \in start_query(State(b, P, K), p)
    PROVE  Good(u) /\ u.buckets = b
<1>1. \/ u = State(b, P, K \ {p.incumbent})
      \/ u = State(b, P \cup {p}, K)
  BY DEF start_query, State
<1>2. CASE u = State(b, P, K \ {p.incumbent})
  <2>1. /\ u.buckets = b /\ u.probes = P /\ u.keys = K \ {p.incumbent}
        /\ u = State(u.buckets, u.probes, u.keys)
    BY <1>2 DEF State
  <2> QED
    BY <2>1 DEF Good
<1>3. CASE u = State(b, P \cup {p}, K)
  <2>1. /\ u.buckets = b /\ u.probes = P \cup {p} /\ u.keys = K
        /\ u = State(u.buckets, u.probes, u.keys)
    BY <1>3 DEF State
  <2>2. IsFiniteSet(P \cup {p})
    BY FS_AddElement DEF Booked
  <2>3. K \ {p.incumbent} = {q.incumbent : q \in P}
    BY DEF Booked
  <2>4. \A q \in P : q.incumbent # p.incumbent
    BY <2>3
  <2>5. K = {q.incumbent : q \in P \cup {p}}
    BY <2>3
  <2>6. Booked(P \cup {p}, K)
    BY <2>2, <2>4, <2>5 DEF Booked
  <2> QED
    BY <2>1, <2>6 DEF Good
<1> QED
  BY <1>1, <1>2, <1>3

LEMMA ProbeStarted ==
    ASSUME NEW s, Good(s), NEW i \in Seq(Peers), i # <<>>,
           NEW n \in Peers, n.id # local_id, NEW u \in start_bucket_probe(s, i, n)
    PROVE  Good(u) /\ u.buckets = s.buckets
<1> DEFINE p == [incumbent |-> Head(i), remaining |-> Tail(i), candidate |-> n, attempt |-> 1]
<1>1. p \in Waiting(local_id)
  <2>1. Head(i) \in Peers /\ Tail(i) \in Seq(Peers)
    BY HeadTailProperties
  <2>2. n \in {m \in Peers : m.id # local_id}
    OBVIOUS
  <2> QED
    BY <2>1, <2>2 DEF Waiting
<1>2. CASE p.incumbent \in s.keys
  BY <1>2 DEF start_bucket_probe
<1>3. CASE p.incumbent \notin s.keys
  <2> DEFINE K == s.keys \cup {p.incumbent}
  <2>1. u \in start_query([s EXCEPT !.keys = @ \cup {p.incumbent}], p)
    BY <1>3 DEF start_bucket_probe
  <2>2. [s EXCEPT !.keys = @ \cup {p.incumbent}] = State(s.buckets, s.probes, K)
    <3> HIDE DEF p
    <3>1. s = State(s.buckets, s.probes, s.keys)
      BY DEF Good
    <3> QED
      BY <3>1, Rebooked
  <2>3. K \ {p.incumbent} = s.keys
    BY <1>3
  <2> HIDE DEF p
  <2>4. p.incumbent \in K
    OBVIOUS
  <2> HIDE DEF K
  <2>5. u \in start_query(State(s.buckets, s.probes, K), p)
    BY <2>1, <2>2
  <2> QED
    BY <1>1, <2>3, <2>4, <2>5, QueryStarted DEF Good
<1> QED
  BY <1>2, <1>3

LEMMA OutcomeHandled ==
    ASSUME NEW s, Good(s), NEW b, NEW o, IsOutcome(o, b), NEW u \in handle_insert_outcome(s, o)
    PROVE  Good(u) /\ u.buckets = s.buckets /\ (o.incumbents = {<<>>} => u = s)
<1>1. PICK i \in o.incumbents :
        u \in (IF i = <<>> THEN {s} ELSE start_bucket_probe(s, i, o.candidate))
  BY DEF handle_insert_outcome
<1>2. CASE i = <<>>
  BY <1>1, <1>2
<1>3. CASE i # <<>>
  <2>1. u \in start_bucket_probe(s, i, o.candidate)
    BY <1>1, <1>3
  <2>2. i \in Seq(Peers) /\ o.candidate \in Peers /\ o.incumbents # {<<>>}
        /\ o.candidate.id # local_id
    BY <1>1, <1>3 DEF IsOutcome
  <2> QED
    BY <1>3, <2>1, <2>2, ProbeStarted
<1> QED
  BY <1>2, <1>3

(* The candidate is tried again: a bad contact may go, and then no probe   *)
(* starts.                                                                 *)
LEMMA TriedAgain ==
    ASSUME NEW s, Good(s), local_id \in Ids, NEW n \in Peers, n.id # local_id,
           NEW u \in Reconsidered(s, n)
    PROVE  /\ Good(u) /\ KeptBy(s.buckets, u.buckets)
           /\ u.probes = s.probes \/ \A id : Holds(s.buckets, id) => Holds(u.buckets, id)
<1> DEFINE o == insert_verified(s.buckets, n)
           t == [s EXCEPT !.buckets = o.buckets]
<1>1. u \in handle_insert_outcome(t, o)
  BY DEF Reconsidered, reconsider_candidate
<1>2. IsOutcome(o, s.buckets)
  BY Inserted DEF Good
<1> HIDE DEF o
<1>3. t.buckets = o.buckets /\ t.probes = s.probes /\ t.keys = s.keys
      /\ t = State(t.buckets, t.probes, t.keys)
  BY DEF Good, State
<1> HIDE DEF t
<1>4. Good(t)
  BY <1>2, <1>3 DEF Good, IsOutcome
<1>5. Good(u) /\ u.buckets = o.buckets /\ (o.incumbents = {<<>>} => u = t)
  BY <1>1, <1>2, <1>3, <1>4, OutcomeHandled
<1> QED
  BY <1>2, <1>3, <1>5 DEF IsOutcome

(* A probe ends: its key is free again.                                    *)
LEMMA ProbeOver ==
    ASSUME NEW P, NEW K, Booked(P, K), NEW p \in P
    PROVE  Booked(P \ {p}, K \ {p.incumbent})
<1>1. IsFiniteSet(P \ {p})
  BY FS_RemoveElement DEF Booked
<1>2. K \ {p.incumbent} = {q.incumbent : q \in P \ {p}}
  BY DEF Booked
<1> QED
  BY <1>1, <1>2 DEF Booked


-----------------------------------------------------------------------------
(* One lemma per action.  Each keeps the invariant and pushes out no       *)
(* contact but a bad one, or one that becomes bad by this step's failure.  *)

Excused ==
    \A id : /\ Fresh(buckets, id) => Holds(buckets', id)
            /\ Lives(buckets, id) =>
                 Holds(buckets', id) \/ \E p \in probes \ probes' : p.incumbent.id = id
StepIsFine == RoutingInv' /\ Excused

LEMMA KeptIsExcused == KeptBy(buckets, buckets') => Excused
  BY LivesHolds, FreshLives DEF KeptBy, Excused
LEMMA HeldIsExcused == (\A id : Holds(buckets, id) => Holds(buckets', id)) => Excused
  BY LivesHolds, FreshLives DEF Excused

(* The state as the operators on table and probes see it.                  *)
LEMMA GoodNow ==
    ASSUME RoutingInv, NEW b, Sound(b, local_id) PROVE Good(State(b, probes, bucket_probes))
  BY DEF RoutingInv, Good, State

(* The books of the reverse pings are in order.                            *)
PingsKept == verifying' \in SUBSET Peers /\ verifications' = verifying'
LEMMA PingsSame == RoutingInv /\ UNCHANGED pings => PingsKept
  BY DEF RoutingInv, pings, PingsKept

LEMMA Arrived ==
    ASSUME RoutingInv, NEW s, Good(s), Become(s), local_id' = local_id, PingsKept
    PROVE  RoutingInv'
<1>1. buckets' = s.buckets /\ probes' = s.probes /\ bucket_probes' = s.keys
  BY DEF Become
<1> QED
  BY <1>1 DEF RoutingInv, Good, PingsKept

LEMMA NodesArePeers == /\ \A n \in Nodes : n \in Peers
                       /\ \A n \in Fading \cup Strangers : n \in Peers
                       /\ \A n \in Peers : n.id \in Ids
                       /\ \A id \in LocalIds : id \in Ids
  BY NodeAssumption DEF Peers

(* An answer of any node, whatever was asked.                              *)
LEMMA Answering ==
    ASSUME RoutingInv, NEW n \in Peers, local_id' = local_id, PingsKept,
           NEW s \in handle_insert_outcome(
                       State(observe_response(buckets, n).buckets, probes, bucket_probes),
                       observe_response(buckets, n)),
           Become(s)
    PROVE  StepIsFine
<1> DEFINE o == observe_response(buckets, n)
           t == State(o.buckets, probes, bucket_probes)
<1>1. IsOutcome(o, buckets)
  BY Observed DEF RoutingInv
<1> HIDE DEF o
<1>2. Good(t) /\ t.buckets = o.buckets
  <2>1. Sound(o.buckets, local_id)
    BY <1>1 DEF IsOutcome
  <2>2. t.buckets = o.buckets
    BY DEF State
  <2> QED
    BY <2>1, <2>2, GoodNow
<1>3. s \in handle_insert_outcome(t, o)
  BY DEF o
<1> HIDE DEF t
<1>4. Good(s) /\ s.buckets = o.buckets
  BY <1>1, <1>2, <1>3, OutcomeHandled
<1>5. RoutingInv'
  BY <1>4, Arrived
<1>6. KeptBy(buckets, buckets')
  BY <1>1, <1>4 DEF IsOutcome, Become
<1> QED
  BY <1>5, <1>6, KeptIsExcused DEF StepIsFine

LEMMA OtherAnswerStep ==
    ASSUME RoutingInv, NEW n \in Nodes, OtherAnswer(n) PROVE StepIsFine
<1>1. n \in Peers
  BY NodesArePeers
<1>2. local_id' = local_id /\ PingsKept
  BY PingsSame DEF OtherAnswer
<1>3. PICK s \in handle_insert_outcome(
               State(observe_response(buckets, n).buckets, probes, bucket_probes),
               observe_response(buckets, n)) : Become(s)
  BY DEF OtherAnswer
<1> QED
  BY <1>1, <1>2, <1>3, Answering

LEMMA ExpectedFailureStep ==
    ASSUME RoutingInv, NEW n \in Fading, record_expected_failure(n) PROVE StepIsFine
<1>1. n.id \in Ids
  BY NodesArePeers
<1>2. /\ buckets' = record_failure(buckets, n.id) /\ local_id' = local_id
      /\ probes' = probes /\ bucket_probes' = bucket_probes /\ UNCHANGED pings
  BY DEF record_expected_failure
<1>3. /\ Sound(buckets', local_id) /\ \A i : Holds(buckets, i) => Holds(buckets', i)
  BY <1>1, <1>2, Failed DEF RoutingInv
<1>4. RoutingInv'
  <2>1. PingsKept
    BY <1>2, PingsSame
  <2> QED
    BY <1>2, <1>3, <2>1 DEF RoutingInv, PingsKept
<1> QED
  BY <1>3, <1>4, HeldIsExcused DEF StepIsFine

(* A contact's age changes, and nothing else about it.                     *)
LEMMA Dated ==
    ASSUME RoutingInv, NEW r \in DOMAIN buckets, NEW i \in DOMAIN buckets[r],
           NEW age \in BOOLEAN, buckets' = [buckets EXCEPT ![r][i].stale = age],
           UNCHANGED <<local_id, probes, bucket_probes, pings>>
    PROVE  StepIsFine
<1> DEFINE old == buckets[r][i]
           c == [old EXCEPT !.stale = age]
<1>1. Sound(buckets, local_id) /\ IsTable(buckets) /\ Tidy(buckets, local_id)
  BY DEF RoutingInv, Sound
<1>2. buckets' = [buckets EXCEPT ![r][i] = c]
  OBVIOUS
<1>3. old \in Contacts
  BY <1>1, Buckets
<1>4. contains(r, old.id) /\ old.id # local_id
  BY <1>1 DEF Tidy
<1> HIDE DEF old
<1>5. c \in Contacts /\ c.id = old.id /\ c.fails = old.fails
  BY <1>3 DEF Contacts
<1> HIDE DEF c
<1>6. Rewritten(buckets, buckets', local_id, r, i, c)
  <2>1. contains(r, c.id) /\ c.id # local_id /\ c \in Contacts
    BY <1>4, <1>5
  <2>2. Rewritten(buckets, [buckets EXCEPT ![r][i] = c], local_id, r, i, c)
    BY <1>1, <2>1, Written
  <2> QED
    BY <1>2, <2>2
<1>7. Sound(buckets', local_id) /\ KeptBy(buckets, buckets')
  BY <1>5, <1>6 DEF Rewritten, old
<1>8. RoutingInv'
  <2>1. PingsKept
    BY PingsSame
  <2> QED
    BY <1>7, <2>1 DEF RoutingInv, PingsKept
<1> QED
  BY <1>7, <1>8, KeptIsExcused DEF StepIsFine

LEMMA AgeStep ==
    ASSUME RoutingInv, NEW r \in DOMAIN buckets, NEW i \in DOMAIN buckets[r], Age(r, i)
    PROVE  StepIsFine
  BY Dated DEF Age

LEMMA QueryStep ==
    ASSUME RoutingInv, NEW n \in Strangers, handle_query(n) PROVE StepIsFine
<1> DEFINE r == bucket_index(buckets, n.id)
           same == {i \in DOMAIN buckets[r] : Whom(buckets[r][i]) = n}
<1>1. n \in Peers /\ n.id \in Ids /\ IsTable(buckets)
  BY NodesArePeers DEF RoutingInv, Sound
<1>2. r \in DOMAIN buckets
  BY <1>1, Found
<1>3. CASE same # {}
  <2>1. /\ buckets' = [buckets EXCEPT ![r][First(same)].stale = FALSE]
        /\ UNCHANGED <<local_id, probes, bucket_probes, pings>>
    BY <1>3 DEF handle_query, observe_query
  <2> HIDE DEF r
  <2>2. same \in SUBSET Nat
    BY <1>1, <1>2, Buckets
  <2>3. First(same) \in DOMAIN buckets[r]
    BY <1>3, <2>2, FirstIsLeast
  <2> HIDE DEF same
  <2> QED
    BY <1>2, <2>1, <2>3, Dated
<1>4. CASE same = {}
  <2>1. /\ UNCHANGED <<local_id, buckets, probes, bucket_probes>> /\ schedule_verification(n)
    BY <1>4 DEF handle_query, observe_query
  <2>2. PingsKept
    BY <1>1, <2>1 DEF schedule_verification, pings, PingsKept, RoutingInv
  <2>3. RoutingInv'
    BY <2>1, <2>2 DEF RoutingInv, PingsKept
  <2> QED
    BY <2>1, <2>3, HeldIsExcused DEF StepIsFine
<1> QED
  BY <1>3, <1>4

LEMMA ProbeAnsweredStep ==
    ASSUME RoutingInv, NEW p \in probes, ProbeAnswered(p) PROVE StepIsFine
<1> DEFINE o == observe_response(buckets, p.incumbent)
           s == State(o.buckets, probes \ {p}, bucket_probes \ {p.incumbent})
           settled == IF p.remaining = <<>> THEN Reconsidered(s, p.candidate)
                      ELSE start_bucket_probe(s, p.remaining, p.candidate)
<1>1. /\ p.incumbent \in Peers /\ p.remaining \in Seq(Peers)
      /\ p.candidate \in Peers /\ p.candidate.id # local_id
  BY DEF RoutingInv, Waiting
<1>2. PICK t \in settled : \E u \in handle_insert_outcome(t, o) : Become(u)
  BY DEF ProbeAnswered
<1>3. PICK u \in handle_insert_outcome(t, o) : Become(u)
  BY <1>2
<1>4. local_id' = local_id /\ PingsKept
  BY PingsSame DEF ProbeAnswered
<1>5. IsOutcome(o, buckets)
  BY <1>1, Observed DEF RoutingInv
<1> HIDE DEF o
<1>6. Good(s) /\ s.buckets = o.buckets
  <2>1. /\ s.buckets = o.buckets /\ s.probes = probes \ {p}
        /\ s.keys = bucket_probes \ {p.incumbent}
        /\ s = State(s.buckets, s.probes, s.keys)
    BY DEF State
  <2>2. Booked(probes \ {p}, bucket_probes \ {p.incumbent})
    BY ProbeOver DEF RoutingInv
  <2> HIDE DEF s
  <2> QED
    BY <1>5, <2>1, <2>2 DEF Good, IsOutcome, RoutingInv
<1> HIDE DEF s
<1>7. Good(t) /\ KeptBy(o.buckets, t.buckets)
  <2>1. CASE p.remaining = <<>>
    <3>1. t \in Reconsidered(s, p.candidate)
      BY <1>2, <2>1
    <3> QED
      BY <1>1, <1>6, <3>1, TriedAgain DEF RoutingInv
  <2>2. CASE p.remaining # <<>>
    <3>1. t \in start_bucket_probe(s, p.remaining, p.candidate)
      BY <1>2, <2>2
    <3> QED
      BY <1>1, <1>6, <2>2, <3>1, ProbeStarted, KeptSame
  <2> QED
    BY <2>1, <2>2
<1>8. Good(u) /\ u.buckets = t.buckets
  BY <1>3, <1>5, <1>7, OutcomeHandled
<1>9. RoutingInv'
  BY <1>3, <1>4, <1>8, Arrived
<1>10. KeptBy(buckets, buckets')
  <2>1. KeptBy(buckets, o.buckets)
    BY <1>5 DEF IsOutcome
  <2>2. buckets' = t.buckets
    BY <1>3, <1>8 DEF Become
  <2> QED
    BY <1>7, <2>1, <2>2, KeptTwice
<1> QED
  BY <1>9, <1>10, KeptIsExcused DEF StepIsFine

LEMMA ProbeFailedStep ==
    ASSUME RoutingInv, NEW p \in probes, ProbeFailed(p) PROVE StepIsFine
<1> DEFINE b == record_failure(buckets, p.incumbent.id)
           bad == /\ Known(b, p.incumbent.id)
                  /\ status(At(b, contact(b, p.incumbent.id))) = "bad"
           s == State(b, probes \ {p}, bucket_probes)
           over == [s EXCEPT !.keys = @ \ {p.incumbent}]
           again == [p EXCEPT !.attempt = @ + 1]
<1>1. /\ p \in Waiting(local_id) /\ p.incumbent \in Peers /\ p.incumbent.id \in Ids
      /\ p.candidate \in Peers /\ p.candidate.id # local_id /\ p.attempt \in {1, 2}
  BY NodesArePeers DEF RoutingInv, Waiting
<1>2. PICK t \in (CASE bad -> Reconsidered(over, p.candidate)
                    [] ~bad /\ p.attempt < 2 -> start_query(s, again)
                    [] OTHER -> {over}) : Become(t)
  BY DEF ProbeFailed
<1>3. local_id' = local_id /\ PingsKept
  BY PingsSame DEF ProbeFailed
<1>4. /\ Sound(b, local_id)
      /\ \A i : Holds(buckets, i) => Holds(b, i)
      /\ \A i : Lives(buckets, i) /\ i # p.incumbent.id => Lives(b, i)
      /\ \A i : Fresh(buckets, i) => Lives(b, i)
  BY <1>1, Failed DEF RoutingInv
<1> HIDE DEF b
<1>5. Booked(probes \ {p}, bucket_probes \ {p.incumbent})
  BY ProbeOver DEF RoutingInv
<1>6. over = State(b, probes \ {p}, bucket_probes \ {p.incumbent})
  <2>1. s.buckets = b /\ s.probes = probes \ {p} /\ s.keys = bucket_probes
        /\ s = State(s.buckets, s.probes, s.keys)
    BY DEF State
  <2> HIDE DEF s
  <2> QED
    BY <2>1, Rebooked
<1>7. Good(over) /\ over.buckets = b /\ over.probes = probes \ {p}
  <2> HIDE DEF over
  <2>1. /\ over.buckets = b /\ over.probes = probes \ {p}
        /\ over.keys = bucket_probes \ {p.incumbent}
        /\ over = State(over.buckets, over.probes, over.keys)
    BY <1>6 DEF State
  <2> QED
    BY <1>4, <1>5, <2>1 DEF Good, RoutingInv
<1>8. CASE bad
  <2>1. t \in Reconsidered(over, p.candidate)
    BY <1>2, <1>8
  <2> HIDE DEF over
  <2>2. /\ Good(t) /\ KeptBy(b, t.buckets)
        /\ t.probes = probes \ {p} \/ \A id : Holds(b, id) => Holds(t.buckets, id)
    BY <1>1, <1>7, <2>1, TriedAgain DEF RoutingInv
  <2>3. RoutingInv'
    BY <1>2, <1>3, <2>2, Arrived
  <2>4. buckets' = t.buckets /\ probes' = t.probes
    BY <1>2 DEF Become
  <2>5. \A id : Lives(b, id) => Holds(buckets', id)
    BY <2>2, <2>4, LivesHolds DEF KeptBy
  <2>6. ASSUME NEW id, Lives(buckets, id)
        PROVE  Holds(buckets', id) \/ \E q \in probes \ probes' : q.incumbent.id = id
    <3>1. CASE id # p.incumbent.id
      BY <1>4, <2>5, <2>6, <3>1
    <3>2. CASE id = p.incumbent.id /\ t.probes = probes \ {p}
      BY <2>4, <3>2
    <3>3. CASE \A i : Holds(b, i) => Holds(t.buckets, i)
      BY <1>4, <2>4, <2>6, <3>3, LivesHolds
    <3> QED
      BY <2>2, <3>1, <3>2, <3>3
  <2>7. Excused
    BY <1>4, <2>5, <2>6 DEF Excused
  <2> QED
    BY <2>3, <2>7 DEF StepIsFine
<1>9. CASE ~bad
  <2>1. t = over \/ (t \in start_query(s, again) /\ p.attempt < 2)
    <3> HIDE DEF bad, over, s, again
    <3> QED
      BY <1>2, <1>9
  <2>2. Good(t) /\ t.buckets = b
    <3>1. CASE t = over
      BY <1>7, <3>1
    <3>2. CASE t \in start_query(s, again) /\ p.attempt < 2
      <4>1. again \in Waiting(local_id) /\ again.incumbent = p.incumbent
        BY <1>1, <3>2 DEF Waiting
      <4>2. p.incumbent \in bucket_probes
        BY DEF RoutingInv, Booked
      <4>3. \A q \in probes \ {p} : q \in Waiting(local_id)
        BY DEF RoutingInv
      <4> HIDE DEF again
      <4> QED
        BY <1>4, <1>5, <3>2, <4>1, <4>2, <4>3, QueryStarted
    <3> QED
      BY <2>1, <3>1, <3>2
  <2>3. RoutingInv'
    BY <1>2, <1>3, <2>2, Arrived
  <2>4. \A id : Holds(buckets, id) => Holds(buckets', id)
    BY <1>2, <1>4, <2>2 DEF Become
  <2> QED
    BY <2>3, <2>4, HeldIsExcused DEF StepIsFine
<1> QED
  BY <1>8, <1>9

LEMMA ProbeUnsentStep ==
    ASSUME RoutingInv, NEW p \in probes, ProbeUnsent(p) PROVE StepIsFine
<1>1. /\ probes' = probes \ {p} /\ bucket_probes' = bucket_probes \ {p.incumbent}
      /\ UNCHANGED <<local_id, buckets, pings>>
  BY DEF ProbeUnsent
<1>2. Booked(probes', bucket_probes')
  BY <1>1, ProbeOver DEF RoutingInv
<1>3. PingsKept
  BY <1>1, PingsSame
<1>4. RoutingInv'
  BY <1>1, <1>2, <1>3 DEF RoutingInv, PingsKept
<1> QED
  BY <1>1, <1>4, HeldIsExcused DEF StepIsFine

LEMMA VerificationEnded ==
    ASSUME RoutingInv, NEW n \in verifying, VerificationEnds(n) PROVE PingsKept /\ n \in Peers
  BY DEF RoutingInv, VerificationEnds, PingsKept

LEMMA VerificationStep ==
    ASSUME RoutingInv, NEW n \in verifying, VerificationAnswered(n) \/ VerificationFailed(n)
    PROVE  StepIsFine
<1>1. PingsKept /\ n \in Peers
  BY VerificationEnded DEF VerificationAnswered, VerificationFailed
<1>2. CASE VerificationAnswered(n)
  <2>1. PICK s \in handle_insert_outcome(
                 State(observe_response(buckets, n).buckets, probes, bucket_probes),
                 observe_response(buckets, n)) : Become(s)
    BY <1>2 DEF VerificationAnswered
  <2>2. local_id' = local_id
    BY <1>2 DEF VerificationAnswered
  <2> QED
    BY <1>1, <2>1, <2>2, Answering
<1>3. CASE VerificationFailed(n)
  <2>1. UNCHANGED <<local_id, buckets, probes, bucket_probes>>
    BY <1>3 DEF VerificationFailed
  <2>2. RoutingInv'
    BY <1>1, <2>1 DEF RoutingInv, PingsKept
  <2> QED
    BY <2>1, <2>2, HeldIsExcused DEF StepIsFine
<1> QED
  BY <1>2, <1>3

(* The table of a new identity is empty.                                   *)
LEMMA EmptyTable == \A me : Sound([r \in {Root} |-> <<>>], me)
<1> DEFINE b == [r \in {Root} |-> <<>>]
<1>1. /\ <<>> \in Seq(Contacts) /\ <<>> \in Seq({0, 1}) /\ Len(<<>>) = 0
      /\ DOMAIN <<>> = {}
  BY EmptySeq
<1>2. DOMAIN b = {Root} /\ b[Root] = <<>> /\ Root = <<>>
  BY DEF Root
<1>3. b \in [DOMAIN b -> Seq(Contacts)]
  BY <1>1
<1> HIDE DEF b
<1>4. \A id : contains(Root, id)
  BY <1>1, <1>2 DEF contains
<1>5. IsTable(b)
  BY <1>1, <1>2, <1>3, <1>4, WidthAssumption DEF IsTable
<1>6. \A me : Tidy(b, me)
  BY <1>1, <1>2, WidthAssumption DEF Tidy
<1> QED
  BY <1>5, <1>6 DEF Sound, b

LEMMA NothingBooked == Booked({}, {})
  BY FS_EmptySet DEF Booked

LEMMA InitRouting == Init => RoutingInv
  BY EmptyTable, NothingBooked, NodesArePeers DEF Init, RoutingInv

LEMMA RotateStep ==
    ASSUME RoutingInv, NEW id \in LocalIds, rotate_identity(id)
    PROVE  RoutingInv' /\ buckets' = [r \in {Root} |-> <<>>]
  BY EmptyTable, NothingBooked, NodesArePeers DEF rotate_identity, RoutingInv

LEMMA RoutingStep ==
    ASSUME RoutingInv, [Next]_vars
    PROVE  RoutingInv' /\ (Excused \/ buckets' = [r \in {Root} |-> <<>>])
<1>1. CASE \E n \in Nodes : OtherAnswer(n) /\ Bounded
  BY <1>1, OtherAnswerStep DEF StepIsFine
<1>2. CASE \E n \in Fading : record_expected_failure(n)
  BY <1>2, ExpectedFailureStep DEF StepIsFine
<1>3. CASE \E n \in Strangers : handle_query(n)
  BY <1>3, QueryStep DEF StepIsFine
<1>4. CASE \E p \in probes : (ProbeAnswered(p) \/ ProbeFailed(p)) /\ Bounded
  BY <1>4, ProbeAnsweredStep, ProbeFailedStep DEF StepIsFine
<1>5. CASE \E p \in probes : ProbeUnsent(p)
  BY <1>5, ProbeUnsentStep DEF StepIsFine
<1>6. CASE \E n \in verifying : VerificationAnswered(n) /\ Bounded
  BY <1>6, VerificationStep DEF StepIsFine
<1>7. CASE \E n \in verifying : VerificationFailed(n)
  BY <1>7, VerificationStep DEF StepIsFine
<1>8. CASE \E r \in DOMAIN buckets : \E i \in DOMAIN buckets[r] : Age(r, i)
  BY <1>8, AgeStep DEF StepIsFine
<1>9. CASE \E id \in LocalIds : rotate_identity(id)
  BY <1>9, RotateStep
<1>10. CASE UNCHANGED vars
  <2>1. RoutingInv'
    BY <1>10 DEF vars, pings, RoutingInv
  <2>2. Excused
    BY <1>10, HeldIsExcused DEF vars
  <2> QED
    BY <2>1, <2>2
<1> QED
  BY <1>1, <1>2, <1>3, <1>4, <1>5, <1>6, <1>7, <1>8, <1>9, <1>10 DEF Next


-----------------------------------------------------------------------------
(* Theorems.                                                               *)

(* What the invariant says is what the table and the books need.           *)
LEMMA KeptFromInv == RoutingInv => TableIsKept
<1> SUFFICES ASSUME RoutingInv PROVE TableIsKept
  OBVIOUS
<1>1. IsTable(buckets) /\ Tidy(buckets, local_id)
  BY DEF RoutingInv, Sound
<1>2. ASSUME NEW id \in Ids PROVE Cardinality({r \in DOMAIN buckets : contains(r, id)}) = 1
  <2>1. {r \in DOMAIN buckets : contains(r, id)} = {bucket_index(buckets, id)}
    BY <1>1, Found
  <2> QED
    BY <2>1, FS_Singleton
<1>3. ASSUME NEW r \in DOMAIN buckets
      PROVE  /\ Len(buckets[r]) <= BUCKET_SIZE
             /\ \A c \in Range(buckets[r]) : contains(r, c.id) /\ c.id # local_id
  BY <1>1 DEF Tidy, Range
<1>4. TableIsSound
  BY <1>2, <1>3 DEF TableIsSound
<1>5. Cardinality(bucket_probes) = Cardinality(probes)
  <2> DEFINE f == [p \in probes |-> p.incumbent]
  <2>1. Booked(probes, bucket_probes)
    BY DEF RoutingInv
  <2>2. f \in [probes -> bucket_probes] /\ \A p, q \in probes : f[p] = f[q] => p = q
    BY <2>1 DEF Booked
  <2>3. \A k \in bucket_probes : \E p \in probes : f[p] = k
    BY <2>1 DEF Booked
  <2> HIDE DEF f
  <2>4. f \in Bijection(probes, bucket_probes)
    BY <2>2, <2>3 DEF Bijection, Injection, Surjection, IsInjective
  <2>5. ExistsBijection(probes, bucket_probes)
    BY <2>4 DEF ExistsBijection
  <2>6. IsFiniteSet(probes)
    BY <2>1 DEF Booked
  <2> QED
    BY <2>5, <2>6, FS_Bijection
<1>6. KeysAreReturned
  BY <1>5 DEF KeysAreReturned, RoutingInv, Booked
<1> QED
  BY <1>4, <1>6 DEF TableIsKept

(* The invariant of the table and its pings, over every answer, failure,   *)
(* query, probe, reverse ping and change of identity (routing/mod.rs,      *)
(* response/routing.rs, response/completion.rs).                           *)
THEOREM RoutingIsInOrder == Spec => []RoutingInv
<1>1. RoutingInv /\ [Next]_vars => RoutingInv'
  BY RoutingStep
<1> QED
  BY <1>1, InitRouting, PTL DEF Spec

(* For any width, bucket size and nodes: the ranges always partition the   *)
(* identifiers, so bucket_index finds its bucket; no bucket is too long,   *)
(* every contact is where its identifier is looked up, and every probe and *)
(* reverse ping has exactly its own key.                                   *)
THEOREM TheTableIsKept == Spec => []TableIsKept
  BY RoutingIsInOrder, KeptFromInv, PTL

(* The same for eviction: no step pushes out a contact that has not failed *)
(* twice in a row, the failure of this step's probe included               *)
(* (insert_verified, observe_response, record_failure).                    *)
THEOREM BadMakeRoom == Spec => OnlyBadMakeRoom
<1> DEFINE Spared ==
      \A r \in DOMAIN buckets : \A c \in Range(buckets[r]) :
         \/ Known(buckets', c.id)
         \/ c.fails + (IF JustFailed(c) THEN 1 ELSE 0) >= MAX_CONSECUTIVE_FAILURES
         \/ buckets' = [q \in {Root} |-> <<>>]
<1>1. RoutingInv /\ [Next]_vars => [Spared]_vars
  <2> SUFFICES ASSUME RoutingInv, [Next]_vars, NEW r \in DOMAIN buckets,
                      NEW c \in Range(buckets[r]), buckets' # [q \in {Root} |-> <<>>],
                      ~Known(buckets', c.id)
               PROVE  c.fails + (IF JustFailed(c) THEN 1 ELSE 0) >= MAX_CONSECUTIVE_FAILURES
    OBVIOUS
  <2>1. RoutingInv' /\ Excused
    BY RoutingStep
  <2>2. PICK i \in DOMAIN buckets[r] : buckets[r][i] = c
    BY DEF Range
  <2>3. c.id \in Ids /\ c.fails \in 0..2
    BY <2>2, Buckets DEF RoutingInv, Sound
  <2>4. ~Holds(buckets', c.id)
    <3>1. Sound(buckets', local_id')
      BY <2>1 DEF RoutingInv
    <3> QED
      BY <2>3, <3>1, KnownIsHeld
  <2>5. c.fails # 0
    BY <2>1, <2>2, <2>4 DEF Excused, Fresh
  <2>6. c.fails < 2 => JustFailed(c)
    <3> SUFFICES ASSUME c.fails < 2 PROVE JustFailed(c)
      OBVIOUS
    <3>1. Lives(buckets, c.id)
      BY <2>2 DEF Lives, MAX_CONSECUTIVE_FAILURES
    <3> QED
      BY <2>1, <2>4, <3>1 DEF Excused, JustFailed
  <2> QED
    BY <2>3, <2>5, <2>6 DEF MAX_CONSECUTIVE_FAILURES
<1> QED
  BY <1>1, RoutingIsInOrder, PTL DEF Spec, OnlyBadMakeRoom


-----------------------------------------------------------------------------
(* The lookup that fills the table.  Its operations are done on a record;  *)
(* each is said once what it makes of the queries in flight and their      *)
(* count.                                                                  *)

Lookups ==
    [states : UNION {[D -> CandidateState] : D \in SUBSET Candidates},
     node : UNION {[D -> LookupContact] : D \in SUBSET Candidates},
     attempted : SUBSET Places, in_flight : Nat, started : Int, responses : Int]
Flying(l) == InState(l, "in_flight")
Counted(l) ==
    /\ DOMAIN l.node = DOMAIN l.states
    /\ l.in_flight = Cardinality(Flying(l))
    /\ l.in_flight <= lookup_parallelism /\ l.started <= max_queries

(* The addresses of the queries in flight are noted, each for one of them, *)
(* and as many addresses are noted as queries were started.                *)
Noted(l) ==
    /\ IsFiniteSet(l.attempted) /\ l.started = Cardinality(l.attempted)
    /\ \A c \in Flying(l) : l.node[c].address \in l.attempted
    /\ \A c, d \in Flying(l) : l.node[c].address = l.node[d].address => c = d

(* Too many candidates are never kept: therefore those that were tried,    *)
(* who are among the earlier ones, survive the cut after each answer.      *)
Orderly(l) == Counted(l) /\ Noted(l) /\ Cardinality(DOMAIN l.states) <= max_candidates

LEMMA FlyingIsFinite ==
    ASSUME NEW l \in Lookups
    PROVE  /\ Flying(l) \subseteq DOMAIN l.states /\ DOMAIN l.states \subseteq Candidates
           /\ IsFiniteSet(Flying(l)) /\ IsFiniteSet(DOMAIN l.states)
           /\ l.states \in [DOMAIN l.states -> CandidateState]
           /\ l.node \in [DOMAIN l.node -> LookupContact] /\ DOMAIN l.node \subseteq Candidates
<1>1. PICK D \in SUBSET Candidates : l.states \in [D -> CandidateState]
  BY DEF Lookups
<1>2. DOMAIN l.states = D
  BY <1>1
<1>3. Flying(l) \subseteq DOMAIN l.states
  BY DEF Flying, InState
<1>4. IsFiniteSet(DOMAIN l.states)
  BY <1>2, CandidateAssumption, FS_Subset
<1>5. IsFiniteSet(Flying(l))
  BY <1>3, <1>4, FS_Subset
<1>6. PICK N \in SUBSET Candidates : l.node \in [N -> LookupContact]
  BY DEF Lookups
<1> QED
  BY <1>1, <1>2, <1>3, <1>4, <1>5, <1>6

(* The nearest n of a set are at most n: all of them are no further than   *)
(* the one with the most nearer ones.                                      *)
LEMMA NearestAreFew ==
    ASSUME NEW S \in SUBSET Candidates, NEW n \in Nat
    PROVE  /\ Nearest(S, n) \subseteq S /\ IsFiniteSet(Nearest(S, n))
           /\ Cardinality(Nearest(S, n)) <= n
<1> DEFINE T == Nearest(S, n)
           Nearer(c) == {d \in S : d < c}
<1>1. IsFiniteSet(S) /\ S \subseteq Nat
  BY CandidateAssumption, FS_Subset
<1>2. T \subseteq S /\ \A c \in T : Cardinality(Nearer(c)) < n
  BY DEF Nearest
<1>3. IsFiniteSet(T)
  BY <1>1, <1>2, FS_Subset
<1>4. ASSUME NEW c PROVE IsFiniteSet(Nearer(c)) /\ Cardinality(Nearer(c)) \in Nat
  <2>1. Nearer(c) \in SUBSET S
    OBVIOUS
  <2>2. IsFiniteSet(Nearer(c))
    BY <1>1, <2>1, FS_Subset
  <2> QED
    BY <2>2, FS_CardinalityType
<1> HIDE DEF T
<1>5. CASE T = {}
  <2>1. Cardinality(T) = 0
    BY <1>5, FS_EmptySet
  <2> QED
    BY <1>2, <1>3, <2>1 DEF T
<1>6. CASE T # {}
  <2> DEFINE Ranks == {n - Cardinality(Nearer(c)) : c \in T}
  <2>1. Ranks \in SUBSET Nat /\ Ranks # {}
    <3>1. ASSUME NEW c \in T PROVE n - Cardinality(Nearer(c)) \in Nat
      <4>1. Cardinality(Nearer(c)) \in Nat /\ Cardinality(Nearer(c)) < n
        BY <1>2, <1>4
      <4> HIDE DEF Nearer
      <4> QED
        BY <4>1
    <3> HIDE DEF Nearer
    <3> QED
      BY <1>6, <3>1
  <2>2. PICK r \in Ranks : \A q \in Ranks : r <= q
    BY <2>1, Least
  <2>3. PICK c \in T : r = n - Cardinality(Nearer(c))
    BY <2>2
  <2>4. ASSUME NEW d \in T PROVE d \in Nearer(c) \cup {c}
    <3>1. c \in Nat /\ d \in Nat /\ c \in S /\ d \in S
      BY <1>1, <1>2
    <3>2. ~(c < d)
      <4> SUFFICES ASSUME c < d PROVE FALSE
        OBVIOUS
      <4>1. Nearer(c) \cup {c} \subseteq Nearer(d)
        <5>1. \A e \in S : e < c => e < d
          BY <1>1, <3>1
        <5> QED
          BY <3>1, <5>1
      <4>2. c \notin Nearer(c)
        BY <3>1
      <4>3. IsFiniteSet(Nearer(c)) /\ IsFiniteSet(Nearer(d))
            /\ Cardinality(Nearer(c)) \in Nat /\ Cardinality(Nearer(d)) \in Nat
        BY <1>4
      <4>4. n - Cardinality(Nearer(d)) \in Ranks
        OBVIOUS
      <4> HIDE DEF Nearer, Ranks
      <4>5. Cardinality(Nearer(c) \cup {c}) = Cardinality(Nearer(c)) + 1
        BY <4>2, <4>3, FS_AddElement
      <4>6. Cardinality(Nearer(c) \cup {c}) <= Cardinality(Nearer(d))
        BY <4>1, <4>3, FS_Subset
      <4>7. n - Cardinality(Nearer(c)) <= n - Cardinality(Nearer(d))
        BY <2>2, <2>3, <4>4
      <4> QED
        BY <4>3, <4>5, <4>6, <4>7
    <3> QED
      BY <3>1, <3>2
  <2>5. c \in S /\ Cardinality(Nearer(c)) < n
    BY <1>2
  <2>6. c \notin Nearer(c)
    BY <1>1, <2>5
  <2>7. IsFiniteSet(Nearer(c)) /\ Cardinality(Nearer(c)) \in Nat
    BY <1>4
  <2> HIDE DEF Nearer
  <2>8. IsFiniteSet(Nearer(c) \cup {c}) /\ Cardinality(Nearer(c) \cup {c}) = Cardinality(Nearer(c)) + 1
    BY <2>6, <2>7, FS_AddElement
  <2>9. T \subseteq Nearer(c) \cup {c}
    BY <2>4
  <2>10. Cardinality(T) <= Cardinality(Nearer(c) \cup {c})
    BY <2>8, <2>9, FS_Subset
  <2>11. Cardinality(T) \in Nat
    BY <1>3, FS_CardinalityType
  <2>12. Cardinality(T) <= n
    BY <2>5, <2>7, <2>8, <2>10, <2>11
  <2> QED
    BY <1>2, <1>3, <2>12 DEF T
<1> QED
  BY <1>5, <1>6

LEMMA LeastOfThree ==
    ASSUME NEW a \in Nat, NEW b \in Nat, NEW c \in Nat
    PROVE  /\ LeastOf({a, b, c}) \in Nat
           /\ LeastOf({a, b, c}) <= b /\ LeastOf({a, b, c}) <= c
<1>1. {a, b, c} \in SUBSET Nat /\ {a, b, c} # {}
  OBVIOUS
<1>2. \E n \in {a, b, c} : \A m \in {a, b, c} : n <= m
  BY <1>1, Least
<1>3. LeastOf({a, b, c}) \in {a, b, c} /\ \A m \in {a, b, c} : LeastOf({a, b, c}) <= m
  BY <1>2 DEF LeastOf
<1> QED
  BY <1>3


Made(f, g, a, i, s, r) ==
    [states |-> f, node |-> g, attempted |-> a, in_flight |-> i, started |-> s,
     responses |-> r]
LEMMA LookupMade ==
    ASSUME NEW D \in SUBSET Candidates, NEW f \in [D -> CandidateState],
           NEW N \in SUBSET Candidates, NEW g \in [N -> LookupContact],
           NEW a \in SUBSET Places, NEW i \in Nat, NEW s \in Int, NEW r \in Int
    PROVE  Made(f, g, a, i, s, r) \in Lookups
<1>1. f \in UNION {[E -> CandidateState] : E \in SUBSET Candidates}
  OBVIOUS
<1>2. g \in UNION {[E -> LookupContact] : E \in SUBSET Candidates}
  OBVIOUS
<1> QED
  BY <1>1, <1>2 DEF Lookups, Made

LEMMA TakeNextCounts ==
    ASSUME NEW l \in Lookups, Counted(l), NEW capacity \in Nat
    PROVE  /\ take_next(l, capacity) \in Lookups /\ Counted(take_next(l, capacity))
           /\ Flying(take_next(l, capacity)) = Flying(l) \cup Asked(l, capacity)
           /\ Asked(l, capacity) \cap Flying(l) = {}
           /\ Asked(l, capacity) \subseteq DOMAIN l.states /\ IsFiniteSet(Asked(l, capacity))
           /\ DOMAIN take_next(l, capacity).states = DOMAIN l.states
           /\ take_next(l, capacity).node = l.node
           /\ take_next(l, capacity).attempted
                = l.attempted \cup {l.node[c].address : c \in Asked(l, capacity)}
           /\ take_next(l, capacity).started = l.started + Cardinality(Asked(l, capacity))
<1> DEFINE m == take_next(l, capacity)
           taken == Asked(l, capacity)
           looked == Looked(l, capacity)
           S == {c \in closest_valid(l.states, shortlist_size) : l.states[c] = "unqueried"}
           slots == Minus(lookup_parallelism, l.in_flight)
           left == Minus(max_queries, l.started)
           D == DOMAIN l.states
<1>0. /\ l.node \in [DOMAIN l.node -> LookupContact] /\ DOMAIN l.node \in SUBSET Candidates
      /\ DOMAIN l.node = DOMAIN l.states
  BY FlyingIsFinite DEF Counted
<1>1. /\ Flying(l) \subseteq D /\ D \subseteq Candidates
      /\ IsFiniteSet(Flying(l)) /\ IsFiniteSet(D) /\ l.states \in [D -> CandidateState]
  BY FlyingIsFinite
<1>2. l.in_flight \in Nat /\ l.started \in Int /\ l.responses \in Int
      /\ l.attempted \in SUBSET Places
  BY DEF Lookups
<1>3. /\ lookup_parallelism \in Nat /\ max_queries \in Nat
      /\ l.in_flight <= lookup_parallelism /\ l.started <= max_queries
      /\ l.in_flight = Cardinality(Flying(l))
  BY CandidateAssumption DEF Counted
<1>4. slots = lookup_parallelism - l.in_flight /\ left = max_queries - l.started
      /\ slots \in Nat /\ left \in Nat
  BY <1>2, <1>3 DEF Minus
<1>5. S \subseteq D /\ \A c \in S : l.states[c] = "unqueried"
  BY DEF closest_valid, Nearest
<1> HIDE DEF S, slots, left
<1>6. /\ LeastOf({capacity, slots, left}) \in Nat
      /\ LeastOf({capacity, slots, left}) <= slots /\ LeastOf({capacity, slots, left}) <= left
  BY <1>4, LeastOfThree
<1>7. looked = Nearest(S, LeastOf({capacity, slots, left}))
  BY DEF Looked, S, slots, left
<1>8. /\ looked \subseteq S /\ IsFiniteSet(looked)
      /\ Cardinality(looked) <= LeastOf({capacity, slots, left})
  <2>1. S \in SUBSET Candidates
    BY <1>1, <1>5
  <2> QED
    BY <1>6, <1>7, <2>1, NearestAreFew
<1> HIDE DEF looked
<1>9. taken \subseteq looked
  BY DEF Asked, looked
<1>10. m = [l EXCEPT
              !.states = [c \in D |-> IF c \in taken THEN "in_flight"
                                      ELSE IF c \in looked THEN "failed" ELSE l.states[c]],
              !.attempted = l.attempted \cup {l.node[c].address : c \in taken},
              !.in_flight = l.in_flight + Cardinality(taken),
              !.started = l.started + Cardinality(taken)]
  BY DEF take_next, looked, Lookups
<1> HIDE DEF m, taken
<1>11. IsFiniteSet(taken) /\ Cardinality(taken) <= Cardinality(looked)
  BY <1>8, <1>9, FS_Subset
<1>12. Cardinality(taken) \in Nat /\ Cardinality(looked) \in Nat
  BY <1>8, <1>11, FS_CardinalityType
<1>13. /\ l.in_flight + Cardinality(taken) \in Nat /\ l.started + Cardinality(taken) \in Int
       /\ l.in_flight + Cardinality(taken) <= lookup_parallelism
       /\ l.started + Cardinality(taken) <= max_queries
  BY <1>2, <1>3, <1>4, <1>6, <1>8, <1>11, <1>12
<1> DEFINE f == [c \in D |-> IF c \in taken THEN "in_flight"
                             ELSE IF c \in looked THEN "failed" ELSE l.states[c]]
           a == l.attempted \cup {l.node[c].address : c \in taken}
           i == l.in_flight + Cardinality(taken)
           s == l.started + Cardinality(taken)
<1>14. f \in [D -> CandidateState] /\ DOMAIN f = D /\ \A c \in D : f[c] =
           IF c \in taken THEN "in_flight" ELSE IF c \in looked THEN "failed" ELSE l.states[c]
  BY <1>1 DEF CandidateState
<1>15. a \in SUBSET Places
  <2>1. \A c \in taken : c \in DOMAIN l.node /\ l.node[c] \in LookupContact
    BY <1>0, <1>5, <1>8, <1>9 DEF D
  <2>2. \A c \in taken : l.node[c].address \in Places
    BY <2>1 DEF LookupContact
  <2> QED
    BY <1>2, <2>2
<1>16. m = Made(f, l.node, a, i, s, l.responses)
  BY <1>10 DEF Lookups, Made
<1> HIDE DEF f, a, i, s, D
<1>17. i \in Nat /\ s \in Int
  BY <1>13 DEF i, s
<1>18. /\ m \in Lookups /\ m.states = f /\ m.in_flight = i /\ m.started = s
       /\ m.node = l.node /\ m.attempted = a
  <2>1. Made(f, l.node, a, i, s, l.responses) \in Lookups
    BY <1>0, <1>1, <1>2, <1>14, <1>15, <1>17, LookupMade
  <2> QED
    BY <1>16, <2>1 DEF Made
<1>19. taken \subseteq D /\ \A c \in taken : l.states[c] = "unqueried" /\ c \in looked
  BY <1>5, <1>8, <1>9
<1>20. \A c \in looked : l.states[c] # "in_flight"
  BY <1>5, <1>8
<1>21. Flying(l) = {c \in D : l.states[c] = "in_flight"}
  BY DEF Flying, InState, D
<1>22. Flying(m) = {c \in D : f[c] = "in_flight"}
  BY <1>14, <1>18 DEF Flying, InState
<1>23. Flying(m) = Flying(l) \cup taken /\ taken \cap Flying(l) = {}
  BY <1>14, <1>19, <1>20, <1>21, <1>22
<1>24. Cardinality(Flying(l) \cup taken) = Cardinality(Flying(l)) + Cardinality(taken)
  <2>1. Cardinality(Flying(l) \cup taken)
          = Cardinality(Flying(l)) + Cardinality(taken) - Cardinality(Flying(l) \cap taken)
    BY <1>1, <1>11, FS_Union
  <2>2. Flying(l) \cap taken = {}
    BY <1>23
  <2>3. Cardinality(Flying(l) \cap taken) = 0
    BY <2>2, FS_EmptySet
  <2>4. Cardinality(Flying(l)) \in Nat
    BY <1>1, FS_CardinalityType
  <2> QED
    BY <1>12, <2>1, <2>3, <2>4
<1>25. DOMAIN m.node = DOMAIN m.states
  BY <1>0, <1>14, <1>18 DEF D
<1>26. Counted(m)
  BY <1>3, <1>13, <1>18, <1>23, <1>24, <1>25 DEF Counted, i, s
<1> QED
  BY <1>0, <1>11, <1>18, <1>19, <1>23, <1>25, <1>26 DEF m, taken, D, a, s

(* Some queries leave, ended or deferred.                                  *)
LEMMA SomeLeave ==
    ASSUME NEW l \in Lookups, Counted(l), NEW C,
           NEW B, B = C \cap Flying(l)
    PROVE  /\ IsFiniteSet(B) /\ Cardinality(B) \in Nat /\ Cardinality(B) <= l.in_flight
           /\ Cardinality(Flying(l) \ C) = l.in_flight - Cardinality(B)
<1>1. IsFiniteSet(Flying(l)) /\ l.in_flight = Cardinality(Flying(l))
  BY FlyingIsFinite DEF Counted
<1>2. B \subseteq Flying(l) /\ Flying(l) \ C = Flying(l) \ B /\ Flying(l) \cap B = B
  OBVIOUS
<1>3. IsFiniteSet(B) /\ Cardinality(B) <= Cardinality(Flying(l))
  BY <1>1, <1>2, FS_Subset
<1>4. Cardinality(B) \in Nat
  BY <1>3, FS_CardinalityType
<1>5. Cardinality(Flying(l) \ B) = Cardinality(Flying(l)) - Cardinality(Flying(l) \cap B)
  BY <1>1, FS_Difference
<1> QED
  BY <1>1, <1>2, <1>3, <1>4, <1>5

LEMMA FinishCounts ==
    ASSUME NEW l \in Lookups, Counted(l), NEW C, NEW success \in BOOLEAN
    PROVE  /\ finish_candidate(l, C, success) \in Lookups
           /\ Counted(finish_candidate(l, C, success))
           /\ Flying(finish_candidate(l, C, success)) = Flying(l) \ C
           /\ DOMAIN finish_candidate(l, C, success).states = DOMAIN l.states
           /\ finish_candidate(l, C, success).node = l.node
           /\ finish_candidate(l, C, success).attempted = l.attempted
           /\ finish_candidate(l, C, success).started = l.started
<1> DEFINE m == finish_candidate(l, C, success)
           B == C \cap Flying(l)
           D == DOMAIN l.states
           f == [c \in D |-> IF c \in B THEN IF success THEN "succeeded" ELSE "failed"
                             ELSE l.states[c]]
           i == Minus(l.in_flight, Cardinality(B))
           r == IF success THEN l.responses + Cardinality(B) ELSE l.responses
<1>0. /\ l.node \in [DOMAIN l.node -> LookupContact] /\ DOMAIN l.node \in SUBSET Candidates
      /\ DOMAIN l.node = DOMAIN l.states
  BY FlyingIsFinite DEF Counted
<1>1. /\ D \subseteq Candidates /\ l.states \in [D -> CandidateState]
  BY FlyingIsFinite
<1>2. /\ l.in_flight \in Nat /\ l.started \in Int /\ l.responses \in Int
      /\ l.attempted \in SUBSET Places
  BY DEF Lookups
<1>3. /\ Cardinality(B) \in Nat /\ Cardinality(B) <= l.in_flight
      /\ Cardinality(Flying(l) \ C) = l.in_flight - Cardinality(B)
  BY SomeLeave
<1>4. m = Made(f, l.node, l.attempted, i, l.started, r)
  <2>1. m = [l EXCEPT !.states = f, !.in_flight = i, !.responses = r]
    BY Zenon DEF finish_candidate, Flying
  <2> HIDE DEF m, f, i, r
  <2> QED
    BY <2>1 DEF Lookups, Made
<1>5. f \in [D -> CandidateState] /\ DOMAIN f = D /\ \A c \in D : f[c] =
          IF c \in B THEN IF success THEN "succeeded" ELSE "failed" ELSE l.states[c]
  BY <1>1 DEF CandidateState
<1>6. Flying(l) = {c \in D : l.states[c] = "in_flight"}
  BY DEF Flying, InState
<1>7. B = C \cap Flying(l)
  OBVIOUS
<1> HIDE DEF f, m, D, B
<1>8. i = l.in_flight - Cardinality(B) /\ i \in Nat /\ r \in Int
  BY <1>2, <1>3 DEF Minus
<1> HIDE DEF i, r
<1>9. /\ m \in Lookups /\ m.states = f /\ m.in_flight = i /\ m.started = l.started
      /\ m.node = l.node /\ m.attempted = l.attempted
  <2>1. Made(f, l.node, l.attempted, i, l.started, r) \in Lookups
    BY <1>0, <1>1, <1>2, <1>5, <1>8, LookupMade
  <2> QED
    BY <1>4, <2>1 DEF Made
<1>10. Flying(m) = {c \in D : f[c] = "in_flight"}
  BY <1>5, <1>9 DEF Flying, InState
<1>11. Flying(m) = Flying(l) \ C
  BY <1>5, <1>6, <1>7, <1>10
<1>12. lookup_parallelism \in Nat /\ l.in_flight <= lookup_parallelism /\ l.started <= max_queries
  BY CandidateAssumption DEF Counted
<1>13. Counted(m)
  <2>1. DOMAIN m.node = DOMAIN m.states
    BY <1>0, <1>5, <1>9 DEF D
  <2> QED
    BY <1>2, <1>3, <1>8, <1>9, <1>11, <1>12, <2>1 DEF Counted
<1> QED
  BY <1>5, <1>9, <1>11, <1>13 DEF m, D

LEMMA DeferCounts ==
    ASSUME NEW l \in Lookups, Counted(l), NEW C
    PROVE  /\ defer(l, C) \in Lookups /\ Counted(defer(l, C))
           /\ Flying(defer(l, C)) = Flying(l) \ C
           /\ DOMAIN defer(l, C).states = DOMAIN l.states /\ defer(l, C).node = l.node
           /\ defer(l, C).attempted
                = l.attempted \ {l.node[c].address : c \in C \cap Flying(l)}
           /\ defer(l, C).started = l.started - Cardinality(C \cap Flying(l))
<1> DEFINE m == defer(l, C)
           B == C \cap Flying(l)
           D == DOMAIN l.states
           f == [c \in D |-> IF c \in B THEN "unqueried" ELSE l.states[c]]
           a == l.attempted \ {l.node[c].address : c \in B}
           i == l.in_flight - Cardinality(B)
           s == l.started - Cardinality(B)
<1>0. /\ l.node \in [DOMAIN l.node -> LookupContact] /\ DOMAIN l.node \in SUBSET Candidates
      /\ DOMAIN l.node = DOMAIN l.states
  BY FlyingIsFinite DEF Counted
<1>1. /\ D \subseteq Candidates /\ l.states \in [D -> CandidateState]
  BY FlyingIsFinite
<1>2. /\ l.in_flight \in Nat /\ l.started \in Int /\ l.responses \in Int
      /\ l.attempted \in SUBSET Places
  BY DEF Lookups
<1>3. /\ Cardinality(B) \in Nat /\ Cardinality(B) <= l.in_flight
      /\ Cardinality(Flying(l) \ C) = l.in_flight - Cardinality(B)
  BY SomeLeave
<1>4. m = Made(f, l.node, a, i, s, l.responses)
  <2>1. m = [l EXCEPT !.states = f, !.attempted = a, !.in_flight = i, !.started = s]
    BY Zenon DEF defer, Flying
  <2> HIDE DEF m, f, a, i, s
  <2> QED
    BY <2>1 DEF Lookups, Made
<1>5. f \in [D -> CandidateState] /\ DOMAIN f = D
      /\ \A c \in D : f[c] = IF c \in B THEN "unqueried" ELSE l.states[c]
  BY <1>1 DEF CandidateState
<1>6. Flying(l) = {c \in D : l.states[c] = "in_flight"}
  BY DEF Flying, InState
<1>7. B = C \cap Flying(l)
  OBVIOUS
<1>8. a \in SUBSET Places
  BY <1>2
<1> HIDE DEF f, m, D, B, a
<1>9. i \in Nat /\ s \in Int /\ s <= l.started /\ i <= l.in_flight
  BY <1>2, <1>3
<1>10. i = l.in_flight - Cardinality(B)
  OBVIOUS
<1> HIDE DEF i, s
<1>11. /\ m \in Lookups /\ m.states = f /\ m.in_flight = i /\ m.started = s
       /\ m.node = l.node /\ m.attempted = a
  <2>1. Made(f, l.node, a, i, s, l.responses) \in Lookups
    BY <1>0, <1>1, <1>2, <1>5, <1>8, <1>9, LookupMade
  <2> QED
    BY <1>4, <2>1 DEF Made
<1>12. Flying(m) = {c \in D : f[c] = "in_flight"}
  BY <1>5, <1>11 DEF Flying, InState
<1>13. Flying(m) = Flying(l) \ C
  BY <1>5, <1>6, <1>7, <1>12
<1>14. /\ lookup_parallelism \in Nat /\ max_queries \in Nat
       /\ l.in_flight <= lookup_parallelism /\ l.started <= max_queries
  BY CandidateAssumption DEF Counted
<1>15. DOMAIN m.states = DOMAIN l.states /\ DOMAIN m.node = DOMAIN m.states
  BY <1>0, <1>5, <1>11 DEF D
<1>16. Counted(m)
  BY <1>2, <1>3, <1>9, <1>10, <1>11, <1>13, <1>14, <1>15 DEF Counted
<1> QED
  BY <1>11, <1>13, <1>15, <1>16 DEF m, a, s, B

(* Different things have as many different addresses.                      *)
LEMMA AsManyAddresses ==
    ASSUME NEW S, IsFiniteSet(S), NEW g,
           \A c, d \in S : g[c].address = g[d].address => c = d
    PROVE  /\ IsFiniteSet({g[c].address : c \in S})
           /\ Cardinality({g[c].address : c \in S}) = Cardinality(S)
<1> DEFINE T == {g[c].address : c \in S}
           f == [c \in S |-> g[c].address]
<1>1. f \in [S -> T] /\ \A c \in S : f[c] = g[c].address
  OBVIOUS
<1>2. \A t \in T : \E c \in S : f[c] = t
  OBVIOUS
<1> HIDE DEF f
<1>3. f \in Bijection(S, T)
  <2>1. \A c, d \in S : f[c] = f[d] => c = d
    BY <1>1
  <2>2. f \in Injection(S, T)
    BY <1>1, <2>1 DEF Injection, IsInjective
  <2>3. f \in Surjection(S, T)
    BY <1>1, <1>2 DEF Surjection
  <2> QED
    BY <2>2, <2>3 DEF Bijection
<1>4. ExistsBijection(S, T)
  BY <1>3 DEF ExistsBijection
<1> QED
  BY <1>4, FS_Bijection

LEMMA TakeNextIsSound ==
    ASSUME NEW l \in Lookups, Orderly(l), NEW capacity \in Nat
    PROVE  /\ take_next(l, capacity) \in Lookups /\ Orderly(take_next(l, capacity))
           /\ Flying(take_next(l, capacity)) = Flying(l) \cup Asked(l, capacity)
           /\ Asked(l, capacity) \cap Flying(l) = {}
<1> DEFINE m == take_next(l, capacity)
           taken == Asked(l, capacity)
           new == {l.node[c].address : c \in taken}
<1>1. /\ Counted(l) /\ Noted(l) /\ Cardinality(DOMAIN l.states) <= max_candidates
  BY DEF Orderly
<1>2. /\ m \in Lookups /\ Counted(m) /\ Flying(m) = Flying(l) \cup taken
      /\ taken \cap Flying(l) = {} /\ taken \subseteq DOMAIN l.states /\ IsFiniteSet(taken)
      /\ DOMAIN m.states = DOMAIN l.states /\ m.node = l.node
      /\ m.attempted = l.attempted \cup new /\ m.started = l.started + Cardinality(taken)
  BY <1>1, TakeNextCounts
<1>3. \A c \in taken : /\ c \in Looked(l, capacity) /\ l.node[c].address \notin l.attempted
                       /\ \A d \in Looked(l, capacity) :
                             d < c => l.node[d].address # l.node[c].address
  BY DEF Asked, Tried
<1>4. \A c \in taken : c \in Nat
  BY <1>2, FlyingIsFinite, CandidateAssumption
<1> HIDE DEF m, taken
<1>5. ASSUME NEW c \in taken, NEW d \in taken, l.node[c].address = l.node[d].address
      PROVE  c = d
  <2>1. ~(c < d) /\ ~(d < c)
    BY <1>3, <1>5
  <2> QED
    BY <1>4, <2>1
<1>6. IsFiniteSet(new) /\ Cardinality(new) = Cardinality(taken)
  BY <1>2, <1>5, AsManyAddresses
<1>7. IsFiniteSet(l.attempted) /\ l.started = Cardinality(l.attempted) /\ l.attempted \cap new = {}
  BY <1>1, <1>3 DEF Noted
<1>8. /\ \A c \in Flying(l) : l.node[c].address \in l.attempted
      /\ \A c, d \in Flying(l) : l.node[c].address = l.node[d].address => c = d
  BY <1>1 DEF Noted
<1>9. \A c \in taken : l.node[c].address \in new
  OBVIOUS
<1> HIDE DEF new
<1>10. /\ IsFiniteSet(l.attempted \cup new)
       /\ Cardinality(l.attempted \cup new) = Cardinality(l.attempted) + Cardinality(taken)
  <2>1. /\ IsFiniteSet(l.attempted \cup new)
        /\ Cardinality(l.attempted \cup new)
             = Cardinality(l.attempted) + Cardinality(new) - Cardinality(l.attempted \cap new)
    BY <1>6, <1>7, FS_Union
  <2>2. Cardinality(l.attempted \cap new) = 0
    BY <1>7, FS_EmptySet
  <2>3. Cardinality(l.attempted) \in Nat /\ Cardinality(new) \in Nat
    BY <1>6, <1>7, FS_CardinalityType
  <2> QED
    BY <1>6, <2>1, <2>2, <2>3
<1>11. \A c \in Flying(m) : m.node[c].address \in m.attempted
  BY <1>2, <1>8, <1>9
<1>12. ASSUME NEW c \in Flying(m), NEW d \in Flying(m), m.node[c].address = m.node[d].address
       PROVE  c = d
  <2>1. l.node[c].address = l.node[d].address
    BY <1>2, <1>12
  <2>2. CASE c \in Flying(l) /\ d \in Flying(l)
    BY <1>8, <2>1, <2>2
  <2>3. CASE c \in taken /\ d \in taken
    BY <1>5, <2>1, <2>3
  <2>4. CASE c \in Flying(l) /\ d \in taken
    BY <1>3, <1>8, <2>1, <2>4
  <2>5. CASE c \in taken /\ d \in Flying(l)
    BY <1>3, <1>8, <2>1, <2>5
  <2> QED
    BY <1>2, <2>2, <2>3, <2>4, <2>5
<1>13. Noted(m)
  BY <1>2, <1>7, <1>10, <1>11, <1>12 DEF Noted
<1> QED
  BY <1>1, <1>2, <1>13 DEF Orderly, m, taken

LEMMA FinishIsSound ==
    ASSUME NEW l \in Lookups, Orderly(l), NEW C, NEW success \in BOOLEAN
    PROVE  /\ finish_candidate(l, C, success) \in Lookups
           /\ Orderly(finish_candidate(l, C, success))
           /\ Flying(finish_candidate(l, C, success)) = Flying(l) \ C
<1> DEFINE m == finish_candidate(l, C, success)
<1>1. /\ Counted(l) /\ Noted(l) /\ Cardinality(DOMAIN l.states) <= max_candidates
  BY DEF Orderly
<1>2. /\ m \in Lookups /\ Counted(m) /\ Flying(m) = Flying(l) \ C
      /\ DOMAIN m.states = DOMAIN l.states /\ m.node = l.node
      /\ m.attempted = l.attempted /\ m.started = l.started
  BY <1>1, FinishCounts
<1> HIDE DEF m
<1>3. Noted(m)
  BY <1>1, <1>2 DEF Noted
<1> QED
  BY <1>1, <1>2, <1>3 DEF Orderly, m

LEMMA DeferIsSound ==
    ASSUME NEW l \in Lookups, Orderly(l), NEW C
    PROVE  /\ defer(l, C) \in Lookups /\ Orderly(defer(l, C))
           /\ Flying(defer(l, C)) = Flying(l) \ C
<1> DEFINE m == defer(l, C)
           B == C \cap Flying(l)
           old == {l.node[c].address : c \in B}
<1>1. /\ Counted(l) /\ Noted(l) /\ Cardinality(DOMAIN l.states) <= max_candidates
  BY DEF Orderly
<1>2. /\ m \in Lookups /\ Counted(m) /\ Flying(m) = Flying(l) \ C
      /\ DOMAIN m.states = DOMAIN l.states /\ m.node = l.node
      /\ m.attempted = l.attempted \ old /\ m.started = l.started - Cardinality(B)
  BY <1>1, DeferCounts
<1> HIDE DEF m
<1>3. B \subseteq Flying(l) /\ IsFiniteSet(B)
  BY <1>1, SomeLeave
<1>4. /\ IsFiniteSet(l.attempted) /\ l.started = Cardinality(l.attempted)
      /\ \A c \in Flying(l) : l.node[c].address \in l.attempted
      /\ \A c, d \in Flying(l) : l.node[c].address = l.node[d].address => c = d
  BY <1>1 DEF Noted
<1>5. IsFiniteSet(old) /\ Cardinality(old) = Cardinality(B)
  <2>1. \A c, d \in B : l.node[c].address = l.node[d].address => c = d
    BY <1>3, <1>4
  <2> HIDE DEF B
  <2> QED
    BY <1>3, <2>1, AsManyAddresses
<1>6. l.attempted \cap old = old
  BY <1>3, <1>4
<1>7. \A c \in Flying(l) \ C : l.node[c].address \notin old
  BY <1>4
<1> HIDE DEF old
<1>8. /\ IsFiniteSet(l.attempted \ old)
      /\ Cardinality(l.attempted \ old) = Cardinality(l.attempted) - Cardinality(B)
  <2>1. /\ IsFiniteSet(l.attempted \ old)
        /\ Cardinality(l.attempted \ old)
             = Cardinality(l.attempted) - Cardinality(l.attempted \cap old)
    BY <1>4, FS_Difference
  <2> QED
    BY <1>5, <1>6, <2>1
<1>9. \A c \in Flying(m) : c \in Flying(l) /\ m.node[c].address \in m.attempted
  BY <1>2, <1>4, <1>7
<1>10. \A c, d \in Flying(m) : m.node[c].address = m.node[d].address => c = d
  BY <1>2, <1>4, <1>9
<1>11. Noted(m)
  BY <1>2, <1>4, <1>8, <1>9, <1>10 DEF Noted
<1> QED
  BY <1>1, <1>2, <1>11 DEF Orderly, m

(* A set that is small enough is kept whole.                               *)
LEMMA AllAreNear ==
    ASSUME NEW S \in SUBSET Candidates, NEW n \in Nat, Cardinality(S) <= n
    PROVE  Nearest(S, n) = S
<1>1. S \subseteq Nat /\ IsFiniteSet(S) /\ Cardinality(S) \in Nat
  BY CandidateAssumption, FS_Subset, FS_CardinalityType
<1>2. ASSUME NEW c \in S PROVE Cardinality({d \in S : d < c}) < n
  <2> DEFINE R == {d \in S : d < c}
  <2>1. R \subseteq S /\ c \notin R
    BY <1>1
  <2> HIDE DEF R
  <2>2. R \subseteq S \ {c}
    BY <2>1
  <2>3. IsFiniteSet(S \ {c}) /\ Cardinality(S \ {c}) = Cardinality(S) - 1
    BY <1>1, FS_RemoveElement
  <2>4. IsFiniteSet(R) /\ Cardinality(R) <= Cardinality(S \ {c})
    BY <2>2, <2>3, FS_Subset
  <2>5. Cardinality(R) \in Nat
    BY <2>4, FS_CardinalityType
  <2> QED
    BY <1>1, <2>3, <2>4, <2>5 DEF R
<1> QED
  BY <1>2 DEF Nearest

(* When those that were tried are few enough all of them are kept, and no  *)
(* more than there is room for.                                            *)
LEMMA TriedAreKept ==
    ASSUME NEW E \in SUBSET Candidates, NEW st \in [E -> CandidateState],
           Cardinality({c \in E : st[c] # "unqueried"}) <= max_candidates
    PROVE  /\ Keep(st) \subseteq E /\ Cardinality(Keep(st)) <= max_candidates
           /\ {c \in E : st[c] # "unqueried"} \subseteq Keep(st)
<1> DEFINE U == {c \in E : st[c] = "unqueried"}
           T == {c \in E : st[c] # "unqueried"}
           rest == Nearest(U, Minus(max_candidates, Cardinality(T)))
<1>1. max_candidates \in Nat /\ T \in SUBSET Candidates /\ U \in SUBSET Candidates
  BY CandidateAssumption
<1>2. IsFiniteSet(T) /\ Cardinality(T) \in Nat
  BY <1>1, CandidateAssumption, FS_Subset, FS_CardinalityType
<1>3. E \ U = T /\ DOMAIN st = E /\ T \subseteq E /\ U \subseteq E
  OBVIOUS
<1>4. Keep(st) = Nearest(T, max_candidates) \cup rest
  BY <1>3 DEF Keep
<1>5. Cardinality(T) <= max_candidates
  OBVIOUS
<1> HIDE DEF T, U
<1>6. Minus(max_candidates, Cardinality(T)) = max_candidates - Cardinality(T)
  BY <1>1, <1>2, <1>5 DEF Minus
<1>7. max_candidates - Cardinality(T) \in Nat
  BY <1>1, <1>2, <1>5
<1>8. /\ rest \subseteq U /\ IsFiniteSet(rest)
      /\ Cardinality(rest) <= max_candidates - Cardinality(T)
  BY <1>1, <1>6, <1>7, NearestAreFew
<1>9. Nearest(T, max_candidates) = T
  BY <1>1, <1>5, AllAreNear
<1> HIDE DEF rest
<1>10. Cardinality(T \cup rest) <= max_candidates
  <2>1. Cardinality(T \cup rest)
          = Cardinality(T) + Cardinality(rest) - Cardinality(T \cap rest)
    BY <1>2, <1>8, FS_Union
  <2>2. IsFiniteSet(T \cap rest)
    BY <1>2, FS_Intersection
  <2>3. Cardinality(T \cap rest) \in Nat /\ Cardinality(rest) \in Nat
    BY <1>8, <2>2, FS_CardinalityType
  <2> QED
    BY <1>1, <1>2, <1>8, <2>1, <2>3
<1> QED
  BY <1>3, <1>4, <1>8, <1>9, <1>10 DEF T

(* The books of the dispatcher and the lookup.  Without a lookup there are *)
(* no candidates at all.                                                   *)
MaintenanceInv ==
    /\ Now \in Lookups /\ Orderly(Now) /\ Flying(Now) = outstanding
    /\ kind = "none" => outstanding = {}

LEMMA NowIs ==
    ASSUME NEW l \in Lookups, Becomes(l) PROVE Now' = l
BY DEF Becomes, Now, Lookups

LEMMA FreshIsSound ==
    ASSUME NEW S \in SUBSET Candidates, NEW nodes \in [S -> LookupContact],
           Cardinality(S) <= max_candidates
    PROVE  FreshLookup(nodes) \in Lookups /\ Orderly(FreshLookup(nodes))
           /\ Flying(FreshLookup(nodes)) = {}
<1> DEFINE f == [c \in S |-> "unqueried"]
           m == FreshLookup(nodes)
<1>1. f \in [S -> CandidateState] /\ DOMAIN f = S /\ \A c \in S : f[c] = "unqueried"
  BY DEF CandidateState
<1>2. m = Made(f, nodes, {}, 0, 0, 0)
  BY DEF FreshLookup, Made
<1> HIDE DEF f, m
<1>3. m \in Lookups
  <2>1. {} \in SUBSET Places /\ 0 \in Nat /\ 0 \in Int
    OBVIOUS
  <2>2. Made(f, nodes, {}, 0, 0, 0) \in Lookups
    BY <1>1, <2>1, LookupMade
  <2> QED
    BY <1>2, <2>2
<1>4. /\ m.states = f /\ m.in_flight = 0 /\ m.node = nodes
      /\ m.started = 0 /\ m.attempted = {}
  BY <1>2 DEF Made
<1>5. Flying(m) = {}
  BY <1>1, <1>4 DEF Flying, InState
<1>6. Cardinality({}) = 0 /\ IsFiniteSet({})
  BY FS_EmptySet
<1>7. Counted(m)
  BY <1>1, <1>4, <1>5, <1>6, CandidateAssumption DEF Counted
<1>8. Noted(m)
  BY <1>4, <1>5, <1>6 DEF Noted
<1> QED
  BY <1>1, <1>3, <1>4, <1>5, <1>7, <1>8 DEF m, Orderly

LEMMA NothingIsSound ==
    /\ FreshLookup(NoCandidates) \in Lookups /\ Orderly(FreshLookup(NoCandidates))
    /\ Flying(FreshLookup(NoCandidates)) = {}
<1>1. {} \in SUBSET Candidates /\ NoCandidates \in [{} -> LookupContact]
  BY DEF NoCandidates
<1>2. Cardinality({}) <= max_candidates
  BY FS_EmptySet, CandidateAssumption
<1> QED
  BY <1>1, <1>2, FreshIsSound

(* New candidates are not in flight, and those in flight stay where they   *)
(* are.                                                                    *)
LEMMA ExtendedIsSound ==
    ASSUME NEW l \in Lookups, Orderly(l), NEW discovered \in SUBSET Candidates, NEW said \in Claims
    PROVE  /\ Extended(l, discovered, said) \in Lookups /\ Orderly(Extended(l, discovered, said))
           /\ Flying(Extended(l, discovered, said)) = Flying(l)
<1> DEFINE D == DOMAIN l.states
           E == D \cup discovered
           J == Joined(l, discovered)
           K == Keep(J)
           old == D \ Corrected(l, discovered, said)
           f == [c \in K |-> J[c]]
           g == [c \in K |-> IF c \in old THEN l.node[c] ELSE said[c]]
           m == Extended(l, discovered, said)
<1>1. Counted(l) /\ Noted(l) /\ Cardinality(D) <= max_candidates
  BY DEF Orderly
<1>2. /\ D \subseteq Candidates /\ l.states \in [D -> CandidateState] /\ IsFiniteSet(D)
      /\ l.node \in [D -> LookupContact]
  BY <1>1, FlyingIsFinite DEF Counted
<1>3. /\ l.in_flight \in Nat /\ l.started \in Int /\ l.responses \in Int
      /\ l.attempted \in SUBSET Places
  BY DEF Lookups
<1>4. /\ J \in [E -> CandidateState] /\ DOMAIN J = E
      /\ \A c \in E : J[c] = IF c \in D THEN l.states[c] ELSE "unqueried"
  BY <1>2 DEF Joined, CandidateState
<1>5. E \in SUBSET Candidates
  BY <1>2
<1>6. m = [l EXCEPT !.states = f, !.node = g]
  BY DEF Extended
<1>7. m = Made(f, g, l.attempted, l.in_flight, l.started, l.responses)
  <2> HIDE DEF m, f, g
  <2> QED
    BY <1>6 DEF Lookups, Made
<1>8. Flying(l) = {c \in D : l.states[c] = "in_flight"}
  BY DEF Flying, InState
<1>9. \A c \in Flying(l) : c \in old
  BY <1>8 DEF Corrected
<1>10. old \subseteq D /\ D \subseteq E
  OBVIOUS
<1>11. said \in [Candidates -> LookupContact] /\ max_candidates \in Nat
  BY CandidateAssumption
<1> HIDE DEF m, J, D, E, old
<1>12. /\ K \subseteq E /\ Cardinality(K) <= max_candidates
       /\ {c \in E : J[c] # "unqueried"} \subseteq K
  <2> DEFINE T == {c \in E : J[c] # "unqueried"}
  <2>1. T \subseteq D
    BY <1>4
  <2> HIDE DEF T
  <2>2. IsFiniteSet(T) /\ Cardinality(T) <= Cardinality(D)
    BY <1>2, <2>1, FS_Subset
  <2>3. Cardinality(T) \in Nat /\ Cardinality(D) \in Nat
    BY <1>2, <2>2, FS_CardinalityType
  <2>4. Cardinality(T) <= max_candidates
    BY <1>1, <1>11, <2>2, <2>3
  <2> QED
    BY <1>4, <1>5, <2>4, TriedAreKept DEF T
<1> HIDE DEF K
<1>13. f \in [K -> CandidateState] /\ DOMAIN f = K /\ \A c \in K : f[c] = J[c]
  BY <1>4, <1>12
<1>14. g \in [K -> LookupContact] /\ DOMAIN g = K /\ \A c \in K \cap old : g[c] = l.node[c]
  BY <1>2, <1>5, <1>10, <1>11, <1>12
<1>15. K \in SUBSET Candidates
  BY <1>5, <1>12
<1> HIDE DEF f, g
<1>16. /\ m \in Lookups /\ m.states = f /\ m.node = g /\ m.attempted = l.attempted
       /\ m.in_flight = l.in_flight /\ m.started = l.started
  <2>1. Made(f, g, l.attempted, l.in_flight, l.started, l.responses) \in Lookups
    BY <1>3, <1>13, <1>14, <1>15, LookupMade
  <2> QED
    BY <1>7, <2>1 DEF Made
<1>17. Flying(m) = {c \in K : J[c] = "in_flight"}
  BY <1>13, <1>16 DEF Flying, InState
<1>18. Flying(m) = Flying(l)
  BY <1>4, <1>8, <1>10, <1>12, <1>17
<1>19. Counted(m)
  BY <1>1, <1>13, <1>14, <1>16, <1>18 DEF Counted
<1>20. \A c \in Flying(m) : m.node[c] = l.node[c]
  BY <1>9, <1>14, <1>16, <1>17, <1>18
<1>21. Noted(m)
  BY <1>1, <1>16, <1>18, <1>20 DEF Noted
<1> QED
  BY <1>12, <1>13, <1>16, <1>18, <1>19, <1>21 DEF m, Orderly

LEMMA LookupIsOver ==
    ASSUME NEW l \in Lookups, Orderly(l), is_complete(l), Finish(l), outstanding' = Flying(l)
    PROVE  MaintenanceInv'
<1>1. Flying(l) = {}
  <2>1. IsFiniteSet(Flying(l)) /\ Cardinality(Flying(l)) = 0
    BY FlyingIsFinite DEF Orderly, Counted, is_complete
  <2> QED
    BY <2>1, FS_EmptySet
<1>2. Now' = FreshLookup(NoCandidates)
  BY NothingIsSound, NowIs DEF Finish
<1> QED
  BY <1>1, <1>2, NothingIsSound DEF MaintenanceInv

LEMMA TakeNextKeepsInv ==
    ASSUME MaintenanceInv, NEW capacity \in 0 .. lookup_parallelism,
           NEW rejected \in SUBSET Asked(Now, capacity),
           NEW refused \in SUBSET (Asked(Now, capacity) \ rejected),
           TakeNext(capacity, rejected, refused)
    PROVE  MaintenanceInv'
<1> DEFINE taken == Asked(Now, capacity)
           asked == take_next(Now, capacity)
           ended == finish_candidate(asked, rejected, FALSE)
           l == defer(ended, refused)
<1>1. Now \in Lookups /\ Orderly(Now) /\ Flying(Now) = outstanding /\ capacity \in Nat
  BY CandidateAssumption DEF MaintenanceInv
<1>2. /\ asked \in Lookups /\ Orderly(asked) /\ Flying(asked) = Flying(Now) \cup taken
      /\ taken \cap Flying(Now) = {}
  BY <1>1, TakeNextIsSound
<1>3. /\ kind # "none" /\ outstanding' = outstanding \cup (taken \ (rejected \cup refused))
      /\ IF is_complete(l) THEN Finish(l) ELSE Becomes(l) /\ UNCHANGED <<kind, schedule>>
  BY DEF TakeNext
<1> HIDE DEF asked, taken
<1>4. ended \in Lookups /\ Orderly(ended) /\ Flying(ended) = Flying(asked) \ rejected
  BY <1>2, FinishIsSound
<1> HIDE DEF ended
<1>5. l \in Lookups /\ Orderly(l) /\ Flying(l) = Flying(ended) \ refused
  BY <1>4, DeferIsSound
<1> HIDE DEF l
<1>6. rejected \subseteq taken /\ refused \subseteq taken
  BY DEF taken
<1>7. outstanding' = Flying(l)
  BY <1>1, <1>2, <1>3, <1>4, <1>5, <1>6
<1>8. CASE is_complete(l)
  BY <1>3, <1>5, <1>7, <1>8, LookupIsOver
<1>9. CASE ~is_complete(l)
  <2>1. Now' = l
    BY <1>3, <1>5, <1>9, NowIs
  <2>2. kind' = kind
    BY <1>3, <1>9
  <2> QED
    BY <1>3, <1>5, <1>7, <2>1, <2>2 DEF MaintenanceInv
<1> QED
  BY <1>8, <1>9

LEMMA MaintenanceStep ==
    ASSUME MaintenanceInv, [LookupNext]_maintenanceVars PROVE MaintenanceInv'
<1>1. Now \in Lookups /\ Orderly(Now) /\ Flying(Now) = outstanding
  BY DEF MaintenanceInv
<1>2. ASSUME UNCHANGED lookup, outstanding' = outstanding PROVE MaintenanceInv'
  <2>1. Now' = Now /\ kind' = kind
    BY <1>2 DEF lookup, Now
  <2> QED
    BY <1>2, <2>1 DEF MaintenanceInv
<1>3. ASSUME NEW seeds \in SUBSET Candidates, NEW said \in Claims, BeginIfDue(seeds, said)
      PROVE  MaintenanceInv'
  <2>1. CASE seeds = {}
    BY <1>2, <1>3, <2>1 DEF BeginIfDue
  <2>2. CASE seeds # {}
    <3> DEFINE nodes == [c \in seeds |-> [said[c] EXCEPT !.verified = TRUE]]
    <3>1. /\ kind = "none" /\ kind' # "none" /\ Becomes(FreshLookup(nodes))
          /\ outstanding' = outstanding /\ Cardinality(seeds) <= max_candidates
      BY <1>3, <2>2 DEF BeginIfDue
    <3>2. nodes \in [seeds -> LookupContact]
      <4>1. said \in [Candidates -> LookupContact]
        BY CandidateAssumption
      <4> QED
        BY <4>1 DEF LookupContact
    <3> HIDE DEF nodes
    <3>3. /\ FreshLookup(nodes) \in Lookups /\ Orderly(FreshLookup(nodes))
          /\ Flying(FreshLookup(nodes)) = {}
      BY <3>1, <3>2, FreshIsSound
    <3>4. Now' = FreshLookup(nodes)
      BY <3>1, <3>3, NowIs
    <3> QED
      BY <3>1, <3>3, <3>4 DEF MaintenanceInv
  <2> QED
    BY <2>1, <2>2
<1>4. CASE Idle
  BY <1>2, <1>4 DEF Idle
<1>5. CASE FinishIfComplete
  <2>1. is_complete(Now) /\ Finish(Now) /\ outstanding' = outstanding
    BY <1>5 DEF FinishIfComplete
  <2> QED
    BY <1>1, <2>1, LookupIsOver
<1>6. ASSUME NEW c \in Candidates, NEW trusted \in BOOLEAN, NEW found \in SUBSET Candidates,
             NEW said \in Claims, Answered(c, trusted, found, said)
      PROVE  MaintenanceInv'
  <2> DEFINE l == finish_candidate(Now, {c}, trusted)
             m == Extended(l, found, said)
  <2>1. l \in Lookups /\ Orderly(l) /\ Flying(l) = Flying(Now) \ {c}
    BY <1>1, FinishIsSound
  <2>2. /\ c \in outstanding /\ outstanding' = outstanding \ {c} /\ kind' = kind /\ Becomes(m)
    BY <1>6 DEF Answered
  <2> HIDE DEF l
  <2>3. m \in Lookups /\ Orderly(m) /\ Flying(m) = Flying(l)
    BY <2>1, ExtendedIsSound
  <2> HIDE DEF m
  <2>4. Now' = m
    BY <2>2, <2>3, NowIs
  <2> QED
    BY <1>1, <2>1, <2>2, <2>3, <2>4 DEF MaintenanceInv
<1>7. ASSUME NEW c \in Candidates, QueryFailed(c) PROVE MaintenanceInv'
  <2> DEFINE l == finish_candidate(Now, {c}, FALSE)
  <2>1. l \in Lookups /\ Orderly(l) /\ Flying(l) = Flying(Now) \ {c}
    BY <1>1, FinishIsSound
  <2>2. /\ c \in outstanding /\ outstanding' = outstanding \ {c} /\ kind' = kind /\ Becomes(l)
    BY <1>7 DEF QueryFailed
  <2> HIDE DEF l
  <2>3. Now' = l
    BY <2>1, <2>2, NowIs
  <2> QED
    BY <1>1, <2>1, <2>2, <2>3 DEF MaintenanceInv
<1>8. ASSUME NEW c \in Candidates, Unsent(c) PROVE MaintenanceInv'
  <2> DEFINE l == defer(Now, {c})
  <2>1. l \in Lookups /\ Orderly(l) /\ Flying(l) = Flying(Now) \ {c}
    BY <1>1, DeferIsSound
  <2>2. /\ c \in outstanding /\ outstanding' = outstanding \ {c} /\ kind' = kind /\ Becomes(l)
    BY <1>8 DEF Unsent
  <2> HIDE DEF l
  <2>3. Now' = l
    BY <2>1, <2>2, NowIs
  <2> QED
    BY <1>1, <2>1, <2>2, <2>3 DEF MaintenanceInv
<1>9. CASE Due \/ OtherEvent
  BY <1>2, <1>9 DEF Due, OtherEvent
<1>10. CASE IdentityChanges
  <2>1. Now' = FreshLookup(NoCandidates) /\ outstanding' = {}
    BY <1>10, NothingIsSound, NowIs DEF IdentityChanges
  <2> QED
    BY <2>1, NothingIsSound DEF MaintenanceInv
<1>11. CASE UNCHANGED maintenanceVars
  BY <1>2, <1>11 DEF maintenanceVars
<1>12. CASE Advance
  BY <1>3, <1>4, <1>5, <1>12, TakeNextKeepsInv DEF Advance
<1> QED
  BY <1>6, <1>7, <1>8, <1>9, <1>10, <1>11, <1>12 DEF LookupNext, QueryEnds

(* For any candidates, claims about their addresses and limits, the        *)
(* maintenance lookup (IterativeLookup) counts exactly the queries that    *)
(* have yet to end and asks no address twice, whatever is rejected,        *)
(* deferred, answered, cut off by complete_success or dropped with the     *)
(* identity: no count is left over that would keep a lookup from ending.   *)
THEOREM LookupsStayCounted == LookupSpec => [](QueriesAreCounted /\ NoAddressTwice)
<1>1. LookupInit => MaintenanceInv
  <2> SUFFICES ASSUME LookupInit PROVE MaintenanceInv
    OBVIOUS
  <2>1. Now = FreshLookup(NoCandidates) /\ outstanding = {}
    BY DEF LookupInit, Now, FreshLookup, NoCandidates
  <2> QED
    BY <2>1, NothingIsSound DEF MaintenanceInv
<1>2. MaintenanceInv => QueriesAreCounted /\ NoAddressTwice
  <2>1. Now.in_flight = in_flight /\ Now.started = queries_started /\ Now.attempted = attempted
    BY DEF Now
  <2> QED
    BY <2>1 DEF MaintenanceInv, Orderly, Counted, Noted, Flying, QueriesAreCounted, NoAddressTwice
<1> QED
  BY <1>1, <1>2, MaintenanceStep, PTL DEF LookupSpec
=============================================================================
