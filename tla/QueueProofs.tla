------------------------- MODULE QueueProofs ----------------------------
(***************************************************************************)
(* What is proved about everything that stands in a line: the commands of  *)
(* the storage thread for any number of callers, payloads and capacities,  *)
(* the sampled batches for any sizes and segments, and the connections of  *)
(* any number of attempts to any IPs.  Each proof places every member in   *)
(* exactly one line or hand.                                               *)
(***************************************************************************)
EXTENDS StorageQueue, SampleIngest, TcpLimits, FiniteSetTheorems, SequenceTheorems, WellFoundedInduction, TLAPS

-----------------------------------------------------------------------------
(* Lines of waiters: the sequences that the model appends to, takes the    *)
(* head of and removes a member from.                                      *)

(* Who stands in a line.                                                   *)
LEMMA Member == \A s, x : x \in ToSet(s) <=> \E i \in DOMAIN s : s[i] = x
  BY DEF ToSet

(* Joining a line at its end.                                              *)
LEMMA Joined ==
    ASSUME NEW T, NEW s \in Seq(T), NEW e \in T
    PROVE  /\ Append(s, e) \in Seq(T)
           /\ ToSet(Append(s, e)) = ToSet(s) \cup {e}
           /\ IsInjective(s) /\ e \notin ToSet(s) => IsInjective(Append(s, e))
<1>1. /\ Append(s, e) \in Seq(T) /\ Len(Append(s, e)) = Len(s) + 1 /\ Len(s) \in Nat
      /\ \A i \in 1..Len(s) : Append(s, e)[i] = s[i]
      /\ Append(s, e)[Len(s) + 1] = e
      /\ DOMAIN s = 1..Len(s) /\ DOMAIN Append(s, e) = 1..(Len(s) + 1)
  BY AppendProperties, LenProperties
<1> QED
  BY <1>1 DEF ToSet, IsInjective

(* Leaving a line at its head.                                             *)
LEMMA Served ==
    ASSUME NEW T, NEW s \in Seq(T), s # <<>>, IsInjective(s)
    PROVE  /\ Tail(s) \in Seq(T) /\ Head(s) \in T /\ Head(s) = s[1]
           /\ Head(s) \in ToSet(s)
           /\ ToSet(Tail(s)) = ToSet(s) \ {Head(s)}
           /\ IsInjective(Tail(s))
           /\ Len(s) \in Nat /\ DOMAIN s = 1..Len(s) /\ DOMAIN Tail(s) = 1..(Len(s) - 1)
           /\ \A i \in 1..(Len(s) - 1) : Tail(s)[i] = s[i + 1]
<1>1. /\ Tail(s) \in Seq(T) /\ Head(s) \in T /\ Len(s) \in Nat
      /\ Len(Tail(s)) = Len(s) - 1
      /\ \A i \in 1..(Len(s) - 1) : Tail(s)[i] = s[i + 1]
      /\ DOMAIN s = 1..Len(s) /\ DOMAIN Tail(s) = 1..(Len(s) - 1)
      /\ Len(s) > 0
  BY HeadTailProperties, LenProperties, EmptySeq
<1>2. Head(s) = s[1]
  OBVIOUS
<1>3. \A j \in 1..Len(s) : j # 1 => j - 1 \in 1..(Len(s) - 1) /\ s[j] = Tail(s)[j - 1]
  BY <1>1
<1>4. ToSet(Tail(s)) = ToSet(s) \ {Head(s)}
  <2>1. \A i \in 1..(Len(s) - 1) : Tail(s)[i] # s[1] /\ i + 1 \in 1..Len(s)
    BY <1>1 DEF IsInjective
  <2>2. ToSet(Tail(s)) \subseteq ToSet(s) \ {s[1]}
    BY <1>1, <2>1 DEF ToSet
  <2>3. ToSet(s) \ {s[1]} \subseteq ToSet(Tail(s))
    <3> SUFFICES ASSUME NEW j \in 1..Len(s), s[j] # s[1] PROVE s[j] \in ToSet(Tail(s))
      BY <1>1, Member
    <3>1. j - 1 \in DOMAIN Tail(s) /\ s[j] = Tail(s)[j - 1]
      BY <1>1, <1>3
    <3> QED
      BY <3>1, Member
  <2> QED
    BY <1>2, <2>2, <2>3
<1>5. IsInjective(Tail(s))
  BY <1>1 DEF IsInjective
<1>6. Head(s) \in ToSet(s)
  <2>1. 1 \in DOMAIN s
    BY <1>1
  <2> QED
    BY <1>2, <2>1, Member
<1> QED
  BY <1>1, <1>2, <1>4, <1>5, <1>6

(* Taking the member at a place out of a line.                             *)
LEMMA TakenOut ==
    ASSUME NEW T, NEW s \in Seq(T), IsInjective(s), NEW i \in 1..Len(s)
    PROVE  /\ RemoveAt(s, i) \in Seq(T)
           /\ ToSet(RemoveAt(s, i)) = ToSet(s) \ {s[i]}
           /\ IsInjective(RemoveAt(s, i))
<1> DEFINE a == SubSeq(s, 1, i - 1)
           b == SubSeq(s, i + 1, Len(s))
           t == RemoveAt(s, i)
           n == Len(s)
<1>1. n \in Nat /\ DOMAIN s = 1..n /\ \A j \in 1..n : s[j] \in T
  BY LenProperties, ElementOfSeq
<1>2. /\ a \in Seq(T) /\ Len(a) = i - 1
      /\ \A j \in 1..(i - 1) : a[j] = s[j]
  <2>1. \A j \in 1..(i - 1) : s[j] \in T
    BY <1>1
  <2> HIDE DEF n
  <2>2. /\ a \in Seq(T) /\ Len(a) = IF 1 <= i - 1 THEN (i - 1) - 1 + 1 ELSE 0
        /\ \A j \in 1..((i - 1) - 1 + 1) : a[j] = s[1 + j - 1]
    BY <2>1, <1>1, SubSeqProperties DEF n
  <2> QED
    BY <1>1, <2>2 DEF n
<1>3. /\ b \in Seq(T) /\ Len(b) = n - i
      /\ \A j \in 1..(n - i) : b[j] = s[i + j]
  <2>1. \A j \in (i + 1)..n : s[j] \in T
    BY <1>1
  <2>2. /\ b \in Seq(T) /\ Len(b) = IF i + 1 <= n THEN n - (i + 1) + 1 ELSE 0
        /\ \A j \in 1..(n - (i + 1) + 1) : b[j] = s[(i + 1) + j - 1]
    BY <2>1, <1>1, SubSeqProperties
  <2>3. n - (i + 1) + 1 = n - i /\ (i + 1 <= n <=> n - i >= 1) /\ n - i \in Nat
    BY <1>1
  <2>4. \A j \in 1..(n - i) : (i + 1) + j - 1 = i + j
    BY <1>1
  <2> HIDE DEF n, b
  <2> QED
    BY <2>2, <2>3, <2>4
<1> HIDE DEF a, b
<1>4. t = a \o b
  BY DEF RemoveAt, a, b
<1>5. /\ t \in Seq(T) /\ Len(t) = n - 1
      /\ \A j \in 1..(n - 1) : t[j] = IF j <= i - 1 THEN a[j] ELSE b[j - (i - 1)]
  <2>1. /\ a \o b \in Seq(T) /\ Len(a \o b) = Len(a) + Len(b)
        /\ \A j \in 1..(Len(a) + Len(b)) : (a \o b)[j] = IF j <= Len(a) THEN a[j] ELSE b[j - Len(a)]
    BY <1>2, <1>3, ConcatProperties
  <2> HIDE DEF t
  <2> QED
    BY <1>1, <1>2, <1>3, <1>4, <2>1
<1> HIDE DEF t
<1>6. \A j \in 1..(n - 1) : t[j] = IF j < i THEN s[j] ELSE s[j + 1]
  <2> SUFFICES ASSUME NEW j \in 1..(n - 1) PROVE t[j] = IF j < i THEN s[j] ELSE s[j + 1]
    OBVIOUS
  <2>1. CASE j < i
    BY <1>1, <1>2, <1>5, <2>1
  <2>2. CASE ~(j < i)
    <3>1. j - (i - 1) \in 1..(n - i) /\ i + (j - (i - 1)) = j + 1
      BY <1>1, <2>2
    <3> QED
      BY <1>1, <1>3, <1>5, <2>2, <3>1
  <2> QED
    BY <2>1, <2>2
<1>7. DOMAIN t = 1..(n - 1)
  BY <1>5, LenProperties
<1>8. ToSet(t) \subseteq ToSet(s) \ {s[i]}
  BY <1>1, <1>6, <1>7 DEF ToSet, IsInjective
<1>9. ToSet(s) \ {s[i]} \subseteq ToSet(t)
  <2>1. \A j \in 1..n : j < i => j \in 1..(n - 1) /\ t[j] = s[j]
    BY <1>1, <1>6
  <2>2. \A j \in 1..n : j > i => j - 1 \in 1..(n - 1) /\ t[j - 1] = s[j]
    BY <1>1, <1>6
  <2>3. \A j \in 1..n : j = i \/ j < i \/ j > i
    BY <1>1
  <2> QED
    BY <1>1, <1>7, <2>1, <2>2, <2>3 DEF ToSet
<1>10. IsInjective(t)
  BY <1>1, <1>6, <1>7 DEF IsInjective
<1> QED
  BY <1>5, <1>8, <1>9, <1>10 DEF t

(* Giving up one's place, wherever it is.                                  *)
LEMMA Left ==
    ASSUME NEW T, NEW s \in Seq(T), IsInjective(s), NEW e
    PROVE  /\ RemoveFirst(s, e) \in Seq(T)
           /\ ToSet(RemoveFirst(s, e)) = ToSet(s) \ {e}
           /\ IsInjective(RemoveFirst(s, e))
<1>1. Len(s) \in Nat /\ DOMAIN s = 1..Len(s)
  BY LenProperties
<1>2. CASE \E i \in 1..Len(s) : s[i] = e
  <2>1. PICK i \in 1..Len(s) : s[i] = e
    BY <1>2
  <2> DEFINE I == {j \in 1..Len(s) : s[j] = e}
  <2>2. I = {i}
    BY <1>1, <2>1 DEF IsInjective
  <2>3. Min(I) = i
    BY <2>2 DEF Min
  <2>4. RemoveFirst(s, e) = RemoveAt(s, i)
    BY <1>2, <2>2, <2>3 DEF RemoveFirst, SelectInSeq
  <2> QED
    BY <2>1, <2>4, TakenOut
<1>3. CASE ~\E i \in 1..Len(s) : s[i] = e
  <2>1. RemoveFirst(s, e) = s
    BY <1>3 DEF RemoveFirst
  <2> QED
    BY <1>1, <1>3, <2>1 DEF ToSet
<1> QED
  BY <1>2, <1>3

(* An empty line.                                                          *)
LEMMA Nobody == ToSet(<<>>) = {} /\ IsInjective(<<>>) /\ \A T : <<>> \in Seq(T)
  BY DEF ToSet, IsInjective

-----------------------------------------------------------------------------
(* Sums of payloads.  SizeOf folds over a set in an order it chooses; the  *)
(* result is the number of units <<x, i>> with 1 <= i <= Size(x), which    *)
(* does not depend on the order.                                           *)

Everyone == Callers \cup {"owner"}
Units(S) == {u \in S \X Nat : u[2] \in 1..Size(u[1])}
OneOf(s) == CHOOSE x \in s : TRUE

(* The payload of a caller is a natural number, that of the owner is zero. *)
LEMMA Sizes == /\ IsFiniteSet(Everyone)
               /\ \A x \in Everyone : Size(x) \in Nat
               /\ \A c \in Callers : Size(c) = Bytes[c]
               /\ Size("owner") = 0
<1>1. IsFiniteSet(Everyone)
  BY CallerAssumption, FS_AddElement DEF Everyone
<1> QED
  BY <1>1, CallerAssumption DEF Everyone, Size

(* The units of one member.                                                *)
LEMMA UnitsOfOne ==
    ASSUME NEW x \in Everyone
    PROVE  IsFiniteSet(Units({x})) /\ Cardinality(Units({x})) = Size(x)
<1>1. Size(x) \in Nat
  BY Sizes
<1>2. Units({x}) = {x} \X (1..Size(x))
  BY <1>1 DEF Units
<1>3. IsFiniteSet({x}) /\ Cardinality({x}) = 1
  BY FS_Singleton, Zenon
<1>4. IsFiniteSet(1..Size(x)) /\ Cardinality(1..Size(x)) = Size(x)
  BY <1>1, FS_Interval
<1>5. /\ IsFiniteSet({x} \X (1..Size(x)))
      /\ Cardinality({x} \X (1..Size(x))) = Cardinality({x}) * Cardinality(1..Size(x))
  BY <1>3, <1>4, FS_Product
<1>6. 1 * Size(x) = Size(x)
  BY <1>1
<1>7. Cardinality({x} \X (1..Size(x))) = Size(x)
  BY <1>3, <1>4, <1>5, <1>6, Zenon
<1> QED
  BY <1>2, <1>5, <1>7, Zenon

(* A finite set has finitely many units.                                   *)
LEMMA UnitsFinite ==
    ASSUME NEW S \in SUBSET Everyone
    PROVE  IsFiniteSet(Units(S)) /\ Cardinality(Units(S)) \in Nat
<1> DEFINE f == [x \in S |-> Units({x})]
           T == {Units({x}) : x \in S}
<1>1. IsFiniteSet(S)
  BY Sizes, FS_Subset
<1>2. f \in Surjection(S, T)
  BY DEF Surjection
<1>3. \A t \in T : IsFiniteSet(t)
  BY UnitsOfOne
<1>4. Units(S) = UNION T
  BY DEF Units
<1> HIDE DEF f, T
<1>5. IsFiniteSet(T)
  BY <1>1, <1>2, FS_Surjection
<1> QED
  BY <1>3, <1>4, <1>5, FS_UNION, FS_CardinalityType

(* The units of two disjoint sets add up.                                  *)
LEMMA UnitsAdd ==
    ASSUME NEW S \in SUBSET Everyone, NEW T \in SUBSET Everyone, S \cap T = {}
    PROVE  Cardinality(Units(S \cup T)) = Cardinality(Units(S)) + Cardinality(Units(T))
<1>1. Units(S \cup T) = Units(S) \cup Units(T) /\ Units(S) \cap Units(T) = {}
  BY DEF Units
<1>2. /\ IsFiniteSet(Units(S)) /\ Cardinality(Units(S)) \in Nat
      /\ IsFiniteSet(Units(T)) /\ Cardinality(Units(T)) \in Nat
  BY UnitsFinite
<1>3. Cardinality(Units(S) \cup Units(T)) =
        Cardinality(Units(S)) + Cardinality(Units(T)) - Cardinality(Units(S) \cap Units(T))
  BY <1>2, FS_Union
<1>4. Cardinality(Units(S) \cap Units(T)) = 0
  BY <1>1, FS_EmptySet
<1> DEFINE a == Cardinality(Units(S))
           b == Cardinality(Units(T))
           d == Cardinality(Units(S) \cap Units(T))
<1>5. Cardinality(Units(S \cup T)) = a + b - d
  BY <1>1, <1>3, Zenon
<1>6. a \in Nat /\ b \in Nat /\ d = 0
  BY <1>2, <1>4
<1> HIDE DEF a, b, d
<1>7. a + b - d = a + b
  BY <1>6
<1> QED
  BY <1>5, <1>7, Zenon DEF a, b

(* One step of the fold, said of the units.                                *)
LEMMA UnitsStep ==
    ASSUME NEW s \in SUBSET Everyone
    PROVE  Cardinality(Units(s)) =
             IF s = {} THEN 0 ELSE Size(OneOf(s)) + Cardinality(Units(s \ {OneOf(s)}))
<1>1. CASE s = {}
  <2>1. Units(s) = {}
    BY <1>1 DEF Units
  <2> QED
    BY <1>1, <2>1, FS_EmptySet
<1>2. CASE s # {}
  <2> DEFINE x == OneOf(s)
             r == s \ {OneOf(s)}
  <2>1. x \in s
    BY <1>2 DEF OneOf
  <2>2. s = {x} \cup r /\ {x} \cap r = {} /\ {x} \in SUBSET Everyone /\ r \in SUBSET Everyone
    BY <2>1
  <2> HIDE DEF x, r
  <2>3. Cardinality(Units(s)) = Cardinality(Units({x})) + Cardinality(Units(r))
    BY <2>2, UnitsAdd
  <2>4. Cardinality(Units({x})) = Size(x)
    BY <2>2, UnitsOfOne
  <2> QED
    BY <1>2, <2>3, <2>4 DEF x, r
<1> QED
  BY <1>1, <1>2

(* The fold of a set of payloads is the number of its units: some function *)
(* satisfies the fold's recursion, and no function that does differs from  *)
(* it on a smallest set.                                                   *)
LEMMA SizeIsUnits ==
    ASSUME NEW S \in SUBSET Everyone
    PROVE  SizeOf(S) = Cardinality(Units(S))
<1> DEFINE Folds(f) == f = [s \in SUBSET S |->
                              IF s = {} THEN 0 ELSE Size(OneOf(s)) + f[s \ {OneOf(s)}]]
           g == [s \in SUBSET S |-> Cardinality(Units(s))]
           iter == CHOOSE f : Folds(f)
<1>1. SizeOf(S) = iter[S]
  BY DEF SizeOf, MapThenSumSet, MapThenFoldSet, OneOf
<1>2. Folds(g)
  <2>1. \A s \in SUBSET S : s \ {OneOf(s)} \in SUBSET S
    OBVIOUS
  <2>2. \A s \in SUBSET S : Cardinality(Units(s)) =
          IF s = {} THEN 0 ELSE Size(OneOf(s)) + g[s \ {OneOf(s)}]
    BY <2>1, UnitsStep
  <2> QED
    BY <2>2, Zenon
<1>3. Folds(iter)
  <2> HIDE DEF g, Folds
  <2> QED
    BY <1>2, Zenon
<1>4. \A s \in SUBSET S : iter[s] = IF s = {} THEN 0 ELSE Size(OneOf(s)) + iter[s \ {OneOf(s)}]
  <2> HIDE DEF iter
  <2> QED
    BY <1>3
<1> HIDE DEF g, iter
<1> DEFINE W == {s \in SUBSET S : iter[s] # Cardinality(Units(s))}
<1>5. W = {}
  <2> SUFFICES ASSUME W # {} PROVE FALSE
    OBVIOUS
  <2>1. IsFiniteSet(S) /\ FiniteSubsetsOf(S) = SUBSET S
    BY Sizes, FS_Subset, FS_FiniteSubsetsOfFinite
  <2>2. IsWellFoundedOn(StrictSubsetOrdering(S), SUBSET S)
    BY <2>1, FS_StrictSubsetOrderingWellFounded
  <2>3. PICK s \in W : \A t \in W : ~(<<t, s>> \in StrictSubsetOrdering(S))
    <3>1. W \subseteq SUBSET S
      OBVIOUS
    <3> HIDE DEF W
    <3> QED
      BY <2>2, <3>1, WFMin
  <2>4. s \in SUBSET S /\ iter[s] # Cardinality(Units(s)) /\ s \in SUBSET Everyone
    OBVIOUS
  <2>5. CASE s = {}
    BY <1>4, <2>4, <2>5, UnitsStep
  <2>6. CASE s # {}
    <3> DEFINE r == s \ {OneOf(s)}
    <3>1. OneOf(s) \in s
      BY <2>6 DEF OneOf
    <3>2. r \in SUBSET S /\ <<r, s>> \in StrictSubsetOrdering(S)
      BY <2>4, <3>1 DEF StrictSubsetOrdering
    <3>3. iter[r] = Cardinality(Units(r))
      BY <2>3, <3>2
    <3> HIDE DEF r
    <3>4. iter[s] = Size(OneOf(s)) + iter[r]
      BY <1>4, <2>4, <2>6 DEF r
    <3>5. Cardinality(Units(s)) = Size(OneOf(s)) + Cardinality(Units(r))
      BY <2>4, <2>6, UnitsStep DEF r
    <3> QED
      BY <2>4, <3>3, <3>4, <3>5
  <2> QED
    BY <2>5, <2>6
<1> QED
  BY <1>1, <1>5

(* What the proofs below use of the sums.                                  *)
LEMMA Sums ==
    /\ SizeOf({}) = 0
    /\ \A S \in SUBSET Everyone : SizeOf(S) \in Nat
    /\ \A x \in Everyone : SizeOf({x}) = Size(x)
    /\ \A S, T \in SUBSET Everyone : S \cap T = {} => SizeOf(S \cup T) = SizeOf(S) + SizeOf(T)
<1>1. SizeOf({}) = 0
  <2>1. SizeOf({}) = Cardinality(Units({})) /\ Units({}) = {}
    BY SizeIsUnits DEF Units
  <2> QED
    BY <2>1, FS_EmptySet
<1>2. \A S \in SUBSET Everyone : SizeOf(S) \in Nat
  BY SizeIsUnits, UnitsFinite
<1>3. \A x \in Everyone : SizeOf({x}) = Size(x)
  BY SizeIsUnits, UnitsOfOne
<1>4. ASSUME NEW S \in SUBSET Everyone, NEW T \in SUBSET Everyone, S \cap T = {}
      PROVE  SizeOf(S \cup T) = SizeOf(S) + SizeOf(T)
  <2>1. S \cup T \in SUBSET Everyone
    OBVIOUS
  <2> QED
    BY <1>4, <2>1, SizeIsUnits, UnitsAdd
<1> QED
  BY <1>1, <1>2, <1>3, <1>4

-----------------------------------------------------------------------------
(* The inductive invariant: initially, and then action by action.          *)

(* The facts about the lines that every step below starts from.            *)
LEMMA Lines ==
    ASSUME IndInv
    PROVE  /\ ToSet(budget) \subseteq Callers /\ ToSet(executed) \subseteq Callers
           /\ ToSet(senders) \in SUBSET Everyone /\ ToSet(queue) \in SUBSET Everyone
           /\ ToSet(senders) \cap ToSet(queue) = {}
           /\ "owner" \notin Callers
           /\ permits \in Nat
           /\ permits + SizeOf(ToSet(senders)) + SizeOf(ToSet(queue)) = ByteCapacity
<1>1. ASSUME NEW T, NEW s \in Seq(T) PROVE ToSet(s) \subseteq T
  BY <1>1 DEF ToSet
<1>2. /\ ToSet(budget) \subseteq Callers /\ ToSet(executed) \subseteq Callers
      /\ ToSet(senders) \in SUBSET Everyone /\ ToSet(queue) \in SUBSET Everyone
  BY <1>1 DEF IndInv, TypeOK, Everyone
<1>3. "owner" \notin Callers
  BY CallerAssumption
<1>4. ToSet(senders) \cap ToSet(queue) = {}
  BY <1>2, <1>3 DEF IndInv, CallersStandWhereTheyWait, OwnerStandsBehind, Everyone
<1>5. permits \in Nat /\ permits + SizeOf(ToSet(senders) \cup ToSet(queue)) = ByteCapacity
  BY DEF IndInv, TypeOK, PermitsConserved
<1>6. /\ SizeOf(ToSet(senders) \cup ToSet(queue)) = SizeOf(ToSet(senders)) + SizeOf(ToSet(queue))
      /\ SizeOf(ToSet(senders)) \in Nat /\ SizeOf(ToSet(queue)) \in Nat
  BY <1>2, <1>4, Sums
<1> QED
  BY <1>2, <1>3, <1>4, <1>5, <1>6

(* Adding a member adds its payload, taking it away gives it back.         *)
LEMMA Joining ==
    ASSUME NEW S \in SUBSET Everyone, NEW x \in Everyone \ S
    PROVE  SizeOf(S \cup {x}) = SizeOf(S) + Size(x)
<1>1. {x} \in SUBSET Everyone /\ S \cap {x} = {} /\ SizeOf({x}) = Size(x)
  BY Sums
<1> QED
  BY <1>1, Sums
LEMMA Leaving ==
    ASSUME NEW S \in SUBSET Everyone, NEW x \in S
    PROVE  SizeOf(S) = SizeOf(S \ {x}) + Size(x)
<1>1. S \ {x} \in SUBSET Everyone /\ x \in Everyone \ (S \ {x}) /\ (S \ {x}) \cup {x} = S
  OBVIOUS
<1>2. SizeOf((S \ {x}) \cup {x}) = SizeOf(S \ {x}) + Size(x)
  BY <1>1, Joining
<1> QED
  BY <1>1, <1>2, Zenon

(* The balance of the permits, from what the two lines weigh.              *)
LEMMA Moved ==
    ASSUME IndInv, NEW S \in SUBSET Everyone, NEW Q \in SUBSET Everyone, S \cap Q = {},
           ToSet(senders') = S, ToSet(queue') = Q,
           permits' + (SizeOf(S) + SizeOf(Q)) =
             permits + SizeOf(ToSet(senders)) + SizeOf(ToSet(queue))
    PROVE  PermitsConserved'
<1>1. SizeOf(S \cup Q) = SizeOf(S) + SizeOf(Q)
  BY Sums
<1>2. SizeOf(ToSet(senders') \cup ToSet(queue')) = SizeOf(S) + SizeOf(Q)
  BY <1>1, Zenon
<1>3. permits' + (SizeOf(S) + SizeOf(Q)) = ByteCapacity
  BY Lines, Zenon
<1> QED
  BY <1>2, <1>3, Zenon DEF PermitsConserved

(* A store that is being opened has no callers and all its permits.        *)
LEMMA InitIndInv == Init => IndInv
<1> SUFFICES ASSUME Init PROVE IndInv
  OBVIOUS
<1>1. TypeOK
  BY Nobody, CapacityAssumption DEF Init, TypeOK, Waiting, Ended
<1>2. NobodyStandsTwice
  BY Nobody DEF Init, NobodyStandsTwice
<1>3. CallersStandWhereTheyWait /\ OwnerStandsBehind /\ ThreadLives
  BY Nobody DEF Init, CallersStandWhereTheyWait, OwnerStandsBehind, ThreadLives, opened
<1>4. PermitsConserved
  BY Nobody, Sums, CapacityAssumption DEF Init, PermitsConserved
<1> QED
  BY <1>1, <1>2, <1>3, <1>4 DEF IndInv

(* Opening, closing and confirming move the thread and the owner only.     *)
LEMMA ThreadStep ==
    ASSUME IndInv, OpenDatabase \/ Ready \/ Close \/ Confirm \/ AllHandlesDropped
    PROVE  IndInv'
<1>1. /\ caller' = caller /\ permits' = permits /\ budget' = budget /\ senders' = senders
      /\ queue' = queue /\ executed' = executed /\ ahead' = ahead
  BY DEF OpenDatabase, Ready, Close, Confirm, AllHandlesDropped
<1>2. thread # "serving" => "owner" \notin ToSet(queue)
  BY Nobody DEF IndInv, ThreadLives
<1>3. TypeOK'
  BY <1>1 DEF IndInv, TypeOK, OpenDatabase, Ready, Close, Confirm, AllHandlesDropped
<1>4. NobodyStandsTwice' /\ PermitsConserved'
  BY <1>1 DEF IndInv, NobodyStandsTwice, PermitsConserved
<1>5. CallersStandWhereTheyWait'
  BY <1>1 DEF IndInv, CallersStandWhereTheyWait, ThreadLives, opened,
     OpenDatabase, Ready, Close, Confirm, AllHandlesDropped
<1>6. OwnerStandsBehind'
  BY <1>1, <1>2 DEF IndInv, OwnerStandsBehind, ThreadLives, opened,
     OpenDatabase, Ready, Close, Confirm, AllHandlesDropped
<1>7. ThreadLives'
  BY <1>1 DEF IndInv, TypeOK, ThreadLives, opened,
     OpenDatabase, Ready, Close, Confirm, AllHandlesDropped
<1> QED
  BY <1>3, <1>4, <1>5, <1>6, <1>7 DEF IndInv

(* A call is refused or joins the line for permits.                        *)
LEMMA BeginStep ==
    ASSUME IndInv, NEW c \in Callers, Begin(c)
    PROVE  IndInv'
<1>1. /\ permits' = permits /\ senders' = senders /\ queue' = queue /\ thread' = thread
      /\ lock' = lock /\ owner' = owner /\ executed' = executed /\ ahead' = ahead
      /\ caller[c] = "idle" /\ opened
  BY DEF Begin
<1>2. \/ caller' = [caller EXCEPT ![c] = "capacity"] /\ budget' = budget
      \/ caller' = [caller EXCEPT ![c] = "budget"] /\ budget' = Append(budget, c)
  BY DEF Begin
<1>3. /\ caller \in [Callers -> Waiting \cup Ended] /\ budget \in Seq(Callers)
      /\ c \notin ToSet(budget) /\ IsInjective(budget)
  BY <1>1 DEF IndInv, TypeOK, CallersStandWhereTheyWait, NobodyStandsTwice
<1>4. /\ Append(budget, c) \in Seq(Callers) /\ IsInjective(Append(budget, c))
      /\ ToSet(Append(budget, c)) = ToSet(budget) \cup {c}
  BY <1>3, Joined
<1>5. caller' \in [Callers -> Waiting \cup Ended] /\ budget' \in Seq(Callers)
  BY <1>2, <1>3, <1>4 DEF Waiting, Ended
<1>6. TypeOK'
  BY <1>1, <1>5 DEF IndInv, TypeOK
<1>7. NobodyStandsTwice' /\ PermitsConserved'
  BY <1>1, <1>2, <1>4 DEF IndInv, NobodyStandsTwice, PermitsConserved
<1>8. /\ \A d \in Callers : d # c => caller'[d] = caller[d] /\ (d \in ToSet(budget') <=> d \in ToSet(budget))
      /\ caller'[c] \in {"capacity", "budget"}
      /\ c \in ToSet(budget') <=> caller'[c] = "budget"
  BY <1>2, <1>3, <1>4
<1>9. CallersStandWhereTheyWait'
  BY <1>1, <1>8 DEF IndInv, CallersStandWhereTheyWait, opened
<1>10. OwnerStandsBehind' /\ ThreadLives'
  BY <1>1 DEF IndInv, OwnerStandsBehind, ThreadLives, opened
<1> QED
  BY <1>6, <1>7, <1>9, <1>10 DEF IndInv

(* The first of the line takes its permits and joins the senders.          *)
LEMMA AcquireStep ==
    ASSUME IndInv, Acquire
    PROVE  IndInv'
<1> DEFINE c == Head(budget)
<1>1. /\ queue' = queue /\ thread' = thread /\ lock' = lock /\ owner' = owner
      /\ executed' = executed /\ ahead' = ahead
      /\ budget # <<>> /\ permits >= Bytes[c] /\ permits' = permits - Bytes[c]
      /\ caller' = [caller EXCEPT ![c] = "send"] /\ senders' = Append(senders, c)
      /\ budget' = Tail(budget)
  BY DEF Acquire
<1>2. /\ caller \in [Callers -> Waiting \cup Ended] /\ budget \in Seq(Callers)
      /\ IsInjective(budget) /\ IsInjective(senders) /\ senders \in Seq(Callers \cup {"owner"})
  BY DEF IndInv, TypeOK, NobodyStandsTwice
<1>3. /\ c \in Callers /\ c \in ToSet(budget) /\ Tail(budget) \in Seq(Callers)
      /\ ToSet(Tail(budget)) = ToSet(budget) \ {c} /\ IsInjective(Tail(budget))
  BY <1>1, <1>2, Served
<1> HIDE DEF c
<1>4. /\ caller[c] = "budget" /\ c \notin ToSet(senders) /\ c \notin ToSet(queue)
      /\ c # "owner" /\ opened
  BY <1>3, Lines DEF IndInv, CallersStandWhereTheyWait
<1>5. /\ Append(senders, c) \in Seq(Callers \cup {"owner"}) /\ IsInjective(Append(senders, c))
      /\ ToSet(Append(senders, c)) = ToSet(senders) \cup {c}
  BY <1>2, <1>3, <1>4, Joined
<1>6. /\ caller' \in [Callers -> Waiting \cup Ended] /\ caller'[c] = "send"
      /\ \A d \in Callers : d # c => caller'[d] = caller[d]
  BY <1>1, <1>2, <1>3 DEF Waiting
<1>7. Bytes[c] \in Nat /\ permits \in Nat
  BY <1>3, CallerAssumption, Lines
<1>8. TypeOK'
  BY <1>1, <1>3, <1>5, <1>6, <1>7 DEF IndInv, TypeOK
<1>9. NobodyStandsTwice'
  BY <1>1, <1>3, <1>5 DEF IndInv, NobodyStandsTwice
<1>10. CallersStandWhereTheyWait'
  BY <1>1, <1>3, <1>4, <1>5, <1>6 DEF IndInv, CallersStandWhereTheyWait, opened
<1>11. OwnerStandsBehind' /\ ThreadLives'
  BY <1>1, <1>4, <1>5 DEF IndInv, OwnerStandsBehind, ThreadLives, opened
<1>12. PermitsConserved'
  <2>1. SizeOf(ToSet(senders) \cup {c}) = SizeOf(ToSet(senders)) + Bytes[c]
    BY <1>3, <1>4, Lines, Joining, Sizes DEF Everyone
  <2>2. /\ ToSet(senders') = ToSet(senders) \cup {c} /\ ToSet(queue') = ToSet(queue)
        /\ ToSet(senders) \cup {c} \in SUBSET Everyone
        /\ (ToSet(senders) \cup {c}) \cap ToSet(queue) = {}
    BY <1>1, <1>3, <1>4, <1>5, Lines DEF Everyone
  <2> DEFINE s1 == SizeOf(ToSet(senders) \cup {c})
             s0 == SizeOf(ToSet(senders))
             q0 == SizeOf(ToSet(queue))
  <2>3. s0 \in Nat /\ q0 \in Nat /\ s1 = s0 + Bytes[c] /\ permits' = permits - Bytes[c]
    BY <1>1, <2>1, Lines, Sums
  <2>4. permits' + (s1 + q0) = permits + s0 + q0
    <3> HIDE DEF s1, s0, q0
    <3> QED
      BY <1>7, <2>3
  <2> QED
    BY <2>2, <2>4, Lines, Moved
<1> QED
  BY <1>8, <1>9, <1>10, <1>11, <1>12 DEF IndInv

(* The first sender moves into the queue, with its permits.  When it is    *)
(* the owner, all that is queued is ahead of it.                           *)
LEMMA EnqueueStep ==
    ASSUME IndInv, Enqueue
    PROVE  IndInv'
<1> DEFINE c == Head(senders)
           n == Len(queue)
<1>1. /\ permits' = permits /\ budget' = budget /\ thread' = thread /\ lock' = lock
      /\ executed' = executed
      /\ senders # <<>> /\ senders' = Tail(senders) /\ queue' = Append(queue, c)
      /\ thread = "serving"
  BY DEF Enqueue, ReceiverOpen
<1>2. \/ c = "owner" /\ owner' = "queued" /\ ahead' = ToSet(queue) /\ caller' = caller
      \/ c # "owner" /\ owner' = owner /\ ahead' = ahead /\ caller' = [caller EXCEPT ![c] = "reply"]
  BY DEF Enqueue
<1>3. /\ caller \in [Callers -> Waiting \cup Ended]
      /\ senders \in Seq(Everyone) /\ queue \in Seq(Everyone)
      /\ IsInjective(queue) /\ IsInjective(senders)
  BY DEF IndInv, TypeOK, NobodyStandsTwice, Everyone
<1>4. /\ c \in Everyone /\ c \in ToSet(senders) /\ Tail(senders) \in Seq(Everyone)
      /\ ToSet(Tail(senders)) = ToSet(senders) \ {c} /\ IsInjective(Tail(senders))
  BY <1>1, <1>3, Served
<1>5. c \notin ToSet(queue)
  BY <1>4, Lines
<1>6. /\ Append(queue, c) \in Seq(Everyone) /\ IsInjective(Append(queue, c))
      /\ ToSet(Append(queue, c)) = ToSet(queue) \cup {c}
  BY <1>3, <1>4, <1>5, Joined
<1>7. /\ n \in Nat /\ DOMAIN queue = 1..n /\ DOMAIN Append(queue, c) = 1..(n + 1)
      /\ \A i \in 1..n : Append(queue, c)[i] = queue[i]
      /\ Append(queue, c)[n + 1] = c
  BY <1>3, <1>4, AppendProperties, LenProperties
<1> HIDE DEF c, n
<1>8. /\ c \in Callers => caller[c] = "send" /\ caller'[c] = "reply" /\ c \notin ToSet(executed)
      /\ \A d \in Callers : d # c => caller'[d] = caller[d]
      /\ caller' \in [Callers -> Waiting \cup Ended]
      /\ c = "owner" => owner = "send"
      /\ "owner" \notin Callers
      /\ c \in Callers \/ c = "owner"
  BY <1>2, <1>3, <1>4, Lines DEF IndInv, CallersStandWhereTheyWait, OwnerStandsBehind, Everyone, Waiting
<1>9. TypeOK'
  <2>1. c = "owner" => ToSet(queue) \subseteq Callers
    BY <1>5, Lines DEF Everyone
  <2> QED
    BY <1>1, <1>2, <1>4, <1>6, <1>8, <2>1 DEF IndInv, TypeOK, Everyone
<1>10. NobodyStandsTwice'
  BY <1>1, <1>4, <1>6 DEF IndInv, NobodyStandsTwice
<1>11. CallersStandWhereTheyWait'
  <2>1. opened' = opened
    BY <1>2, <1>8 DEF opened
  <2> QED
    BY <1>1, <1>4, <1>6, <1>8, <2>1 DEF IndInv, CallersStandWhereTheyWait
<1>12. ThreadLives'
  BY <1>1, <1>2, <1>8 DEF IndInv, ThreadLives, opened
<1>13. OwnerStandsBehind'
  <2>1. CASE c = "owner"
    <3>1. owner' = "queued" /\ ahead' = ToSet(queue)
      BY <1>2, <2>1
    <3>2. /\ "owner" \notin ToSet(senders') /\ "owner" \in ToSet(queue')
      BY <1>1, <1>4, <1>6, <2>1
    <3>3. ASSUME NEW i \in DOMAIN queue', queue'[i] = "owner"
          PROVE  ahead' \subseteq {queue'[j] : j \in 1..(i - 1)}
      <4>1. \A j \in 1..n : queue[j] # "owner"
        BY <1>5, <1>7, <2>1, Member
      <4>2. i = n + 1
        BY <1>1, <1>7, <3>3, <4>1
      <4>3. \A x \in ahead' : \E j \in 1..n : queue'[j] = x
        BY <1>1, <1>7, <3>1, Member
      <4> QED
        BY <1>7, <4>2, <4>3
    <3> QED
      BY <1>1, <3>1, <3>2, <3>3 DEF OwnerStandsBehind
  <2>2. CASE c # "owner"
    <3>1. owner' = owner /\ ahead' = ahead
      BY <1>2, <2>2
    <3>2. /\ "owner" \in ToSet(senders') <=> "owner" \in ToSet(senders)
          /\ "owner" \in ToSet(queue') <=> "owner" \in ToSet(queue)
      BY <1>1, <1>4, <1>6, <2>2
    <3>3. ASSUME NEW i \in DOMAIN queue', queue'[i] = "owner", owner = "queued"
          PROVE  ahead \subseteq ToSet(executed) \cup {queue'[j] : j \in 1..(i - 1)}
      <4>1. i \in 1..n /\ queue[i] = "owner"
        BY <1>1, <1>7, <2>2, <3>3
      <4>2. ahead \subseteq ToSet(executed) \cup {queue[j] : j \in 1..(i - 1)}
        BY <1>7, <3>3, <4>1 DEF IndInv, OwnerStandsBehind
      <4>3. \A j \in 1..(i - 1) : queue'[j] = queue[j]
        BY <1>1, <1>7, <4>1
      <4> QED
        BY <4>2, <4>3
    <3> QED
      BY <1>1, <3>1, <3>2, <3>3 DEF IndInv, OwnerStandsBehind
  <2> QED
    BY <2>1, <2>2
<1>14. PermitsConserved'
  <2> DEFINE S == ToSet(senders) \ {c}
             Q == ToSet(queue) \cup {c}
             s1 == SizeOf(S)
             q1 == SizeOf(Q)
             s0 == SizeOf(ToSet(senders))
             q0 == SizeOf(ToSet(queue))
  <2>1. /\ S \in SUBSET Everyone /\ Q \in SUBSET Everyone /\ S \cap Q = {}
        /\ ToSet(senders') = S /\ ToSet(queue') = Q
    BY <1>1, <1>4, <1>6, Lines
  <2>2. s0 = s1 + Size(c)
    BY <1>4, Lines, Leaving
  <2>3. q1 = q0 + Size(c)
    BY <1>4, <1>5, Lines, Joining
  <2>4. /\ s0 \in Nat /\ q0 \in Nat /\ s1 \in Nat /\ q1 \in Nat
        /\ Size(c) \in Nat /\ permits \in Nat /\ permits' = permits
    BY <1>1, <1>4, <2>1, Lines, Sums, Sizes
  <2>5. permits' + (s1 + q1) = permits + s0 + q0
    <3> HIDE DEF s1, q1, s0, q0
    <3> QED
      BY <2>2, <2>3, <2>4
  <2> HIDE DEF S, Q
  <2> QED
    BY <2>1, <2>5, Moved
<1> QED
  BY <1>9, <1>10, <1>11, <1>12, <1>13, <1>14 DEF IndInv

(* The send of the first sender fails: its permits come back.              *)
LEMMA SendFailsStep ==
    ASSUME IndInv, SendFails
    PROVE  IndInv'
<1> DEFINE c == Head(senders)
<1>1. /\ budget' = budget /\ queue' = queue /\ thread' = thread /\ lock' = lock
      /\ executed' = executed /\ ahead' = ahead
      /\ senders # <<>> /\ senders' = Tail(senders) /\ permits' = permits + Size(c)
      /\ thread # "serving"
  BY DEF SendFails, ReceiverOpen
<1>2. \/ c = "owner" /\ owner' = "closed" /\ caller' = caller
      \/ c # "owner" /\ owner' = owner /\ caller' = [caller EXCEPT ![c] = "closed"]
  BY DEF SendFails
<1>3. /\ caller \in [Callers -> Waiting \cup Ended]
      /\ senders \in Seq(Everyone) /\ IsInjective(senders)
  BY DEF IndInv, TypeOK, NobodyStandsTwice, Everyone
<1>4. /\ c \in Everyone /\ c \in ToSet(senders) /\ Tail(senders) \in Seq(Everyone)
      /\ ToSet(Tail(senders)) = ToSet(senders) \ {c} /\ IsInjective(Tail(senders))
  BY <1>1, <1>3, Served
<1> HIDE DEF c
<1>5. /\ c \in Callers => caller[c] = "send" /\ caller'[c] = "closed" /\ c \notin ToSet(executed)
                          /\ opened
      /\ \A d \in Callers : d # c => caller'[d] = caller[d]
      /\ caller' \in [Callers -> Waiting \cup Ended]
      /\ c = "owner" => owner = "send"
      /\ "owner" \notin Callers
      /\ c \in Callers \/ c = "owner"
  BY <1>2, <1>3, <1>4, Lines DEF IndInv, CallersStandWhereTheyWait, OwnerStandsBehind, Everyone, Ended
<1>6. opened' = opened /\ (c \in Callers => thread \in {"closing", "unlocked", "gone"})
  BY <1>1, <1>2, <1>5 DEF opened, IndInv, ThreadLives, TypeOK
<1>7. Size(c) \in Nat /\ permits \in Nat /\ permits' \in Nat
  <2>1. Size(c) \in Nat /\ permits \in Nat
    BY <1>4, Sizes, Lines
  <2> QED
    BY <1>1, <2>1
<1>8. TypeOK'
  BY <1>1, <1>2, <1>4, <1>5, <1>7 DEF IndInv, TypeOK, Everyone
<1>9. NobodyStandsTwice'
  BY <1>1, <1>4 DEF IndInv, NobodyStandsTwice
<1>10. CallersStandWhereTheyWait'
  <2>1. c \in Callers => c \notin ToSet(queue)
    BY <1>1, Nobody DEF IndInv, ThreadLives
  <2> QED
    BY <1>1, <1>4, <1>5, <1>6, <2>1 DEF IndInv, CallersStandWhereTheyWait
<1>11. ThreadLives'
  BY <1>1, <1>6 DEF IndInv, ThreadLives
<1>12. OwnerStandsBehind'
  <2>1. "owner" \notin ToSet(queue) /\ DOMAIN queue = {}
    BY <1>1, Nobody DEF IndInv, ThreadLives
  <2>2. /\ "owner" \in ToSet(senders') <=> ("owner" \in ToSet(senders) /\ c # "owner")
    BY <1>1, <1>4
  <2> QED
    BY <1>1, <1>2, <1>5, <2>1, <2>2 DEF IndInv, OwnerStandsBehind
<1>13. PermitsConserved'
  <2> DEFINE S == ToSet(senders) \ {c}
             Q == ToSet(queue)
             s1 == SizeOf(S)
             s0 == SizeOf(ToSet(senders))
             q0 == SizeOf(ToSet(queue))
  <2>1. /\ S \in SUBSET Everyone /\ Q \in SUBSET Everyone /\ S \cap Q = {}
        /\ ToSet(senders') = S /\ ToSet(queue') = Q
    BY <1>1, <1>4, Lines
  <2>2. s0 = s1 + Size(c)
    BY <1>4, Lines, Leaving
  <2>3. s0 \in Nat /\ q0 \in Nat /\ s1 \in Nat /\ permits' = permits + Size(c)
    BY <1>1, <2>1, Lines, Sums
  <2>4. permits' + (s1 + q0) = permits + s0 + q0
    <3> HIDE DEF s1, s0, q0
    <3> QED
      BY <1>7, <2>2, <2>3
  <2> HIDE DEF S
  <2> QED
    BY <2>1, <2>4, Moved
<1> QED
  BY <1>8, <1>9, <1>10, <1>11, <1>12, <1>13 DEF IndInv

(* A caller that is dropped leaves its line; only one that waits for a     *)
(* place in the queue has permits to return.                               *)
LEMMA DropStep ==
    ASSUME IndInv, NEW c \in Callers, Drop(c)
    PROVE  IndInv'
<1>1. /\ queue' = queue /\ thread' = thread /\ lock' = lock /\ owner' = owner
      /\ executed' = executed /\ ahead' = ahead
      /\ caller[c] \in Waiting /\ caller' = [caller EXCEPT ![c] = "dropped"]
      /\ budget' = RemoveFirst(budget, c) /\ senders' = RemoveFirst(senders, c)
      /\ permits' = IF caller[c] = "send" THEN permits + Bytes[c] ELSE permits
  BY DEF Drop
<1>2. /\ caller \in [Callers -> Waiting \cup Ended] /\ budget \in Seq(Callers)
      /\ IsInjective(budget) /\ IsInjective(senders) /\ senders \in Seq(Everyone)
  BY DEF IndInv, TypeOK, NobodyStandsTwice, Everyone
<1>3. /\ budget' \in Seq(Callers) /\ IsInjective(budget') /\ ToSet(budget') = ToSet(budget) \ {c}
      /\ senders' \in Seq(Everyone) /\ IsInjective(senders')
      /\ ToSet(senders') = ToSet(senders) \ {c}
  BY <1>1, <1>2, Left
<1>4. /\ caller' \in [Callers -> Waiting \cup Ended] /\ caller'[c] = "dropped"
      /\ \A d \in Callers : d # c => caller'[d] = caller[d]
      /\ caller[c] \in {"budget", "send", "reply"} /\ opened /\ c # "owner"
      /\ c \notin ToSet(executed)
  BY <1>1, <1>2, Lines DEF IndInv, CallersStandWhereTheyWait, Waiting, Ended
<1>5. Bytes[c] \in Nat /\ permits \in Nat /\ permits' \in Nat
  <2>1. Bytes[c] \in Nat /\ permits \in Nat
    BY CallerAssumption, Lines
  <2> QED
    BY <1>1, <2>1
<1>6. TypeOK'
  BY <1>1, <1>3, <1>4, <1>5 DEF IndInv, TypeOK, Everyone
<1>7. NobodyStandsTwice'
  BY <1>1, <1>3 DEF IndInv, NobodyStandsTwice
<1>8. CallersStandWhereTheyWait'
  BY <1>1, <1>3, <1>4 DEF IndInv, CallersStandWhereTheyWait, opened
<1>9. OwnerStandsBehind' /\ ThreadLives'
  <2>1. "owner" \in ToSet(senders') <=> "owner" \in ToSet(senders)
    BY <1>3, <1>4
  <2> QED
    BY <1>1, <2>1 DEF IndInv, OwnerStandsBehind, ThreadLives, opened
<1>10. PermitsConserved'
  <2> DEFINE S == ToSet(senders) \ {c}
             Q == ToSet(queue)
             s1 == SizeOf(S)
             s0 == SizeOf(ToSet(senders))
             q0 == SizeOf(ToSet(queue))
  <2>1. /\ S \in SUBSET Everyone /\ Q \in SUBSET Everyone /\ S \cap Q = {}
        /\ ToSet(senders') = S /\ ToSet(queue') = Q
    BY <1>1, <1>3, Lines
  <2>2. /\ caller[c] = "send" => s0 = s1 + Bytes[c] /\ permits' = permits + Bytes[c]
        /\ caller[c] # "send" => s0 = s1 /\ permits' = permits
    <3>1. CASE caller[c] = "send"
      <4>1. c \in ToSet(senders)
        BY <3>1 DEF IndInv, CallersStandWhereTheyWait
      <4> QED
        BY <1>1, <3>1, <4>1, Lines, Leaving, Sizes
    <3>2. CASE caller[c] # "send"
      <4>1. c \notin ToSet(senders)
        BY <3>2 DEF IndInv, CallersStandWhereTheyWait
      <4>2. S = ToSet(senders)
        BY <4>1
      <4> QED
        BY <1>1, <3>2, <4>2
    <3> QED
      BY <3>1, <3>2
  <2>3. s0 \in Nat /\ q0 \in Nat /\ s1 \in Nat
    BY <2>1, Lines, Sums
  <2>4. permits' + (s1 + q0) = permits + s0 + q0
    <3> HIDE DEF s1, s0, q0
    <3>1. CASE caller[c] = "send"
      <4>1. s0 = s1 + Bytes[c] /\ permits' = permits + Bytes[c]
        BY <2>2, <3>1
      <4> QED
        BY <1>5, <2>3, <4>1
    <3>2. CASE caller[c] # "send"
      <4>1. s0 = s1 /\ permits' = permits
        BY <2>2, <3>2
      <4> QED
        BY <1>5, <2>3, <4>1
    <3> QED
      BY <3>1, <3>2
  <2> HIDE DEF S
  <2> QED
    BY <2>1, <2>4, Moved
<1> QED
  BY <1>6, <1>7, <1>8, <1>9, <1>10 DEF IndInv

(* The owner joins the line of the senders with nothing to pay.            *)
LEMMA ShutdownStep ==
    ASSUME IndInv, Shutdown
    PROVE  IndInv'
<1>1. /\ caller' = caller /\ permits' = permits /\ budget' = budget /\ queue' = queue
      /\ thread' = thread /\ lock' = lock /\ executed' = executed /\ ahead' = ahead
      /\ owner = "open" /\ owner' = "send" /\ senders' = Append(senders, "owner")
  BY DEF Shutdown
<1>2. /\ senders \in Seq(Everyone) /\ IsInjective(senders) /\ "owner" \in Everyone
      /\ "owner" \notin ToSet(senders) /\ "owner" \notin ToSet(queue)
  BY <1>1 DEF IndInv, TypeOK, NobodyStandsTwice, OwnerStandsBehind, Everyone
<1>3. /\ senders' \in Seq(Everyone) /\ IsInjective(senders')
      /\ ToSet(senders') = ToSet(senders) \cup {"owner"}
  BY <1>1, <1>2, Joined
<1>4. TypeOK'
  BY <1>1, <1>3 DEF IndInv, TypeOK, Everyone
<1>5. NobodyStandsTwice'
  BY <1>1, <1>3 DEF IndInv, NobodyStandsTwice
<1>6. CallersStandWhereTheyWait'
  <2>1. \A c \in Callers : c \in ToSet(senders') <=> c \in ToSet(senders)
    BY <1>3, Lines
  <2> QED
    BY <1>1, <2>1 DEF IndInv, CallersStandWhereTheyWait, opened
<1>7. OwnerStandsBehind' /\ ThreadLives'
  BY <1>1, <1>2, <1>3 DEF IndInv, OwnerStandsBehind, ThreadLives, opened
<1>8. PermitsConserved'
  <2> DEFINE S == ToSet(senders) \cup {"owner"}
             Q == ToSet(queue)
             s1 == SizeOf(S)
             s0 == SizeOf(ToSet(senders))
             q0 == SizeOf(ToSet(queue))
  <2>1. /\ S \in SUBSET Everyone /\ Q \in SUBSET Everyone /\ S \cap Q = {}
        /\ ToSet(senders') = S /\ ToSet(queue') = Q
    BY <1>1, <1>2, <1>3, Lines
  <2>2. s1 = s0 + 0
    BY <1>2, Lines, Joining, Sizes
  <2>3. s0 \in Nat /\ q0 \in Nat /\ permits \in Nat
    BY Lines, Sums
  <2>4. permits' + (s1 + q0) = permits + s0 + q0
    <3> HIDE DEF s1, s0, q0
    <3> QED
      BY <1>1, <2>2, <2>3
  <2> HIDE DEF S
  <2> QED
    BY <2>1, <2>4, Moved
<1> QED
  BY <1>4, <1>5, <1>6, <1>7, <1>8 DEF IndInv

(* The owner gives up; a barrier in the queue stays there.                 *)
LEMMA GiveUpStep ==
    ASSUME IndInv, GiveUp
    PROVE  IndInv'
<1>1. /\ caller' = caller /\ permits' = permits /\ budget' = budget /\ queue' = queue
      /\ thread' = thread /\ lock' = lock /\ executed' = executed /\ ahead' = ahead
      /\ owner \in {"opening", "open", "send", "queued"}
      /\ owner' = IF owner = "opening" THEN "never" ELSE "dropped"
      /\ senders' = RemoveFirst(senders, "owner")
  BY DEF GiveUp
<1>2. senders \in Seq(Everyone) /\ IsInjective(senders)
  BY DEF IndInv, TypeOK, NobodyStandsTwice, Everyone
<1>3. /\ senders' \in Seq(Everyone) /\ IsInjective(senders')
      /\ ToSet(senders') = ToSet(senders) \ {"owner"}
  BY <1>1, <1>2, Left
<1>4. opened' = opened
  BY <1>1 DEF opened
<1>5. TypeOK'
  BY <1>1, <1>3 DEF IndInv, TypeOK, Everyone
<1>6. NobodyStandsTwice'
  BY <1>1, <1>3 DEF IndInv, NobodyStandsTwice
<1>7. CallersStandWhereTheyWait'
  <2>1. \A c \in Callers : c \in ToSet(senders') <=> c \in ToSet(senders)
    BY <1>3, Lines
  <2> QED
    BY <1>1, <1>4, <2>1 DEF IndInv, CallersStandWhereTheyWait
<1>8. OwnerStandsBehind' /\ ThreadLives'
  BY <1>1, <1>3, <1>4 DEF IndInv, OwnerStandsBehind, ThreadLives
<1>9. PermitsConserved'
  <2> DEFINE S == ToSet(senders) \ {"owner"}
             Q == ToSet(queue)
             s1 == SizeOf(S)
             s0 == SizeOf(ToSet(senders))
             q0 == SizeOf(ToSet(queue))
  <2>1. /\ S \in SUBSET Everyone /\ Q \in SUBSET Everyone /\ S \cap Q = {}
        /\ ToSet(senders') = S /\ ToSet(queue') = Q
    BY <1>1, <1>3, Lines
  <2>2. s0 = s1 + 0
    <3>1. CASE "owner" \in ToSet(senders)
      BY <3>1, Lines, Leaving, Sizes
    <3>2. CASE "owner" \notin ToSet(senders)
      <4>1. S = ToSet(senders) /\ s0 \in Nat
        BY <3>2, Lines, Sums
      <4> QED
        BY <4>1
    <3> QED
      BY <3>1, <3>2
  <2>3. s0 \in Nat /\ s1 \in Nat /\ q0 \in Nat /\ permits \in Nat
    BY <2>1, Lines, Sums
  <2>4. permits' + (s1 + q0) = permits + s0 + q0
    <3> HIDE DEF s1, s0, q0
    <3> QED
      BY <1>1, <2>2, <2>3
  <2> HIDE DEF S
  <2> QED
    BY <2>1, <2>4, Moved
<1> QED
  BY <1>5, <1>6, <1>7, <1>8, <1>9 DEF IndInv

(* The first command runs: its permits come back, its caller is answered   *)
(* if it still waits, and what is ahead of the barrier moves on.           *)
LEMMA ExecuteStep ==
    ASSUME IndInv, Execute
    PROVE  IndInv'
<1> DEFINE c == Head(queue)
           n == Len(queue)
<1>1. /\ budget' = budget /\ senders' = senders /\ thread' = thread /\ lock' = lock
      /\ owner' = owner /\ ahead' = ahead
      /\ thread = "serving" /\ queue # <<>> /\ c # "owner"
      /\ executed' = Append(executed, c) /\ permits' = permits + Bytes[c]
      /\ caller' = IF caller[c] = "reply" THEN [caller EXCEPT ![c] = "ok"] ELSE caller
      /\ queue' = Tail(queue)
  BY DEF Execute
<1>2. /\ caller \in [Callers -> Waiting \cup Ended]
      /\ queue \in Seq(Everyone) /\ executed \in Seq(Callers)
      /\ IsInjective(queue) /\ IsInjective(executed)
  BY DEF IndInv, TypeOK, NobodyStandsTwice, Everyone
<1>3. /\ c \in Everyone /\ c \in ToSet(queue) /\ Tail(queue) \in Seq(Everyone) /\ c = queue[1]
      /\ ToSet(Tail(queue)) = ToSet(queue) \ {c} /\ IsInjective(Tail(queue))
      /\ n \in Nat /\ DOMAIN queue = 1..n /\ DOMAIN Tail(queue) = 1..(n - 1)
      /\ \A i \in 1..(n - 1) : Tail(queue)[i] = queue[i + 1]
  BY <1>1, <1>2, Served
<1> HIDE DEF c, n
<1>4. c \in Callers /\ caller[c] \in {"reply", "dropped"} /\ c \notin ToSet(executed)
  BY <1>1, <1>3 DEF IndInv, CallersStandWhereTheyWait, Everyone
<1>5. /\ executed' \in Seq(Callers) /\ IsInjective(executed')
      /\ ToSet(executed') = ToSet(executed) \cup {c}
  BY <1>1, <1>2, <1>4, Joined
<1>6. /\ caller' \in [Callers -> Waiting \cup Ended] /\ caller'[c] \in {"ok", "dropped"}
      /\ \A d \in Callers : d # c => caller'[d] = caller[d]
  BY <1>1, <1>2, <1>4 DEF Ended
<1>7. Bytes[c] \in Nat /\ permits \in Nat /\ permits' \in Nat
  <2>1. Bytes[c] \in Nat /\ permits \in Nat
    BY <1>4, CallerAssumption, Lines
  <2> QED
    BY <1>1, <2>1
<1>8. TypeOK'
  BY <1>1, <1>3, <1>5, <1>6, <1>7 DEF IndInv, TypeOK, Everyone
<1>9. NobodyStandsTwice'
  BY <1>1, <1>3, <1>5 DEF IndInv, NobodyStandsTwice
<1>10. CallersStandWhereTheyWait'
  <2>1. \A d \in Callers : caller[d] # "closed"
    BY <1>1 DEF IndInv, CallersStandWhereTheyWait
  <2>2. opened' = opened /\ opened
    BY <1>1, <1>4 DEF IndInv, CallersStandWhereTheyWait, opened
  <2> QED
    BY <1>1, <1>3, <1>4, <1>5, <1>6, <2>1, <2>2 DEF IndInv, CallersStandWhereTheyWait
<1>11. ThreadLives'
  BY <1>1 DEF IndInv, ThreadLives, opened
<1>12. OwnerStandsBehind'
  <2>1. "owner" \in ToSet(queue') <=> "owner" \in ToSet(queue)
    BY <1>1, <1>3
  <2>2. ASSUME NEW i \in DOMAIN queue', queue'[i] = "owner", owner = "queued"
        PROVE  ahead \subseteq ToSet(executed') \cup {queue'[j] : j \in 1..(i - 1)}
    <3>1. i \in 1..(n - 1) /\ i + 1 \in 1..n /\ queue[i + 1] = "owner"
      BY <1>1, <1>3, <2>2
    <3>2. ahead \subseteq ToSet(executed) \cup {queue[j] : j \in 1..((i + 1) - 1)}
      BY <1>3, <2>2, <3>1 DEF IndInv, OwnerStandsBehind
    <3>3. ASSUME NEW j \in 1..((i + 1) - 1), queue[j] # c
          PROVE  \E k \in 1..(i - 1) : queue'[k] = queue[j]
      <4>1. j - 1 \in 1..(i - 1) /\ j - 1 \in 1..(n - 1) /\ (j - 1) + 1 = j
        BY <1>3, <3>1, <3>3
      <4>2. queue'[j - 1] = queue[j]
        BY <1>1, <1>3, <4>1
      <4> QED
        BY <4>1, <4>2
    <3> QED
      BY <1>5, <3>2, <3>3
  <2> QED
    BY <1>1, <1>5, <2>1, <2>2 DEF IndInv, OwnerStandsBehind
<1>13. PermitsConserved'
  <2> DEFINE S == ToSet(senders)
             Q == ToSet(queue) \ {c}
             q1 == SizeOf(Q)
             s0 == SizeOf(ToSet(senders))
             q0 == SizeOf(ToSet(queue))
  <2>1. /\ S \in SUBSET Everyone /\ Q \in SUBSET Everyone /\ S \cap Q = {}
        /\ ToSet(senders') = S /\ ToSet(queue') = Q
    BY <1>1, <1>3, Lines
  <2>2. q0 = q1 + Bytes[c]
    BY <1>3, <1>4, Lines, Leaving, Sizes
  <2>3. s0 \in Nat /\ q0 \in Nat /\ q1 \in Nat
    BY <2>1, Lines, Sums
  <2>4. permits' + (s0 + q1) = permits + s0 + q0
    <3> HIDE DEF q1, s0, q0
    <3> QED
      BY <1>1, <1>7, <2>2, <2>3
  <2> HIDE DEF Q
  <2> QED
    BY <2>1, <2>4, Moved
<1> QED
  BY <1>8, <1>9, <1>10, <1>11, <1>12, <1>13 DEF IndInv

(* All that is behind the first command, with or without it.               *)
LEMMA Behind ==
    ASSUME IndInv, queue # <<>>
    PROVE  /\ {queue[i] : i \in (1 + 0)..Len(queue)} = ToSet(queue)
           /\ {queue[i] : i \in (1 + 1)..Len(queue)} = ToSet(queue) \ {Head(queue)}
           /\ Head(queue) = queue[1] /\ Head(queue) \in ToSet(queue) /\ 1 \in DOMAIN queue
<1>1. /\ queue \in Seq(Everyone) /\ IsInjective(queue)
  BY DEF IndInv, TypeOK, NobodyStandsTwice, Everyone
<1>2. /\ Len(queue) \in Nat /\ DOMAIN queue = 1..Len(queue) /\ Head(queue) = queue[1]
      /\ Head(queue) \in ToSet(queue)
  BY <1>1, Served
<1>3. Len(queue) # 0
  BY <1>1, EmptySeq
<1>4. 1 \in DOMAIN queue
  BY <1>2, <1>3
<1>5. {queue[i] : i \in (1 + 0)..Len(queue)} = ToSet(queue)
  BY <1>2 DEF ToSet
<1>6. \A i \in 1..Len(queue) : queue[i] = queue[1] <=> i = 1
  BY <1>1, <1>2, <1>4 DEF IsInjective
<1>7. {queue[i] : i \in (1 + 1)..Len(queue)} = ToSet(queue) \ {queue[1]}
  BY <1>2, <1>6 DEF ToSet
<1> QED
  BY <1>2, <1>4, <1>5, <1>7

(* When the receiver is dropped, all of the queue's permits come back.     *)
LEMMA ReceiverDropped ==
    ASSUME IndInv, queue' = <<>>, senders' = senders,
           NEW Q \in SUBSET Everyone, permits' = permits + SizeOf(Q),
           SizeOf(Q) = SizeOf(ToSet(queue))
    PROVE  PermitsConserved' /\ permits' \in Nat
<1> DEFINE s0 == SizeOf(ToSet(senders))
           q0 == SizeOf(ToSet(queue))
           e == SizeOf({})
<1>1. s0 \in Nat /\ q0 \in Nat /\ permits \in Nat /\ permits' = permits + q0 /\ e = 0
  BY Lines, Sums
<1>2. permits' + (s0 + e) = permits + s0 + q0 /\ permits' \in Nat
  <2> HIDE DEF s0, q0, e
  <2> QED
    BY <1>1
<1>3. /\ ToSet(senders') = ToSet(senders) /\ ToSet(queue') = {} /\ {} \in SUBSET Everyone
      /\ ToSet(senders) \cap {} = {} /\ ToSet(senders) \in SUBSET Everyone
  BY Nobody, Lines
<1> QED
  BY <1>2, <1>3, Moved

(* The callers that still wait for a reply see their channel close.        *)
LEMMA Abandoned ==
    ASSUME IndInv, caller' = AbandonedCallers
    PROVE  /\ caller' \in [Callers -> Waiting \cup Ended]
           /\ \A c \in Callers : /\ caller[c] = "reply" => caller'[c] = "closed"
                                 /\ caller[c] # "reply" => caller'[c] = caller[c]
  BY DEF IndInv, TypeOK, AbandonedCallers, Waiting, Ended

(* The thread reaches the barrier: all that was ahead of it has run.       *)
LEMMA BarrierStep ==
    ASSUME IndInv, ReachBarrier
    PROVE  IndInv'
<1>1. /\ budget' = budget /\ senders' = senders /\ lock' = lock /\ owner' = owner
      /\ executed' = executed /\ ahead' = ahead
      /\ thread = "serving" /\ thread' = "closing" /\ queue # <<>> /\ Head(queue) = "owner"
      /\ queue' = <<>> /\ caller' = AbandonedCallers
      /\ permits' = permits + SizeOf({queue[i] : i \in (1 + 1)..Len(queue)})
  BY DEF ReachBarrier, DropReceiver
<1>2. /\ caller' \in [Callers -> Waiting \cup Ended]
      /\ \A c \in Callers : /\ caller[c] = "reply" => caller'[c] = "closed"
                            /\ caller[c] # "reply" => caller'[c] = caller[c]
  BY <1>1, Abandoned
<1>3. PermitsConserved' /\ permits' \in Nat
  <2> DEFINE Q == ToSet(queue) \ {"owner"}
             q1 == SizeOf(Q)
             q0 == SizeOf(ToSet(queue))
  <2>1. "owner" \in ToSet(queue) /\ permits' = permits + q1
    BY <1>1, Behind
  <2>2. q0 = q1 + 0 /\ q1 \in Nat /\ Q \in SUBSET Everyone
    BY <2>1, Lines, Leaving, Sizes, Sums
  <2>3. q1 = q0
    <3> HIDE DEF q1, q0
    <3> QED
      BY <2>2
  <2> QED
    BY <1>1, <2>1, <2>2, <2>3, ReceiverDropped
<1>4. TypeOK'
  BY <1>1, <1>2, <1>3, Nobody DEF IndInv, TypeOK
<1>5. NobodyStandsTwice'
  BY <1>1, Nobody DEF IndInv, NobodyStandsTwice
<1>6. CallersStandWhereTheyWait'
  BY <1>1, <1>2, Nobody DEF IndInv, CallersStandWhereTheyWait, opened
<1>7. OwnerStandsBehind'
  <2>1. owner = "queued" => ahead \subseteq ToSet(executed)
    <3>1. owner = "queued" => ahead \subseteq ToSet(executed) \cup {queue[j] : j \in 1..(1 - 1)}
      BY <1>1, Behind DEF IndInv, OwnerStandsBehind
    <3>2. {queue[j] : j \in 1..(1 - 1)} = {}
      OBVIOUS
    <3> QED
      BY <3>1, <3>2
  <2> QED
    BY <1>1, <2>1, Nobody DEF IndInv, OwnerStandsBehind
<1>8. ThreadLives'
  BY <1>1 DEF IndInv, ThreadLives, opened
<1> QED
  BY <1>3, <1>4, <1>5, <1>6, <1>7, <1>8 DEF IndInv

(* The thread dies on a command, which may have run.                       *)
LEMMA PanicStep ==
    ASSUME IndInv, Panic
    PROVE  IndInv'
<1> DEFINE c == Head(queue)
<1>1. /\ budget' = budget /\ senders' = senders /\ ahead' = ahead
      /\ thread = "serving" /\ thread' = "gone" /\ lock' = FALSE
      /\ queue # <<>> /\ c # "owner"
      /\ queue' = <<>> /\ caller' = AbandonedCallers
      /\ permits' = permits + SizeOf({queue[i] : i \in (1 + 0)..Len(queue)})
      /\ owner' = IF owner = "queued" THEN "closed" ELSE owner
      /\ executed' = executed \/ executed' = Append(executed, c)
  BY DEF Panic, DropReceiver
<1>2. /\ caller' \in [Callers -> Waiting \cup Ended]
      /\ \A d \in Callers : /\ caller[d] = "reply" => caller'[d] = "closed"
                            /\ caller[d] # "reply" => caller'[d] = caller[d]
  BY <1>1, Abandoned
<1>3. PermitsConserved' /\ permits' \in Nat
  <2>1. permits' = permits + SizeOf(ToSet(queue))
    BY <1>1, Behind
  <2> QED
    BY <1>1, <2>1, Lines, ReceiverDropped
<1>4. c \in ToSet(queue)
  BY <1>1, Behind
<1> HIDE DEF c
<1>5. c \in Callers /\ caller[c] \in {"reply", "dropped"} /\ c \notin ToSet(executed)
  BY <1>1, <1>4, Lines DEF IndInv, CallersStandWhereTheyWait, Everyone
<1>6. /\ executed' \in Seq(Callers) /\ IsInjective(executed')
      /\ ToSet(executed) \subseteq ToSet(executed')
      /\ ToSet(executed') \subseteq ToSet(executed) \cup {c}
      /\ c \in ToSet(executed') => Last(executed') = c
  <2>1. executed \in Seq(Callers) /\ IsInjective(executed)
    BY DEF IndInv, TypeOK, NobodyStandsTwice
  <2>2. CASE executed' = executed
    BY <1>5, <2>1, <2>2
  <2>3. CASE executed' = Append(executed, c)
    <3>1. /\ Append(executed, c) \in Seq(Callers) /\ IsInjective(Append(executed, c))
          /\ ToSet(Append(executed, c)) = ToSet(executed) \cup {c}
      BY <1>5, <2>1, Joined
    <3>2. Last(Append(executed, c)) = c
      BY <1>5, <2>1, AppendProperties DEF Last
    <3> QED
      BY <2>3, <3>1, <3>2
  <2> QED
    BY <1>1, <2>2, <2>3
<1>7. TypeOK'
  BY <1>1, <1>2, <1>3, <1>6, Nobody DEF IndInv, TypeOK
<1>8. NobodyStandsTwice'
  BY <1>1, <1>6, Nobody DEF IndInv, NobodyStandsTwice
<1>9. CallersStandWhereTheyWait'
  <2>1. \A d \in Callers : caller[d] # "closed"
    BY <1>1 DEF IndInv, CallersStandWhereTheyWait
  <2>2. opened' = opened
    BY <1>1 DEF opened
  <2> QED
    BY <1>1, <1>2, <1>5, <1>6, <2>1, <2>2, Nobody DEF IndInv, CallersStandWhereTheyWait
<1>10. OwnerStandsBehind' /\ ThreadLives'
  BY <1>1, <1>6, Nobody DEF IndInv, OwnerStandsBehind, ThreadLives, opened
<1> QED
  BY <1>3, <1>7, <1>8, <1>9, <1>10 DEF IndInv

(* Every step keeps the inductive invariant.                               *)
LEMMA NextIndInv == IndInv /\ [Next]_vars => IndInv'
<1> SUFFICES ASSUME IndInv, [Next]_vars PROVE IndInv'
  OBVIOUS
<1>1. CASE \E c \in Callers : Begin(c) \/ Drop(c)
  BY <1>1, BeginStep, DropStep
<1>2. CASE Acquire \/ Sending
  BY <1>2, AcquireStep, EnqueueStep, SendFailsStep DEF Sending
<1>3. CASE Thread \/ Panic \/ AllHandlesDropped
  BY <1>3, ThreadStep, ExecuteStep, BarrierStep, PanicStep DEF Thread
<1>4. CASE Shutdown \/ GiveUp
  BY <1>4, ShutdownStep, GiveUpStep
<1>5. CASE UNCHANGED vars
  BY <1>5 DEF vars, IndInv, TypeOK, NobodyStandsTwice, CallersStandWhereTheyWait,
     OwnerStandsBehind, ThreadLives, PermitsConserved, opened
<1> QED
  BY <1>1, <1>2, <1>3, <1>4, <1>5 DEF Next

(* The lines, the callers, the owner and the thread agree about where      *)
(* every command is, whatever is dropped and whenever the thread dies.     *)
THEOREM EveryCommandHasItsPlace == Spec => []IndInv
  BY InitIndInv, NextIndInv, PTL DEF Spec

(* The number of times a command ran, from the places it has in executed.  *)
LEMMA RunsOnce ==
    ASSUME IndInv, NEW c \in Callers
    PROVE  /\ c \in ToSet(executed) => Runs(c) = 1
           /\ c \notin ToSet(executed) => Runs(c) = 0
<1> DEFINE I == {i \in DOMAIN executed : executed[i] = c}
<1>1. CASE c \in ToSet(executed)
  <2>1. PICK i \in DOMAIN executed : executed[i] = c
    BY <1>1, Member
  <2>2. I = {i}
    BY <2>1 DEF IndInv, NobodyStandsTwice, IsInjective
  <2>3. Cardinality({i}) = 1
    BY FS_Singleton, Zenon
  <2>4. Runs(c) = 1
    BY <2>2, <2>3, Zenon DEF Runs
  <2> QED
    BY <1>1, <2>4
<1>2. CASE c \notin ToSet(executed)
  <2>1. I = {}
    BY <1>2, Member
  <2>2. Runs(c) = 0
    BY <2>1, FS_EmptySet, Zenon DEF Runs
  <2> QED
    BY <1>2, <2>2
<1> QED
  BY <1>1, <1>2

(* What the callers and the owner are told is true: no permit is lost or   *)
(* returned twice, an answered call ran exactly once and a refused one     *)
(* never, and a confirmed shutdown left nothing ahead of it undone and the *)
(* lock free.                                                              *)
THEOREM StoreTellsTheTruth == Spec => []StoreIsTruthful
<1>1. IndInv => StoreIsTruthful
  <2> SUFFICES ASSUME IndInv PROVE StoreIsTruthful
    OBVIOUS
  <2>1. PermitsConserved
    BY DEF IndInv
  <2>2. AnswersAreTruthful
    <3> SUFFICES ASSUME NEW c \in Callers
                 PROVE  /\ Runs(c) <= 1
                        /\ caller[c] = "ok" => Runs(c) = 1
                        /\ caller[c] \in {"capacity", "budget", "send"} => Runs(c) = 0
                        /\ caller[c] = "closed" => Runs(c) = 0 \/ Last(executed) = c
      BY DEF AnswersAreTruthful
    <3>1. \/ c \in ToSet(executed) /\ Runs(c) = 1
          \/ c \notin ToSet(executed) /\ Runs(c) = 0
      BY RunsOnce
    <3>2. Runs(c) <= 1
      BY <3>1
    <3> QED
      BY <3>1, <3>2 DEF IndInv, CallersStandWhereTheyWait
  <2>3. ConfirmedIsComplete
    BY DEF IndInv, OwnerStandsBehind, ThreadLives, ConfirmedIsComplete, ReceiverOpen
  <2> QED
    BY <2>1, <2>2, <2>3 DEF StoreIsTruthful
<1> QED
  BY <1>1, EveryCommandHasItsPlace, PTL

-----------------------------------------------------------------------------
(* The consumer of samples.  Every batch that was sent is in one of three  *)
(* places: done with, in the channel, or at work with its confirmed part   *)
(* in the database.                                                        *)

IngestType ==
    /\ sent \subseteq Batches /\ dropped \subseteq Batches
    /\ open \in BOOLEAN
    /\ channel \in Seq(Batches) /\ IsInjective(channel)
    /\ current \in Batches \cup {NoBatch} /\ offset \in Nat
    /\ run \in {"running", "returned", "again", "ok", "failed"}
EveryBatchHasItsPlace == sent = dropped \cup ToSet(channel) \cup ({current} \ {NoBatch})
OffsetIsConfirmed ==
    current # NoBatch => /\ offset <= BatchSize[current]
                         /\ {current} \X (1..offset) \subseteq saved
OkAtTheEnd == run = "ok" => ~open /\ channel = <<>> /\ current = NoBatch
IngestInv ==
    IngestType /\ EveryBatchHasItsPlace /\ OffsetIsConfirmed /\ DroppedIsSaved /\ OkAtTheEnd

(* A segment starts at the offset and ends within the batch.               *)
LEMMA SegmentBounds ==
    ASSUME IngestInv, current # NoBatch, offset < BatchSize[current]
    PROVE  /\ SegmentEnd \in Nat /\ offset < SegmentEnd /\ SegmentEnd <= BatchSize[current]
           /\ {current} \X (1..SegmentEnd) \subseteq ({current} \X (1..offset)) \cup Unconfirmed
<1> DEFINE x == offset + Segment
           y == BatchSize[current]
<1>1. x \in Nat /\ y \in Nat /\ x > offset /\ y > offset /\ offset \in Nat
  BY IngestAssumption DEF IngestInv, IngestType
<1>2. \E m \in {x, y} : \A n \in {x, y} : m =< n
  BY <1>1
<1>3. SegmentEnd \in {x, y} /\ SegmentEnd <= y
  BY <1>2 DEF SegmentEnd, Min
<1> HIDE DEF x
<1>4. SegmentEnd \in Nat /\ offset < SegmentEnd /\ SegmentEnd <= y
  BY <1>1, <1>3
<1>5. 1..SegmentEnd \subseteq (1..offset) \cup ((offset + 1)..SegmentEnd)
  BY <1>1, <1>4
<1> QED
  BY <1>4, <1>5 DEF Unconfirmed

LEMMA SaveStep ==
    ASSUME IngestInv, SaveOk
    PROVE  IngestInv'
<1>1. /\ current # NoBatch /\ offset < BatchSize[current] /\ run # "ok"
      /\ saved' = saved \cup Unconfirmed /\ offset' = SegmentEnd
      /\ UNCHANGED <<sent, open, channel, current, dropped, run>>
  BY DEF SaveOk, Consuming
<1>2. /\ SegmentEnd \in Nat /\ SegmentEnd <= BatchSize[current]
      /\ {current} \X (1..SegmentEnd) \subseteq ({current} \X (1..offset)) \cup Unconfirmed
  BY <1>1, SegmentBounds
<1>3. {current} \X (1..offset) \subseteq saved
  BY <1>1 DEF IngestInv, OffsetIsConfirmed
<1>4. OffsetIsConfirmed'
  <2>1. {current} \X (1..SegmentEnd) \subseteq saved'
    BY <1>1, <1>2, <1>3
  <2> QED
    BY <1>1, <1>2, <2>1 DEF OffsetIsConfirmed
<1>5. IngestType' /\ EveryBatchHasItsPlace' /\ OkAtTheEnd'
  BY <1>1, <1>2 DEF IngestInv, IngestType, EveryBatchHasItsPlace, OkAtTheEnd
<1>6. DroppedIsSaved'
  BY <1>1 DEF IngestInv, DroppedIsSaved, Hashes
<1> QED
  BY <1>4, <1>5, <1>6 DEF IngestInv

(* Whether a save that failed committed or not, the offset stays where the *)
(* database last confirmed it.                                             *)
LEMMA SaveFailsStep ==
    ASSUME IngestInv, SaveFails
    PROVE  IngestInv'
<1>1. /\ current # NoBatch /\ run # "ok" /\ run' \in {"returned", "failed"}
      /\ saved \subseteq saved'
      /\ UNCHANGED <<sent, open, channel, current, offset, dropped>>
  BY DEF SaveFails, Consuming
<1> QED
  BY <1>1 DEF IngestInv, IngestType, EveryBatchHasItsPlace, OkAtTheEnd, OffsetIsConfirmed,
              DroppedIsSaved, Hashes

LEMMA SendStep ==
    ASSUME IngestInv, NEW b \in Batches, Send(b)
    PROVE  IngestInv'
<1>1. /\ open /\ b \notin sent /\ sent' = sent \cup {b} /\ channel' = Append(channel, b)
      /\ UNCHANGED <<open, current, offset, saved, dropped, run>>
  BY DEF Send
<1>2. b \notin ToSet(channel) /\ channel \in Seq(Batches) /\ IsInjective(channel)
  BY <1>1 DEF IngestInv, IngestType, EveryBatchHasItsPlace
<1>3. channel' \in Seq(Batches) /\ ToSet(channel') = ToSet(channel) \cup {b} /\ IsInjective(channel')
  BY <1>1, <1>2, Joined
<1>4. IngestType' /\ EveryBatchHasItsPlace'
  BY <1>1, <1>3 DEF IngestInv, IngestType, EveryBatchHasItsPlace
<1> QED
  BY <1>1, <1>4 DEF IngestInv, OkAtTheEnd, OffsetIsConfirmed, DroppedIsSaved, Hashes

LEMMA RecvStep ==
    ASSUME IngestInv, Recv
    PROVE  IngestInv'
<1>1. /\ run # "ok" /\ current = NoBatch /\ channel # <<>>
      /\ current' = Head(channel) /\ channel' = Tail(channel) /\ offset' = 0
      /\ UNCHANGED <<sent, open, saved, dropped, run>>
  BY DEF Recv, Consuming
<1>2. channel \in Seq(Batches) /\ IsInjective(channel)
  BY DEF IngestInv, IngestType
<1>3. /\ Tail(channel) \in Seq(Batches) /\ Head(channel) \in Batches
      /\ Head(channel) \in ToSet(channel)
      /\ ToSet(Tail(channel)) = ToSet(channel) \ {Head(channel)} /\ IsInjective(Tail(channel))
  BY <1>1, <1>2, Served
<1>4. IngestType' /\ EveryBatchHasItsPlace'
  BY <1>1, <1>3, IngestAssumption DEF IngestInv, IngestType, EveryBatchHasItsPlace
<1>5. OffsetIsConfirmed'
  BY <1>1, <1>3, IngestAssumption DEF OffsetIsConfirmed
<1> QED
  BY <1>1, <1>4, <1>5 DEF IngestInv, OkAtTheEnd, DroppedIsSaved, Hashes

LEMMA BatchDoneStep ==
    ASSUME IngestInv, BatchDone
    PROVE  IngestInv'
<1>1. /\ run # "ok" /\ current # NoBatch /\ offset >= BatchSize[current]
      /\ dropped' = dropped \cup {current} /\ current' = NoBatch
      /\ UNCHANGED <<sent, open, channel, offset, saved, run>>
  BY DEF BatchDone, Consuming
<1>2. current \in Batches /\ offset = BatchSize[current]
  BY <1>1, IngestAssumption DEF IngestInv, IngestType, OffsetIsConfirmed
<1>3. Hashes(current) \subseteq saved
  BY <1>1, <1>2 DEF IngestInv, OffsetIsConfirmed, Hashes
<1>4. DroppedIsSaved'
  BY <1>1, <1>3 DEF IngestInv, DroppedIsSaved, Hashes
<1> QED
  BY <1>1, <1>2, <1>4 DEF IngestInv, IngestType, EveryBatchHasItsPlace, OkAtTheEnd, OffsetIsConfirmed

(* What the consumer has let go, and what it had when it reported success, *)
(* is in the database, for any batches, sizes of segments and failures.    *)
THEOREM NoSampleIsLost == IngestSpec => []SamplesAreSaved
<1>1. IngestInit => IngestInv
  <2> SUFFICES ASSUME IngestInit PROVE IngestInv
    OBVIOUS
  <2>1. IngestType /\ EveryBatchHasItsPlace
    BY Nobody DEF IngestInit, IngestType, EveryBatchHasItsPlace
  <2> QED
    BY <2>1 DEF IngestInit, IngestInv, OffsetIsConfirmed, DroppedIsSaved, OkAtTheEnd
<1>2. IngestInv /\ [IngestNext]_ingestVars => IngestInv'
  <2> SUFFICES ASSUME IngestInv, [IngestNext]_ingestVars PROVE IngestInv'
    OBVIOUS
  <2>1. CASE CloseChannel
    BY <2>1 DEF CloseChannel, IngestInv, IngestType, EveryBatchHasItsPlace, OkAtTheEnd,
                OffsetIsConfirmed, DroppedIsSaved, Hashes
  <2>2. CASE RecvEnds
    BY <2>2 DEF RecvEnds, IngestInv, IngestType, EveryBatchHasItsPlace, OkAtTheEnd,
                OffsetIsConfirmed, DroppedIsSaved, Hashes
  <2>3. CASE RunAgain
    BY <2>3 DEF RunAgain, IngestInv, IngestType, EveryBatchHasItsPlace, OkAtTheEnd,
                OffsetIsConfirmed, DroppedIsSaved, Hashes
  <2>4. CASE UNCHANGED ingestVars
    BY <2>4 DEF ingestVars, IngestInv, IngestType, EveryBatchHasItsPlace, OkAtTheEnd,
                OffsetIsConfirmed, DroppedIsSaved, Hashes
  <2> QED
    BY <2>1, <2>2, <2>3, <2>4, SendStep, RecvStep, SaveStep, SaveFailsStep, BatchDoneStep
       DEF IngestNext, Consumer
<1>3. IngestInv => SamplesAreSaved
  <2> SUFFICES ASSUME IngestInv PROVE OkMeansAllSaved
    BY DEF IngestInv, SamplesAreSaved
  <2>1. run = "ok" => sent = dropped
    BY Nobody DEF IngestInv, OkAtTheEnd, EveryBatchHasItsPlace
  <2> QED
    BY <2>1 DEF IngestInv, OkMeansAllSaved, DroppedIsSaved
<1> QED
  BY <1>1, <1>2, <1>3, PTL DEF IngestSpec

-----------------------------------------------------------------------------
(* The limit of connections.  Who has a ticket for a semaphore holds its   *)
(* permit or stands in its line, once, and the semaphores that are alive   *)
(* belong to one IP each, under which the table has them.                  *)

LimitsType ==
    /\ DOMAIN ticket \subseteq Attempts
    /\ \A a \in DOMAIN ticket : ticket[a].ip \in PeerIps /\ ticket[a].semaphore \in Semaphores
    /\ waiting \in [Semaphores -> Seq(Attempts)]
    /\ holder \in [Semaphores -> Attempts \cup {"free"}]
TicketsOf(s) == {a \in DOMAIN ticket : ticket[a].semaphore = s}
LineIsRight(s) ==
    /\ IsInjective(waiting[s]) /\ holder[s] \notin ToSet(waiting[s])
    /\ ToSet(waiting[s]) \cup ({holder[s]} \ {"free"}) = TicketsOf(s)
    /\ holder[s] = "free" => TicketsOf(s) = {}
LinesAreRight == \A s \in Semaphores : LineIsRight(s)
TableIsRight ==
    /\ \A a \in DOMAIN ticket : ticket[a].ip \in DOMAIN ips /\ ips[ticket[a].ip] = ticket[a].semaphore
    /\ \A i \in DOMAIN ips : \E a \in DOMAIN ticket : ticket[a].ip = i
SemaphoresHaveOneIp ==
    \A a, b \in DOMAIN ticket : ticket[a].semaphore = ticket[b].semaphore => ticket[a].ip = ticket[b].ip
LimitsInv == LimitsType /\ LinesAreRight /\ TableIsRight /\ SemaphoresHaveOneIp

(* There is always a semaphore that is not in use: each ticket has one,    *)
(* and there is one more of them than of attempts.                         *)
LEMMA FreshSemaphore ==
    ASSUME LimitsInv
    PROVE  \E n \in Semaphores : n \notin Alive
<1> SUFFICES ASSUME Semaphores \subseteq Alive PROVE FALSE
  OBVIOUS
<1> DEFINE N == Cardinality(Attempts)
           D == DOMAIN ticket
<1>1. IsFiniteSet(Attempts) /\ N \in Nat
  BY AttemptAssumption, FS_CardinalityType
<1>2. IsFiniteSet(D) /\ Cardinality(D) <= N
  <2>1. D \subseteq Attempts
    BY DEF LimitsInv, LimitsType
  <2> QED
    BY <1>1, <2>1, FS_Subset
<1>3. IsFiniteSet(Alive) /\ Cardinality(Alive) <= Cardinality(D)
  <2> DEFINE f == [a \in D |-> ticket[a].semaphore]
  <2>1. f \in Surjection(D, Alive)
    BY DEF Surjection, Alive
  <2> HIDE DEF f, D
  <2> QED
    BY <1>2, <2>1, FS_Surjection
<1>4. IsFiniteSet(Semaphores) /\ Cardinality(Semaphores) = N + 1
  <2>1. 0 \in Int /\ N \in Int
    BY <1>1
  <2> HIDE DEF N
  <2>2. /\ IsFiniteSet(0..N)
        /\ Cardinality(0..N) = IF 0 > N THEN 0 ELSE N - 0 + 1
    BY <2>1, FS_Interval
  <2> QED
    BY <1>1, <2>2 DEF Semaphores, N
<1>5. Cardinality(Semaphores) <= Cardinality(Alive)
  BY <1>3, FS_Subset
<1>6. Cardinality(D) \in Nat /\ Cardinality(Alive) \in Nat
  BY <1>2, <1>3, FS_CardinalityType
<1> HIDE DEF N, D
<1> QED
  BY <1>1, <1>2, <1>3, <1>4, <1>5, <1>6

(* A semaphore that nobody has a ticket for is free.                       *)
LEMMA NobodyWaits ==
    ASSUME LimitsInv, NEW s \in Semaphores, TicketsOf(s) = {}
    PROVE  holder[s] = "free" /\ waiting[s] = <<>>
<1>1. ToSet(waiting[s]) = {} /\ {holder[s]} \ {"free"} = {}
  BY DEF LimitsInv, LinesAreRight, LineIsRight
<1>2. waiting[s] \in Seq(Attempts)
  BY DEF LimitsInv, LimitsType
<1>3. DOMAIN waiting[s] = 1..Len(waiting[s]) /\ Len(waiting[s]) \in Nat
  BY <1>2, LenProperties
<1>4. ASSUME waiting[s] # <<>> PROVE FALSE
  <2>1. Len(waiting[s]) # 0
    BY <1>2, <1>4, EmptySeq
  <2>2. 1 \in DOMAIN waiting[s]
    BY <1>3, <2>1
  <2> QED
    BY <1>1, <2>2, Member
<1> QED
  BY <1>1, <1>4

(* Which semaphore an attempt takes its ticket for: the one of its IP, or  *)
(* one that is nobody's.                                                   *)
LEMMA TakenSemaphore ==
    ASSUME LimitsInv, NEW i \in PeerIps, NEW s \in Semaphores,
           IF i \in DOMAIN ips /\ ips[i] \in Alive THEN s = ips[i]
           ELSE s = CHOOSE n \in Semaphores : n \notin Alive
    PROVE  /\ \A b \in DOMAIN ticket : ticket[b].semaphore = s <=> ticket[b].ip = i
           /\ i \in DOMAIN ips => s = ips[i]
<1>1. CASE i \in DOMAIN ips
  <2>1. PICK c \in DOMAIN ticket : ticket[c].ip = i
    BY <1>1 DEF LimitsInv, TableIsRight
  <2>2. ips[i] = ticket[c].semaphore
    BY <2>1 DEF LimitsInv, TableIsRight
  <2>3. ips[i] \in Alive
    BY <2>2 DEF Alive
  <2>4. s = ips[i]
    BY <1>1, <2>3
  <2> QED
    BY <2>1, <2>2, <2>4 DEF LimitsInv, TableIsRight, SemaphoresHaveOneIp
<1>2. CASE i \notin DOMAIN ips
  <2>1. s \notin Alive
    BY <1>2, FreshSemaphore
  <2>2. \A b \in DOMAIN ticket : ticket[b].semaphore # s
    BY <2>1 DEF Alive
  <2>3. \A b \in DOMAIN ticket : ticket[b].ip # i
    BY <1>2 DEF LimitsInv, TableIsRight
  <2> QED
    BY <1>2, <2>2, <2>3
<1> QED
  BY <1>1, <1>2

LEMMA AcquireForIpStep ==
    ASSUME LimitsInv, NEW a \in Attempts, NEW i \in PeerIps, acquire_for_ip(a, i)
    PROVE  LimitsInv'
<1>1. PICK s \in Semaphores :
        /\ IF i \in DOMAIN ips /\ ips[i] \in Alive THEN s = ips[i]
           ELSE s = CHOOSE n \in Semaphores : n \notin Alive
        /\ ips' = With(ips, i, s)
        /\ ticket' = With(ticket, a, [ip |-> i, semaphore |-> s])
        /\ IF holder[s] = "free" /\ waiting[s] = <<>>
           THEN holder' = [holder EXCEPT ![s] = a] /\ UNCHANGED waiting
           ELSE waiting' = [waiting EXCEPT ![s] = Append(@, a)] /\ UNCHANGED holder
  BY DEF acquire_for_ip
<1>2. a \notin DOMAIN ticket
  BY DEF acquire_for_ip
<1>3. /\ \A b \in DOMAIN ticket : ticket[b].semaphore = s <=> ticket[b].ip = i
      /\ i \in DOMAIN ips => s = ips[i]
  BY <1>1, TakenSemaphore
<1>4. /\ DOMAIN ticket' = DOMAIN ticket \cup {a}
      /\ ticket'[a] = [ip |-> i, semaphore |-> s]
      /\ \A b \in DOMAIN ticket : ticket'[b] = ticket[b]
  BY <1>1, <1>2 DEF With
<1>5. /\ DOMAIN ips' = DOMAIN ips \cup {i} /\ ips'[i] = s
      /\ \A j \in DOMAIN ips : ips'[j] = ips[j]
  BY <1>1, <1>3 DEF With
<1>6. TableIsRight' /\ SemaphoresHaveOneIp'
  <2>1. TableIsRight'
    BY <1>4, <1>5 DEF LimitsInv, TableIsRight
  <2>2. SemaphoresHaveOneIp'
    BY <1>3, <1>4 DEF LimitsInv, SemaphoresHaveOneIp
  <2> QED
    BY <2>1, <2>2
<1>7. /\ waiting \in [Semaphores -> Seq(Attempts)] /\ waiting[s] \in Seq(Attempts)
      /\ holder \in [Semaphores -> Attempts \cup {"free"}]
      /\ LineIsRight(s) /\ a # "free"
  BY AttemptAssumption DEF LimitsInv, LimitsType, LinesAreRight
<1>8. a \notin ToSet(waiting[s]) /\ a # holder[s]
  BY <1>2, <1>7 DEF LineIsRight, TicketsOf
<1>9. \A t \in Semaphores : TicketsOf(t)' = TicketsOf(t) \cup (IF t = s THEN {a} ELSE {})
  BY <1>2, <1>4 DEF TicketsOf
<1>10. /\ \A t \in Semaphores : t # s => holder'[t] = holder[t] /\ waiting'[t] = waiting[t]
       /\ waiting' \in [Semaphores -> Seq(Attempts)]
       /\ holder' \in [Semaphores -> Attempts \cup {"free"}]
  <2>1. Append(waiting[s], a) \in Seq(Attempts)
    BY <1>7, Joined
  <2> QED
    BY <1>1, <1>7, <2>1
<1>11. LimitsType'
  BY <1>4, <1>10 DEF LimitsInv, LimitsType
<1>12. \A t \in Semaphores : t # s => LineIsRight(t)'
  BY <1>9, <1>10 DEF LimitsInv, LinesAreRight, LineIsRight
<1>13. LineIsRight(s)'
  <2>1. TicketsOf(s)' = TicketsOf(s) \cup {a}
    BY <1>9
  <2>2. CASE holder[s] = "free"
    <3>1. waiting[s] = <<>>
      BY <1>7, <2>2, NobodyWaits DEF LineIsRight
    <3>2. holder'[s] = a /\ waiting' = waiting
      BY <1>1, <1>7, <2>2, <3>1
    <3> QED
      BY <1>7, <1>8, <2>1, <2>2, <3>2 DEF LineIsRight
  <2>3. CASE holder[s] # "free"
    <3>1. waiting'[s] = Append(waiting[s], a) /\ holder' = holder
      BY <1>1, <1>7, <2>3
    <3>2. ToSet(waiting'[s]) = ToSet(waiting[s]) \cup {a} /\ IsInjective(waiting'[s])
      BY <1>7, <1>8, <3>1, Joined DEF LineIsRight
    <3> QED
      BY <1>7, <1>8, <2>1, <2>3, <3>1, <3>2 DEF LineIsRight
  <2> QED
    BY <2>2, <2>3
<1> QED
  BY <1>6, <1>11, <1>12, <1>13 DEF LimitsInv, LinesAreRight

(* The line of a semaphore after one of its tickets is gone: the first in  *)
(* it gets the permit, or the one that gave up leaves its place.           *)
LEMMA LineAfterDrop ==
    ASSUME LimitsInv, NEW a \in Attempts, DropAttempt(a), NEW s, s = ticket[a].semaphore
    PROVE  /\ waiting' \in [Semaphores -> Seq(Attempts)]
           /\ holder' \in [Semaphores -> Attempts \cup {"free"}]
           /\ \A t \in Semaphores : t # s => holder'[t] = holder[t] /\ waiting'[t] = waiting[t]
           /\ IsInjective(waiting'[s]) /\ holder'[s] \notin ToSet(waiting'[s])
           /\ ToSet(waiting'[s]) \cup ({holder'[s]} \ {"free"}) = TicketsOf(s) \ {a}
           /\ holder'[s] = "free" => TicketsOf(s) \ {a} = {}
<1>1. /\ a \in DOMAIN ticket /\ s \in Semaphores
      /\ \/ holder[s] = a /\ Release(s)
         \/ /\ holder[s] # a /\ UNCHANGED holder
            /\ \E i \in DOMAIN waiting[s] :
                  waiting[s][i] = a /\ waiting' = [waiting EXCEPT ![s] = RemoveAt(@, i)]
  BY DEF DropAttempt, LimitsInv, LimitsType
<1>2. /\ waiting \in [Semaphores -> Seq(Attempts)] /\ waiting[s] \in Seq(Attempts)
      /\ holder \in [Semaphores -> Attempts \cup {"free"}]
      /\ LineIsRight(s) /\ a # "free" /\ "free" \notin Attempts
  BY <1>1, AttemptAssumption DEF LimitsInv, LimitsType, LinesAreRight
<1>3. CASE holder[s] = a /\ waiting[s] = <<>>
  <2>1. holder' = [holder EXCEPT ![s] = "free"] /\ waiting' = waiting
    BY <1>1, <1>3 DEF Release
  <2>2. TicketsOf(s) = {a}
    BY <1>2, <1>3, Nobody DEF LineIsRight
  <2> QED
    BY <1>1, <1>2, <1>3, <2>1, <2>2, Nobody DEF LineIsRight
<1>4. CASE holder[s] = a /\ waiting[s] # <<>>
  <2>1. holder' = [holder EXCEPT ![s] = Head(waiting[s])] /\ waiting' = [waiting EXCEPT ![s] = Tail(@)]
    BY <1>1, <1>4 DEF Release
  <2>2. /\ Tail(waiting[s]) \in Seq(Attempts) /\ Head(waiting[s]) \in Attempts
        /\ Head(waiting[s]) \in ToSet(waiting[s])
        /\ ToSet(Tail(waiting[s])) = ToSet(waiting[s]) \ {Head(waiting[s])}
        /\ IsInjective(Tail(waiting[s]))
    BY <1>2, <1>4, Served DEF LineIsRight
  <2>3. holder'[s] = Head(waiting[s]) /\ waiting'[s] = Tail(waiting[s])
    BY <1>1, <1>2, <2>1
  <2>4. /\ waiting' \in [Semaphores -> Seq(Attempts)]
        /\ holder' \in [Semaphores -> Attempts \cup {"free"}]
        /\ \A t \in Semaphores : t # s => holder'[t] = holder[t] /\ waiting'[t] = waiting[t]
    BY <1>2, <2>1, <2>2
  <2>5. ToSet(waiting'[s]) \cup ({holder'[s]} \ {"free"}) = TicketsOf(s) \ {a}
    BY <1>2, <1>4, <2>2, <2>3 DEF LineIsRight
  <2> QED
    BY <1>2, <2>2, <2>3, <2>4, <2>5
<1>5. CASE holder[s] # a
  <2>1. PICK i \in DOMAIN waiting[s] :
          waiting[s][i] = a /\ waiting' = [waiting EXCEPT ![s] = RemoveAt(@, i)]
    BY <1>1, <1>5
  <2>2. holder' = holder /\ i \in 1..Len(waiting[s])
    BY <1>1, <1>2, <1>5, LenProperties
  <2>3. /\ RemoveAt(waiting[s], i) \in Seq(Attempts)
        /\ ToSet(RemoveAt(waiting[s], i)) = ToSet(waiting[s]) \ {waiting[s][i]}
        /\ IsInjective(RemoveAt(waiting[s], i))
    BY <1>2, <2>2, TakenOut DEF LineIsRight
  <2>4. waiting'[s] = RemoveAt(waiting[s], i)
    BY <1>1, <1>2, <2>1
  <2>5. /\ waiting' \in [Semaphores -> Seq(Attempts)]
        /\ \A t \in Semaphores : t # s => waiting'[t] = waiting[t]
    BY <1>2, <2>1, <2>3
  <2> QED
    BY <1>2, <1>5, <2>1, <2>2, <2>3, <2>4, <2>5 DEF LineIsRight
<1> QED
  BY <1>3, <1>4, <1>5

LEMMA DropAttemptStep ==
    ASSUME LimitsInv, NEW a \in Attempts, DropAttempt(a)
    PROVE  LimitsInv'
<1> DEFINE s == ticket[a].semaphore
           more == \E b \in DOMAIN ticket \ {a} : ticket[b].semaphore = s
<1>1. /\ a \in DOMAIN ticket /\ ticket' = Without(ticket, a)
      /\ ips' = IF more THEN ips ELSE Without(ips, ticket[a].ip)
  BY DEF DropAttempt, DropTicket
<1>2. DOMAIN ticket' = DOMAIN ticket \ {a} /\ \A b \in DOMAIN ticket' : ticket'[b] = ticket[b]
  BY <1>1 DEF Without
<1>3. \A t : TicketsOf(t)' = TicketsOf(t) \ {a}
  BY <1>2 DEF TicketsOf
<1>4. /\ waiting' \in [Semaphores -> Seq(Attempts)]
      /\ holder' \in [Semaphores -> Attempts \cup {"free"}]
      /\ \A t \in Semaphores : t # s => holder'[t] = holder[t] /\ waiting'[t] = waiting[t]
      /\ IsInjective(waiting'[s]) /\ holder'[s] \notin ToSet(waiting'[s])
      /\ ToSet(waiting'[s]) \cup ({holder'[s]} \ {"free"}) = TicketsOf(s) \ {a}
      /\ holder'[s] = "free" => TicketsOf(s) \ {a} = {}
  BY LineAfterDrop
<1>5. LimitsType' /\ SemaphoresHaveOneIp'
  <2>1. LimitsType'
    BY <1>2, <1>4 DEF LimitsInv, LimitsType
  <2>2. SemaphoresHaveOneIp'
    BY <1>2 DEF LimitsInv, SemaphoresHaveOneIp
  <2> QED
    BY <2>1, <2>2
<1>6. LinesAreRight'
  <2>1. \A t \in Semaphores : t # s => LineIsRight(t)'
    <3> SUFFICES ASSUME NEW t \in Semaphores, t # s PROVE LineIsRight(t)'
      OBVIOUS
    <3>1. TicketsOf(t)' = TicketsOf(t)
      BY <1>3 DEF TicketsOf
    <3> QED
      BY <1>4, <3>1 DEF LimitsInv, LinesAreRight, LineIsRight
  <2>2. \A t \in Semaphores : t = s => LineIsRight(t)'
    BY <1>3, <1>4 DEF LineIsRight
  <2> QED
    BY <2>1, <2>2 DEF LinesAreRight
<1>7. TableIsRight'
  <2>1. CASE more
    <3>1. PICK b \in DOMAIN ticket \ {a} : ticket[b].semaphore = s
      BY <2>1
    <3>2. ticket[b].ip = ticket[a].ip /\ ips' = ips
      BY <1>1, <2>1, <3>1 DEF LimitsInv, SemaphoresHaveOneIp
    <3> QED
      BY <1>2, <3>1, <3>2 DEF LimitsInv, TableIsRight
  <2>2. CASE ~more
    <3>1. DOMAIN ips' = DOMAIN ips \ {ticket[a].ip} /\ \A j \in DOMAIN ips' : ips'[j] = ips[j]
      BY <1>1, <2>2 DEF Without
    <3>2. \A b \in DOMAIN ticket \ {a} : ticket[b].ip # ticket[a].ip
      BY <1>1, <2>2 DEF LimitsInv, TableIsRight
    <3> QED
      BY <1>2, <3>1, <3>2 DEF LimitsInv, TableIsRight
  <2> QED
    BY <2>1, <2>2
<1> QED
  BY <1>5, <1>6, <1>7 DEF LimitsInv

(* However many attempts come, wait, give up and end: at most one holds a  *)
(* permit for an IP, one does while any waits, and the table lists the IPs *)
(* with an attempt and no other.                                           *)
THEOREM ConnectionsAreLimited == LimitsSpec => []OneConnectionPerIp
<1>1. LimitsInit => LimitsInv
  <2> SUFFICES ASSUME LimitsInit PROVE LimitsInv
    OBVIOUS
  <2>1. /\ DOMAIN ticket = {} /\ DOMAIN ips = {}
        /\ \A s \in Semaphores : waiting[s] = <<>> /\ holder[s] = "free"
        /\ waiting \in [Semaphores -> Seq(Attempts)]
        /\ holder \in [Semaphores -> Attempts \cup {"free"}]
    BY Nobody DEF LimitsInit
  <2>2. \A s \in Semaphores : LineIsRight(s)
    BY <2>1, Nobody DEF LineIsRight, TicketsOf
  <2> QED
    BY <2>1, <2>2 DEF LimitsInv, LimitsType, LinesAreRight, TableIsRight, SemaphoresHaveOneIp
<1>2. LimitsInv /\ [LimitsNext]_limitVars => LimitsInv'
  <2> SUFFICES ASSUME LimitsInv, [LimitsNext]_limitVars PROVE LimitsInv'
    OBVIOUS
  <2>1. CASE UNCHANGED limitVars
    BY <2>1 DEF limitVars, LimitsInv, LimitsType, LinesAreRight, LineIsRight, TicketsOf,
                TableIsRight, SemaphoresHaveOneIp
  <2> QED
    BY <2>1, AcquireForIpStep, DropAttemptStep DEF LimitsNext
<1>3. LimitsInv => OneConnectionPerIp
  <2> SUFFICES ASSUME LimitsInv PROVE OneConnectionPerIp
    OBVIOUS
  <2>1. \A a, b \in Holding : ticket[a].ip = ticket[b].ip => a = b
    BY DEF Holding, LimitsInv, TableIsRight
  <2>2. ASSUME NEW a \in DOMAIN ticket PROVE \E b \in Holding : ticket[b].ip = ticket[a].ip
    <3> DEFINE s == ticket[a].semaphore
    <3>1. s \in Semaphores /\ a \in TicketsOf(s) /\ LineIsRight(s)
      BY DEF LimitsInv, LimitsType, TicketsOf, LinesAreRight
    <3>2. holder[s] # "free" /\ holder[s] \in TicketsOf(s)
      BY <3>1 DEF LineIsRight
    <3>3. holder[s] \in Holding /\ ticket[holder[s]].semaphore = s
      BY <3>2 DEF TicketsOf, Holding
    <3> QED
      BY <3>3 DEF Holding, LimitsInv, SemaphoresHaveOneIp
  <2>3. DOMAIN ips = {ticket[a].ip : a \in DOMAIN ticket}
    BY DEF LimitsInv, TableIsRight
  <2> QED
    BY <2>1, <2>2, <2>3 DEF OneConnectionPerIp
<1> QED
  BY <1>1, <1>2, <1>3, PTL DEF LimitsSpec

=============================================================================
