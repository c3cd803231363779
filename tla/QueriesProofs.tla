---------------------------- MODULE QueriesProofs ----------------------------
(***************************************************************************)
(* Machine-checked theorems about Queries, for any number of callers,      *)
(* contacts and addresses, any limits and any space of identifiers.        *)
(***************************************************************************)
EXTENDS Queries, FiniteSetTheorems, SequenceTheorems, TLAPS

-----------------------------------------------------------------------------
(* The channel and the queue: what joins, is served, is taken out or kept. *)

(* Who stands in a line.                                                   *)
LEMMA Member == \A s, x : x \in Range(s) <=> \E i \in DOMAIN s : s[i] = x
  BY DEF Range

(* Joining a line at its end.                                              *)
LEMMA Joined ==
    ASSUME NEW T, NEW s \in Seq(T), NEW e \in T
    PROVE  /\ Append(s, e) \in Seq(T)
           /\ Range(Append(s, e)) = Range(s) \cup {e}
           /\ IsInjective(s) /\ e \notin Range(s) => IsInjective(Append(s, e))
<1>1. /\ Append(s, e) \in Seq(T) /\ Len(Append(s, e)) = Len(s) + 1 /\ Len(s) \in Nat
      /\ \A i \in 1..Len(s) : Append(s, e)[i] = s[i]
      /\ Append(s, e)[Len(s) + 1] = e
      /\ DOMAIN s = 1..Len(s) /\ DOMAIN Append(s, e) = 1..(Len(s) + 1)
  BY AppendProperties, LenProperties
<1> QED
  BY <1>1 DEF Range, IsInjective

(* Leaving a line at its head.                                             *)
LEMMA Served ==
    ASSUME NEW T, NEW s \in Seq(T), s # <<>>, IsInjective(s)
    PROVE  /\ Tail(s) \in Seq(T) /\ Head(s) \in T /\ Head(s) = s[1]
           /\ Head(s) \in Range(s)
           /\ Range(Tail(s)) = Range(s) \ {Head(s)}
           /\ IsInjective(Tail(s))
           /\ Len(s) \in Nat /\ DOMAIN s = 1..Len(s) /\ DOMAIN Tail(s) = 1..(Len(s) - 1)
           /\ \A i \in 1..(Len(s) - 1) : Tail(s)[i] = s[i + 1]
<1>1. /\ Tail(s) \in Seq(T) /\ Head(s) \in T /\ Len(s) \in Nat
      /\ Len(Tail(s)) = Len(s) - 1
      /\ \A i \in 1..(Len(s) - 1) : Tail(s)[i] = s[i + 1]
      /\ DOMAIN s = 1..Len(s) /\ DOMAIN Tail(s) = 1..(Len(s) - 1)
      /\ Len(s) > 0
  BY HeadTailProperties, LenProperties, EmptySeq
<1>2. Head(s) = s[1]
  OBVIOUS
<1>3. \A j \in 1..Len(s) : j # 1 => j - 1 \in 1..(Len(s) - 1) /\ s[j] = Tail(s)[j - 1]
  BY <1>1
<1>4. Range(Tail(s)) = Range(s) \ {Head(s)}
  <2>1. \A i \in 1..(Len(s) - 1) : Tail(s)[i] # s[1] /\ i + 1 \in 1..Len(s)
    BY <1>1 DEF IsInjective
  <2>2. Range(Tail(s)) \subseteq Range(s) \ {s[1]}
    BY <1>1, <2>1 DEF Range
  <2>3. Range(s) \ {s[1]} \subseteq Range(Tail(s))
    <3> SUFFICES ASSUME NEW j \in 1..Len(s), s[j] # s[1] PROVE s[j] \in Range(Tail(s))
      BY <1>1, Member
    <3>1. j - 1 \in DOMAIN Tail(s) /\ s[j] = Tail(s)[j - 1]
      BY <1>1, <1>3
    <3> QED
      BY <3>1, Member
  <2> QED
    BY <1>2, <2>2, <2>3
<1>5. IsInjective(Tail(s))
  BY <1>1 DEF IsInjective
<1>6. Head(s) \in Range(s)
  <2>1. 1 \in DOMAIN s
    BY <1>1
  <2> QED
    BY <1>2, <2>1, Member
<1> QED
  BY <1>1, <1>2, <1>4, <1>5, <1>6

(* Taking the member at a place out of a line.                             *)
LEMMA TakenOut ==
    ASSUME NEW T, NEW s \in Seq(T), IsInjective(s), NEW i \in 1..Len(s)
    PROVE  /\ RemoveAt(s, i) \in Seq(T)
           /\ Range(RemoveAt(s, i)) = Range(s) \ {s[i]}
           /\ IsInjective(RemoveAt(s, i))
<1> DEFINE a == SubSeq(s, 1, i - 1)
           b == SubSeq(s, i + 1, Len(s))
           t == RemoveAt(s, i)
           n == Len(s)
<1>1. n \in Nat /\ DOMAIN s = 1..n /\ \A j \in 1..n : s[j] \in T
  BY LenProperties, ElementOfSeq
<1>2. /\ a \in Seq(T) /\ Len(a) = i - 1
      /\ \A j \in 1..(i - 1) : a[j] = s[j]
  <2>1. \A j \in 1..(i - 1) : s[j] \in T
    BY <1>1
  <2> HIDE DEF n
  <2>2. /\ a \in Seq(T) /\ Len(a) = IF 1 <= i - 1 THEN (i - 1) - 1 + 1 ELSE 0
        /\ \A j \in 1..((i - 1) - 1 + 1) : a[j] = s[1 + j - 1]
    BY <2>1, <1>1, SubSeqProperties DEF n
  <2> QED
    BY <1>1, <2>2 DEF n
<1>3. /\ b \in Seq(T) /\ Len(b) = n - i
      /\ \A j \in 1..(n - i) : b[j] = s[i + j]
  <2>1. \A j \in (i + 1)..n : s[j] \in T
    BY <1>1
  <2>2. /\ b \in Seq(T) /\ Len(b) = IF i + 1 <= n THEN n - (i + 1) + 1 ELSE 0
        /\ \A j \in 1..(n - (i + 1) + 1) : b[j] = s[(i + 1) + j - 1]
    BY <2>1, <1>1, SubSeqProperties
  <2>3. n - (i + 1) + 1 = n - i /\ (i + 1 <= n <=> n - i >= 1) /\ n - i \in Nat
    BY <1>1
  <2>4. \A j \in 1..(n - i) : (i + 1) + j - 1 = i + j
    BY <1>1
  <2> HIDE DEF n, b
  <2> QED
    BY <2>2, <2>3, <2>4
<1> HIDE DEF a, b
<1>4. t = a \o b
  BY DEF RemoveAt, a, b
<1>5. /\ t \in Seq(T) /\ Len(t) = n - 1
      /\ \A j \in 1..(n - 1) : t[j] = IF j <= i - 1 THEN a[j] ELSE b[j - (i - 1)]
  <2>1. /\ a \o b \in Seq(T) /\ Len(a \o b) = Len(a) + Len(b)
        /\ \A j \in 1..(Len(a) + Len(b)) : (a \o b)[j] = IF j <= Len(a) THEN a[j] ELSE b[j - Len(a)]
    BY <1>2, <1>3, ConcatProperties
  <2> HIDE DEF t
  <2> QED
    BY <1>1, <1>2, <1>3, <1>4, <2>1
<1> HIDE DEF t
<1>6. \A j \in 1..(n - 1) : t[j] = IF j < i THEN s[j] ELSE s[j + 1]
  <2> SUFFICES ASSUME NEW j \in 1..(n - 1) PROVE t[j] = IF j < i THEN s[j] ELSE s[j + 1]
    OBVIOUS
  <2>1. CASE j < i
    BY <1>1, <1>2, <1>5, <2>1
  <2>2. CASE ~(j < i)
    <3>1. j - (i - 1) \in 1..(n - i) /\ i + (j - (i - 1)) = j + 1
      BY <1>1, <2>2
    <3> QED
      BY <1>1, <1>3, <1>5, <2>2, <3>1
  <2> QED
    BY <2>1, <2>2
<1>7. DOMAIN t = 1..(n - 1)
  BY <1>5, LenProperties
<1>8. Range(t) \subseteq Range(s) \ {s[i]}
  BY <1>1, <1>6, <1>7 DEF Range, IsInjective
<1>9. Range(s) \ {s[i]} \subseteq Range(t)
  <2>1. \A j \in 1..n : j < i => j \in 1..(n - 1) /\ t[j] = s[j]
    BY <1>1, <1>6
  <2>2. \A j \in 1..n : j > i => j - 1 \in 1..(n - 1) /\ t[j - 1] = s[j]
    BY <1>1, <1>6
  <2>3. \A j \in 1..n : j = i \/ j < i \/ j > i
    BY <1>1
  <2> QED
    BY <1>1, <1>7, <2>1, <2>2, <2>3 DEF Range
<1>10. IsInjective(t)
  <2> DEFINE from(j) == IF j < i THEN j ELSE j + 1
  <2>1. \A j \in 1..(n - 1) : from(j) \in 1..n /\ t[j] = s[from(j)]
    BY <1>1, <1>6
  <2>2. \A j, k \in 1..(n - 1) : from(j) = from(k) => j = k
    BY <1>1
  <2>3. \A j, k \in 1..n : s[j] = s[k] => j = k
    BY <1>1 DEF IsInjective
  <2> HIDE DEF from
  <2>4. \A j, k \in 1..(n - 1) : t[j] = t[k] => j = k
    BY <2>1, <2>2, <2>3
  <2> QED
    BY <1>7, <2>4 DEF IsInjective
<1> QED
  BY <1>5, <1>8, <1>9, <1>10 DEF t

(* An empty line.                                                          *)
LEMMA Nobody == Range(<<>>) = {} /\ IsInjective(<<>>) /\ \A T : <<>> \in Seq(T)
  BY DEF Range, IsInjective

(* Sequence r is what q has at the places K, in their order.               *)
Keeps(r, q, K) ==
    \E s \in [1..Cardinality(K) -> K] : InOrder(s) /\ r = [i \in DOMAIN s |-> q[s[i]]]

(* All of K is kept, since an increasing list of as many places has them   *)
(* all.                                                                    *)
LEMMA Retained ==
    ASSUME NEW T, NEW q \in Seq(T), IsInjective(q), NEW K \in SUBSET DOMAIN q,
           NEW r, Keeps(r, q, K)
    PROVE  /\ r \in Seq(T) /\ IsInjective(r)
           /\ \A x : x \in Range(r) <=> \E i \in K : q[i] = x
<1> DEFINE n == Cardinality(K)
<1> PICK s \in [1..n -> K] : InOrder(s) /\ r = [i \in DOMAIN s |-> q[s[i]]]
  BY DEF Keeps
<1>1. DOMAIN q = 1..Len(q) /\ Len(q) \in Nat /\ \A i \in DOMAIN q : q[i] \in T
  BY LenProperties, ElementOfSeq
<1>2. IsFiniteSet(K) /\ n \in Nat
  <2>1. IsFiniteSet(DOMAIN q)
    BY <1>1, FS_Interval
  <2>2. IsFiniteSet(K)
    BY <2>1, FS_Subset
  <2> QED
    BY <2>2, FS_CardinalityType
<1>3. IsFiniteSet(1..n) /\ Cardinality(1..n) = n
  <2> HIDE DEF n
  <2> QED
    BY <1>2, FS_Interval
<1>4. IsInjective(s)
  <2> SUFFICES ASSUME NEW a \in 1..n, NEW b \in 1..n, s[a] = s[b] PROVE a = b
    BY DEF IsInjective
  <2>1. s[a] \in 1..Len(q) /\ s[b] \in 1..Len(q) /\ DOMAIN s = 1..n
    BY <1>1
  <2>2. (a < b => s[a] < s[b]) /\ (b < a => s[b] < s[a])
    BY <2>1 DEF InOrder
  <2> HIDE DEF n
  <2> QED
    BY <1>1, <1>2, <2>1, <2>2
<1>5. s \in Surjection(1..n, K)
  <2>1. s \in Injection(1..n, K)
    BY <1>4 DEF Injection
  <2> HIDE DEF n
  <2> QED
    BY <1>2, <1>3, <2>1, FS_Injection DEF n
<1>6. DOMAIN s = 1..n /\ DOMAIN r = 1..n /\ \A i \in 1..n : s[i] \in K /\ r[i] = q[s[i]]
  OBVIOUS
<1>7. \A k \in K : \E i \in 1..n : s[i] = k
  BY <1>5 DEF Surjection
<1> HIDE DEF n
<1>8. r \in Seq(T)
  <2>1. r \in [1..n -> T]
    BY <1>1, <1>6
  <2> QED
    BY <1>2, <2>1, SeqDef
<1>9. IsInjective(r)
  BY <1>4, <1>6 DEF IsInjective
<1>10. \A x : x \in Range(r) <=> \E i \in K : q[i] = x
  BY <1>6, <1>7 DEF Range
<1> QED
  BY <1>8, <1>9, <1>10

(* Two draws less than a turn of the counter apart have identifiers of     *)
(* their own.                                                              *)
LEMMA WithinATurn ==
    ASSUME NEW N \in Nat \ {0}, NEW a \in Nat, NEW b \in Nat, a < b, b < a + N
    PROVE  a % N # b % N
<1> SUFFICES ASSUME a % N = b % N PROVE FALSE
  OBVIOUS
<1> DEFINE d == (b \div N) - (a \div N)
<1>1. /\ a \div N \in Int /\ b \div N \in Int /\ a % N \in Int
      /\ a = N * (a \div N) + (a % N) /\ b = N * (b \div N) + (b % N)
  OBVIOUS
<1>2. d \in Int /\ N * d = b - a
  BY <1>1
<1> HIDE DEF d
<1>3. d <= 0 \/ d >= 1
  BY <1>2
<1>4. CASE d <= 0
  <2>1. N * d <= 0
    BY <1>2, <1>4
  <2> QED
    BY <1>2, <2>1
<1>5. CASE d >= 1
  <2>1. N * d >= N
    BY <1>2, <1>5
  <2> QED
    BY <1>2, <2>1
<1> QED
  BY <1>3, <1>4, <1>5

-----------------------------------------------------------------------------
(* Steps in which queries leave and none comes.                            *)

(* Whoever is in a table is named by one of its entries.                   *)
LEMMA TableOf == \A q : /\ q \in InTable <=> \E p \in pending : p.query = q
                        /\ q \in InTable' <=> \E p \in pending' : p.query = q
  BY DEF InTable

(* Channel and queue lose some of their members in order, the tables the   *)
(* entries with the identifiers G.                                         *)
Fewer(G) ==
    /\ transactions' = {t \in transactions : t.id \notin G}
    /\ pending' = {p \in pending : p.id \notin G}
    /\ queued' \in Seq(Askers) /\ IsInjective(queued') /\ Range(queued') \subseteq InQueue
    /\ commands' \in Seq(Callers) /\ IsInjective(commands')
    /\ Range(commands') \subseteq Range(commands)

(* The tables still agree, and nobody is in two places.                    *)
LEMMA FewerEntries ==
    ASSUME QueriesInv, NEW G, Fewer(G)
    PROVE  /\ NobodyAsksTwice' /\ TablesAgree'
           /\ transactions' \subseteq transactions /\ pending' \subseteq pending
           /\ InTable' \subseteq InTable /\ InQueue' \subseteq InQueue
<1>1. transactions' \subseteq transactions /\ pending' \subseteq pending
  BY DEF Fewer
<1>2. InTable' \subseteq InTable /\ InQueue' \subseteq InQueue
  BY <1>1, TableOf DEF Fewer, InQueue
<1>3. NobodyAsksTwice'
  BY <1>1, <1>2 DEF QueriesInv, NobodyAsksTwice, Fewer
<1>4. IsFiniteSet(transactions') /\ IsFiniteSet(pending')
  BY <1>1, FS_Subset DEF QueriesInv, TablesAgree
<1>5. {p.id : p \in pending'} = {t.id : t \in transactions'}
  <2>1. {p.id : p \in pending} = {t.id : t \in transactions}
    BY DEF QueriesInv, TablesAgree, Ids
  <2>2. \A i : (\E p \in pending : p.id = i) <=> (\E t \in transactions : t.id = i)
    BY <2>1
  <2>3. \A i : (\E p \in pending' : p.id = i) <=> (\E t \in transactions' : t.id = i)
    BY <2>2 DEF Fewer
  <2> QED
    BY <2>3
<1>6. TablesAgree'
  BY <1>1, <1>4, <1>5 DEF QueriesInv, TablesAgree, Ids
<1> QED
  BY <1>1, <1>2, <1>3, <1>6

(* A caller goes on, drops its future, or hears something true and is in   *)
(* no place any more.                                                      *)
Leaves(c) ==
    /\ \/ call'[c] = call[c]
       \/ call[c] = "waiting" /\ call'[c] = "dropped"
       \/ /\ call[c] = "waiting" /\ ~Held(c)'
          /\ call'[c] \in {"ok"} \cup Errors
          /\ call'[c] = "not_sent" => c \notin sent
          /\ call'[c] \in {"ok", "failed"} => c \in sent
          /\ call'[c] = "closed" => pc' = "ended"
    /\ call'[c] = "waiting" => Held(c)'

(* The types of the variables that the loop and the recovery have.         *)
LoopTyped ==
    /\ pc \in {"select", "command", "rotate", "outbound", "recover", "recovered", "ended"}
    /\ index \in Nat \ {0}
    /\ recovery \in [queued : SUBSET Contacts, active : SUBSET Contacts]
    /\ routing \subseteq Contacts /\ judged \subseteq Contacts /\ snapshot \subseteq Contacts
    /\ external \in BOOLEAN /\ identity_paused \in BOOLEAN

(* Callers, answers under way and history, when queries only leave.        *)
Departure(G) ==
    /\ Fewer(G)
    /\ \E f : call' = [c \in Callers |-> f[c]]
    /\ \A c \in Callers : Leaves(c)
    /\ pc = "ended" => pc' = "ended"
    /\ sent' = sent /\ crossed' = {} /\ net' \subseteq net
    /\ next_counter' \in Nat /\ next_counter' >= next_counter

(* All but the books of the recovery then follows.                         *)
LEMMA Departed ==
    ASSUME QueriesInv, NEW G, Departure(G), LoopTyped', RecoveryIsCounted'
    PROVE  QueriesInv'
<1>1. /\ NobodyAsksTwice' /\ TablesAgree'
      /\ transactions' \subseteq transactions /\ pending' \subseteq pending
      /\ InTable' \subseteq InTable /\ InQueue' \subseteq InQueue
  BY FewerEntries DEF Departure
<1>2. ASSUME NEW c \in Callers
      PROVE  /\ call[c] \in {"idle", "waiting", "dropped", "ok"} \cup Errors
             /\ call[c] = "waiting" => Held(c)
             /\ Held(c) => call[c] \in {"waiting", "dropped"}
             /\ c \in Range(commands) \cup InQueue => c \notin sent
             /\ c \in InTable => c \in sent
             /\ call[c] = "not_sent" => c \notin sent
             /\ call[c] \in {"ok", "failed"} => c \in sent
             /\ call[c] = "closed" => pc = "ended"
  BY DEF QueriesInv, TypeOK, CallersAreAccounted, AnswersAreTrue
<1>3. \A c : Held(c)' => Held(c)
  BY <1>1 DEF Held, Departure, Fewer
<1>4. ASSUME NEW c \in Callers
      PROVE  /\ call'[c] \in {"idle", "waiting", "dropped", "ok"} \cup Errors
             /\ call'[c] = "waiting" => Held(c)'
             /\ Held(c)' => call'[c] \in {"waiting", "dropped"}
             /\ call'[c] = "not_sent" => c \notin sent
             /\ call'[c] \in {"ok", "failed"} => c \in sent
             /\ call'[c] = "closed" => pc' = "ended"
  <2>1. Leaves(c) /\ (pc = "ended" => pc' = "ended")
    BY DEF Departure
  <2> QED
    BY <1>2, <1>3, <2>1 DEF Leaves, Errors
<1>5. CallersAreAccounted'
  <2>1. ASSUME NEW c \in Callers
        PROVE  /\ c \in Range(commands') \cup InQueue' => c \notin sent'
               /\ c \in InTable' => c \in sent'
    <3>1. sent' = sent /\ Range(commands') \subseteq Range(commands)
      BY DEF Departure, Fewer
    <3> QED
      BY <1>1, <1>2, <3>1
  <2> QED
    BY <1>4, <2>1 DEF CallersAreAccounted
<1>6. AnswersAreTrue'
  <2>1. sent' = sent /\ crossed' = {}
    BY DEF Departure
  <2> QED
    BY <1>4, <2>1 DEF AnswersAreTrue
<1>7. AnswersAreFresh'
  <2>1. /\ net' \subseteq net /\ next_counter \in Nat /\ next_counter' \in Nat
        /\ next_counter' >= next_counter
        /\ net \subseteq [id : 0..(IdSpace - 1), source : Addresses, draw : Nat]
    BY DEF Departure, QueriesInv, TypeOK
  <2>2. \A m \in net' : m.draw \in 1..next_counter' /\ m.id = (m.draw - 1) % IdSpace
    BY <2>1 DEF QueriesInv, AnswersAreFresh
  <2>3. \A t \in transactions', m \in net' : t.id = m.id => t.draw = m.draw
    BY <1>1, <2>1 DEF QueriesInv, AnswersAreFresh
  <2> QED
    BY <2>2, <2>3 DEF AnswersAreFresh
<1>8. TypeOK'
  <2>1. call' \in [Callers -> {"idle", "waiting", "dropped", "ok"} \cup Errors]
    <3>1. PICK f : call' = [c \in Callers |-> f[c]]
      BY DEF Departure
    <3> QED
      BY <1>4, <3>1
  <2>2. /\ commands' \in Seq(Callers) /\ queued' \in Seq(Askers)
        /\ next_counter' \in Nat /\ sent' = sent /\ crossed' = {} /\ net' \subseteq net
    BY DEF Departure, Fewer
  <2> QED
    BY <1>1, <2>1, <2>2 DEF QueriesInv, TypeOK, LoopTyped
<1> QED
  BY <1>1, <1>5, <1>6, <1>7, <1>8 DEF QueriesInv

-----------------------------------------------------------------------------
(* The start.                                                              *)

(* A node starts fresh, or with one query that has nearly outlived its     *)
(* identifier.                                                             *)
LEMMA InitQueries == Init => QueriesInv
<1> SUFFICES ASSUME Init PROVE QueriesInv
  OBVIOUS
<1>1. /\ MaxPending \in Nat /\ IdSpace \in Nat /\ IdSpace > MaxPending
      /\ reserve \in Nat /\ reserve >= 1
  BY LimitAssumption DEF reserve
<1>2. /\ pc = "select" /\ index = 1 /\ commands = <<>> /\ queued = <<>> /\ crossed = {}
      /\ recovery = [queued |-> Contacts, active |-> {}]
      /\ routing = {} /\ judged = {} /\ snapshot = {}
      /\ external = FALSE /\ identity_paused = FALSE
  BY DEF Init
<1>3. /\ Range(commands) = {} /\ InQueue = {} /\ IsInjective(commands) /\ IsInjective(queued)
      /\ commands \in Seq(Callers) /\ queued \in Seq(Askers)
  BY <1>2, Nobody DEF InQueue
<1> LoopTyped
  <2>1. external \in BOOLEAN /\ identity_paused \in BOOLEAN
    BY <1>2, Zenon
  <2> QED
    BY <1>2, <2>1 DEF LoopTyped
<1>4. CASE Fresh
  <2>1. InTable = {} /\ Ids = {}
    BY <1>4 DEF Fresh, InTable, Ids
  <2>2. TypeOK
    BY <1>2, <1>3, <1>4 DEF Fresh, TypeOK, LoopTyped
  <2>3. NobodyAsksTwice /\ RecoveryIsCounted
    BY <1>2, <1>3, <1>4, <2>1 DEF Fresh, NobodyAsksTwice, RecoveryIsCounted
  <2>4. TablesAgree
    BY <1>4, <2>1, FS_EmptySet DEF Fresh, TablesAgree
  <2>5. CallersAreAccounted /\ AnswersAreTrue
    BY <1>2, <1>3, <1>4, <2>1 DEF Fresh, CallersAreAccounted, AnswersAreTrue, Held
  <2>6. AnswersAreFresh
    BY <1>4 DEF Fresh, AnswersAreFresh
  <2> QED
    BY <2>2, <2>3, <2>4, <2>5, <2>6 DEF QueriesInv
<1>5. ASSUME NEW c \in Callers, MaxPending - reserve > 0, Seasoned(c) PROVE QueriesInv
  <2> DEFINE t == [id |-> 0, draw |-> 1, destination |-> Address[c]]
             p == [id |-> 0, query |-> c]
             m == [id |-> 0, source |-> Address[c], draw |-> 1]
  <2>1. /\ transactions = {t} /\ pending = {p} /\ net = {m}
        /\ next_counter = IdSpace - 1 /\ sent = {c}
        /\ call = [d \in Callers |-> IF d = c THEN "waiting" ELSE "idle"]
    BY <1>5 DEF Seasoned
  <2>2. IdSpace - 1 \in Nat /\ IdSpace - 1 >= 1 /\ 0 % IdSpace = 0 /\ 0 \in 0..(IdSpace - 1)
    BY <1>1, <1>5
  <2>3. InTable = {c} /\ Ids = {0} /\ {r.id : r \in pending} = {0}
    BY <2>1 DEF InTable, Ids
  <2>4. Address[c] \in Addresses /\ c \in Askers /\ c \notin Contacts
    BY AskerAssumption DEF Askers
  <2>5. TypeOK
    <3>1. /\ transactions \subseteq [id : 0..(IdSpace - 1), draw : Nat, destination : Addresses]
          /\ pending \subseteq [id : 0..(IdSpace - 1), query : Askers]
          /\ net \subseteq [id : 0..(IdSpace - 1), source : Addresses, draw : Nat]
      BY <2>1, <2>2, <2>4
    <3>2. call \in [Callers -> {"idle", "waiting", "dropped", "ok"} \cup Errors]
      BY <2>1
    <3> QED
      BY <1>2, <1>3, <2>1, <2>2, <3>1, <3>2 DEF TypeOK, LoopTyped
  <2>6. NobodyAsksTwice /\ RecoveryIsCounted
    BY <1>2, <1>3, <2>1, <2>3, <2>4 DEF NobodyAsksTwice, RecoveryIsCounted
  <2>7. TablesAgree
    <3>1. t.destination = Address[p.query]
      OBVIOUS
    <3>2. IsFiniteSet({t}) /\ IsFiniteSet({p})
      BY FS_Singleton
    <3> HIDE DEF t, p
    <3> QED
      BY <2>1, <2>3, <3>1, <3>2 DEF TablesAgree
  <2>8. CallersAreAccounted /\ AnswersAreTrue
    BY <1>2, <1>3, <2>1, <2>3 DEF CallersAreAccounted, AnswersAreTrue, Held
  <2>9. AnswersAreFresh
    <3>1. m.draw = 1 /\ m.id = 0 /\ t.draw = 1
      OBVIOUS
    <3> HIDE DEF m, t
    <3> QED
      BY <2>1, <2>2, <3>1 DEF AnswersAreFresh
  <2> QED
    BY <2>5, <2>6, <2>7, <2>8, <2>9 DEF QueriesInv
<1> QED
  BY <1>4, <1>5 DEF Init

-----------------------------------------------------------------------------
(* The steps.                                                              *)

(* Nothing leaves.                                                         *)
LEMMA NoneLeaves ==
    ASSUME QueriesInv, UNCHANGED <<commands, tableVars>>
    PROVE  /\ Fewer({}) /\ next_counter' \in Nat /\ next_counter' >= next_counter
           /\ InTable' = InTable /\ InQueue' = InQueue /\ \A c : Held(c)' <=> Held(c)
<1>1. /\ transactions' = transactions /\ pending' = pending /\ queued' = queued
      /\ commands' = commands /\ next_counter' = next_counter
  BY DEF tableVars
<1>2. InTable' = InTable /\ InQueue' = InQueue /\ \A c : Held(c)' <=> Held(c)
  BY <1>1 DEF InTable, InQueue, Held
<1>3. /\ transactions = {t \in transactions : t.id \notin {}}
      /\ pending = {p \in pending : p.id \notin {}}
  OBVIOUS
<1> QED
  BY <1>1, <1>2, <1>3 DEF Fewer, QueriesInv, TypeOK, NobodyAsksTwice, InQueue

(* Types of the loop, and that a caller is a function of the callers.      *)
LEMMA Typed ==
    ASSUME QueriesInv
    PROVE  /\ LoopTyped /\ call = [c \in Callers |-> call[c]] /\ crossed = {}
           /\ next_counter \in Nat
           /\ \A c \in Callers : call[c] = "waiting" => Held(c)
  BY DEF QueriesInv, TypeOK, LoopTyped, AnswersAreTrue, CallersAreAccounted

(* The loop moves on, or a caller drops its future.                        *)
LEMMA QuietStep ==
    ASSUME QueriesInv,
           NoRecovery \/ Wake \/ ScanEnds \/ Blocked \/ Ended \/ UNCHANGED vars
             \/ \E c \in Callers : DropCall(c)
    PROVE  QueriesInv'
<1>1. UNCHANGED <<commands, net, sent, crossed, tableVars, contactVars, identityVars>>
  BY DEF NoRecovery, Wake, ScanEnds, Blocked, Ended, DropCall, vars, callerVars, tableVars,
         contactVars, identityVars, InScan
<1>2. /\ recovery' = recovery /\ identity_paused' = identity_paused
      /\ routing' = routing /\ judged' = judged /\ snapshot' = snapshot /\ external' = external
      /\ net' = net /\ sent' = sent /\ crossed' = crossed
  BY <1>1 DEF contactVars, identityVars
<1>3. /\ Fewer({}) /\ next_counter' \in Nat /\ next_counter' >= next_counter
      /\ InTable' = InTable /\ InQueue' = InQueue /\ \A c : Held(c)' <=> Held(c)
  BY <1>1, NoneLeaves DEF tableVars
<1>4. /\ pc' \in {"select", "command", "rotate", "outbound", "recover", "recovered", "ended"}
      /\ pc' = "ended" <=> pc = "ended"
      /\ pc' = "recover" => ~identity_paused
  <2>1. LoopTyped /\ (pc = "recover" => ~identity_paused)
    BY Typed DEF QueriesInv, RecoveryIsCounted
  <2>2. CASE pc' = pc
    BY <2>1, <2>2 DEF LoopTyped
  <2>3. CASE NoRecovery
    BY <2>3 DEF NoRecovery
  <2>4. CASE Wake
    BY <2>4 DEF Wake, AfterEvent
  <2>5. CASE ScanEnds
    BY <2>5 DEF ScanEnds, AfterScan, AfterEvent, MayRecover
  <2> QED
    BY <2>2, <2>3, <2>4, <2>5 DEF Blocked, InScan, Ended, DropCall, vars
<1>5. index' \in Nat \ {0}
  <2>1. index \in Nat \ {0}
    BY DEF QueriesInv, TypeOK
  <2>2. index' = index \/ index' = 1 \/ index' = index + 1
    BY Zenon DEF NoRecovery, Wake, ScanEnds, Blocked, Ended, DropCall, vars
  <2> QED
    BY <2>1, <2>2
<1>6. LoopTyped'
  BY <1>2, <1>4, <1>5, Typed DEF LoopTyped
<1>7. RecoveryIsCounted'
  BY <1>2, <1>3, <1>4 DEF QueriesInv, RecoveryIsCounted
<1>8. /\ \E f : call' = [c \in Callers |-> f[c]]
      /\ \A c \in Callers : call'[c] = call[c] \/ (call[c] = "waiting" /\ call'[c] = "dropped")
  <2>1. CASE call' = call
    BY <2>1, Typed
  <2>2. ASSUME NEW c \in Callers, DropCall(c)
        PROVE  /\ \E f : call' = [d \in Callers |-> f[d]]
               /\ \A d \in Callers : \/ call'[d] = call[d]
                                     \/ call[d] = "waiting" /\ call'[d] = "dropped"
    <3>1. call' = [call EXCEPT ![c] = "dropped"] /\ call[c] = "waiting"
      BY <2>2 DEF DropCall
    <3>2. call' = [d \in Callers |-> call'[d]]
      BY <3>1, Typed
    <3> QED
      BY <3>1, <3>2, Typed
  <2> QED
    BY <2>1, <2>2 DEF NoRecovery, Wake, ScanEnds, Blocked, Ended, vars, callerVars
<1>9. \A c \in Callers : Leaves(c)
  BY <1>3, <1>8, Typed DEF Leaves
<1>10. Departure({})
  BY <1>2, <1>3, <1>4, <1>8, <1>9, Typed DEF Departure
<1> QED
  BY <1>6, <1>7, <1>10, Departed

(* What a step tells the callers among Q, who are no longer held.          *)
LEMMA Hearing ==
    ASSUME QueriesInv, NEW Q, NEW result \in {"ok", "not_sent", "withdrawn", "failed"},
           call' = Told(Q, result),
           \A c \in Callers : Held(c) /\ ~Held(c)' /\ call[c] = "waiting" => c \in Q,
           \A c \in Q \cap Callers : /\ ~Held(c)'
                                     /\ result = "not_sent" => c \notin sent
                                     /\ result \in {"ok", "failed"} => c \in sent
    PROVE  (\E f : call' = [c \in Callers |-> f[c]]) /\ \A c \in Callers : Leaves(c)
<1>1. call' = [c \in Callers |-> IF c \in Q /\ call[c] = "waiting" THEN result ELSE call[c]]
  BY DEF Told
<1>2. ASSUME NEW c \in Callers PROVE Leaves(c)
  <2>1. call'[c] = IF c \in Q /\ call[c] = "waiting" THEN result ELSE call[c]
    BY <1>1
  <2>2. CASE c \in Q /\ call[c] = "waiting"
    BY <2>1, <2>2 DEF Leaves, Errors
  <2>3. CASE ~(c \in Q /\ call[c] = "waiting")
    BY <2>1, <2>3, Typed DEF Leaves
  <2> QED
    BY <2>2, <2>3
<1>3. call' = [c \in Callers |-> call'[c]]
  BY <1>1
<1> QED
  BY <1>2, <1>3

(* Verifications Q that end leave the books of the recovery.               *)
LEMMA Finished ==
    ASSUME QueriesInv, NEW Q, recovery' = finished(Q)
    PROVE  /\ recovery' \in [queued : SUBSET Contacts, active : SUBSET Contacts]
           /\ recovery'.queued = recovery.queued /\ recovery'.active = recovery.active \ Q
<1>1. recovery \in [queued : SUBSET Contacts, active : SUBSET Contacts]
  BY DEF QueriesInv, TypeOK
<1> QED
  BY <1>1 DEF finished

(* Callers and contacts are different.                                     *)
LEMMA AskerKinds == /\ \A q \in Askers : q \in Callers \/ q \in Contacts
                    /\ \A q \in Callers : q \notin Contacts
                    /\ \A q \in Askers : Address[q] \in Addresses
  BY AskerAssumption DEF Askers

(* Registering and cancelling again leaves the tables as they were.        *)
LEMMA NotRegistered ==
    ASSUME QueriesInv, NEW k \in Draws, FirstFree(k)
    PROVE  /\ Without(transactions, Drawn(k).id) = transactions
           /\ Without(pending, Drawn(k).id) = pending
<1>1. Drawn(k).id = (next_counter + k) % IdSpace
  BY DEF Drawn
<1>2. Drawn(k).id \notin {t.id : t \in transactions} /\ Drawn(k).id \notin {p.id : p \in pending}
  BY <1>1 DEF FirstFree, QueriesInv, TablesAgree, Ids
<1>3. \A t \in transactions : t.id # Drawn(k).id
  BY <1>2
<1>4. \A p \in pending : p.id # Drawn(k).id
  BY <1>2
<1> QED
  BY <1>3, <1>4 DEF Without

(* A query leaves the queue: its caller is gone, its time is up, or it     *)
(* cannot be sent.                                                         *)
LEMMA DequeueStep ==
    ASSUME QueriesInv,
           ReclaimQueued \/ QueueTimeout \/ \E q \in Askers, k \in Draws : send_fails(q, k)
    PROVE  QueriesInv'
<1> DEFINE q == queued[index]
<1>1. /\ Scanning /\ Dequeued /\ InScan
      /\ UNCHANGED <<index, sent, judged>>
  BY DEF ReclaimQueued, QueueTimeout, send_fails, MaySend
<1>2. /\ queued \in Seq(Askers) /\ IsInjective(queued) /\ index \in 1..Len(queued)
      /\ q \in Askers
  <2>1. queued \in Seq(Askers) /\ IsInjective(queued)
    BY DEF QueriesInv, TypeOK, NobodyAsksTwice
  <2>2. DOMAIN queued = 1..Len(queued) /\ \A i \in 1..Len(queued) : queued[i] \in Askers
    BY <2>1, LenProperties, ElementOfSeq
  <2> QED
    BY <1>1, <2>1, <2>2 DEF Scanning
<1>3. /\ queued' \in Seq(Askers) /\ IsInjective(queued') /\ InQueue' = InQueue \ {q}
      /\ q \in InQueue
  <2>1. queued' = RemoveAt(queued, index)
    BY <1>1 DEF Dequeued
  <2>2. /\ RemoveAt(queued, index) \in Seq(Askers) /\ IsInjective(RemoveAt(queued, index))
        /\ Range(RemoveAt(queued, index)) = Range(queued) \ {queued[index]}
    BY <1>2, TakenOut
  <2>3. q \in Range(queued)
    BY <1>1 DEF Scanning, Range
  <2> QED
    BY <2>1, <2>2, <2>3 DEF InQueue
<1>4. /\ transactions' = transactions /\ pending' = pending /\ net' \subseteq net
      /\ next_counter' \in Nat /\ next_counter' >= next_counter
  <2>1. CASE ReclaimQueued \/ QueueTimeout
    BY <2>1, Typed DEF ReclaimQueued, QueueTimeout
  <2>2. ASSUME NEW r \in Askers, NEW k \in Draws, send_fails(r, k)
        PROVE  /\ transactions' = transactions /\ pending' = pending /\ net' \subseteq net
               /\ next_counter' \in Nat /\ next_counter' >= next_counter
    <3>1. /\ FirstFree(k) /\ next_counter' = next_counter + k + 1
          /\ net' = {m \in net : Drawn(k).draw < m.draw + IdSpace}
          /\ transactions' = Without(transactions, Drawn(k).id)
          /\ pending' = Without(pending, Drawn(k).id)
      BY <2>2 DEF send_fails
    <3>2. k \in Nat
      BY LimitAssumption DEF Draws
    <3>3. transactions' = transactions /\ pending' = pending
      BY <3>1, NotRegistered
    <3> QED
      BY <3>1, <3>2, <3>3, Typed
  <2> QED
    BY <2>1, <2>2
<1>5. /\ commands' = commands /\ pc' = pc /\ crossed' = crossed /\ routing' = routing
      /\ snapshot' = snapshot /\ external' = external /\ identity_paused' = identity_paused
      /\ index' = index /\ sent' = sent /\ judged' = judged
  BY <1>1 DEF InScan, identityVars
<1>6. InTable' = InTable /\ Range(commands)' = Range(commands)
  BY <1>4, <1>5 DEF InTable
<1>7. /\ \A x : Held(x)' <=> Held(x) /\ x # q
  BY <1>3, <1>6 DEF Held, QueriesInv, NobodyAsksTwice
<1>8. Fewer({})
  <2>1. /\ commands \in Seq(Callers) /\ IsInjective(commands)
    BY DEF QueriesInv, TypeOK, NobodyAsksTwice
  <2>2. transactions = {t \in transactions : t.id \notin {}}
        /\ pending = {p \in pending : p.id \notin {}}
    OBVIOUS
  <2>3. Range(queued') \subseteq InQueue
    BY <1>3 DEF InQueue
  <2> QED
    BY <1>3, <1>4, <1>5, <2>1, <2>2, <2>3 DEF Fewer
<1>9. /\ (\E f : call' = [c \in Callers |-> f[c]]) /\ \A c \in Callers : Leaves(c)
      /\ recovery' \in [queued : SUBSET Contacts, active : SUBSET Contacts]
      /\ recovery'.queued = recovery.queued /\ recovery'.active = recovery.active \ {q}
  <2>1. CASE ReclaimQueued
    <3>1. q \in Callers /\ call[q] = "dropped" /\ call' = call /\ recovery' = recovery
      BY <2>1 DEF ReclaimQueued, cancelled
    <3>2. \A c \in Callers : Leaves(c)
      BY <1>7, <3>1, Typed DEF Leaves
    <3>3. recovery \in [queued : SUBSET Contacts, active : SUBSET Contacts]
      BY DEF QueriesInv, TypeOK
    <3>4. recovery.active = recovery.active \ {q}
      BY <3>1, <3>3, AskerKinds
    <3> QED
      BY <3>1, <3>2, <3>3, <3>4, Typed
  <2>2. CASE ~ReclaimQueued
    <3>1. call' = Told({q}, "not_sent") /\ recovery' = finished({q})
      BY <2>2 DEF QueueTimeout, send_fails, MaySend, finish_start_error
    <3>2. q \in Callers => q \notin sent
      BY <1>3 DEF QueriesInv, CallersAreAccounted
    <3>3. (\E f : call' = [c \in Callers |-> f[c]]) /\ \A c \in Callers : Leaves(c)
      <4>1. \A c \in Callers : Held(c) /\ ~Held(c)' /\ call[c] = "waiting" => c \in {q}
        BY <1>7
      <4>2. \A c \in {q} \cap Callers : ~Held(c)' /\ c \notin sent
        BY <1>7, <3>2
      <4> HIDE DEF q
      <4> QED
        BY <3>1, <4>1, <4>2, Hearing
    <3> QED
      BY <3>1, <3>3, Finished
  <2> QED
    BY <2>1, <2>2
<1> HIDE DEF q
<1>10. Departure({})
  BY <1>4, <1>5, <1>8, <1>9, Typed DEF Departure
<1>11. LoopTyped'
  BY <1>5, <1>9, Typed DEF LoopTyped
<1>12. RecoveryIsCounted'
  <2>1. pc # "ended" /\ ~identity_paused =>
          recovery'.active = (InQueue' \cup InTable') \cap Contacts
    BY <1>3, <1>6, <1>9 DEF QueriesInv, RecoveryIsCounted, NobodyAsksTwice
  <2> QED
    BY <1>5, <1>9, <2>1 DEF QueriesInv, RecoveryIsCounted
<1> QED
  BY <1>10, <1>11, <1>12, Departed

(* The queries whose identifiers are in G.                                 *)
QueriesOf(G) == {p.query : p \in {x \in pending : x.id \in G}}

(* They were sent, and once their entries are gone they are nowhere.       *)
LEMMA Unregistered ==
    ASSUME QueriesInv, NEW G, UNCHANGED <<queued, commands>>,
           transactions' = {t \in transactions : t.id \notin G},
           pending' = {p \in pending : p.id \notin G}
    PROVE  /\ Fewer(G) /\ InQueue' = InQueue /\ InTable' = InTable \ QueriesOf(G)
           /\ \A q : Held(q)' <=> Held(q) /\ q \notin QueriesOf(G)
           /\ \A q \in QueriesOf(G) : q \in InTable /\ (q \in Callers => q \in sent)
<1>1. Fewer(G)
  BY DEF Fewer, QueriesInv, TypeOK, NobodyAsksTwice, InQueue
<1>2. \A q : q \in QueriesOf(G) <=> \E p \in pending : p.query = q /\ p.id \in G
  BY DEF QueriesOf
<1>3. \A q : q \in InTable' <=> q \in InTable /\ q \notin QueriesOf(G)
  BY <1>2, TableOf DEF QueriesInv, NobodyAsksTwice
<1>4. \A q \in QueriesOf(G) : q \in InTable /\ (q \in Callers => q \in sent)
  BY <1>2, TableOf DEF QueriesInv, CallersAreAccounted
<1>5. InQueue' = InQueue /\ Range(commands)' = Range(commands)
  BY DEF InQueue
<1>6. \A q : Held(q)' <=> Held(q) /\ q \notin QueriesOf(G)
  BY <1>3, <1>4, <1>5 DEF Held, QueriesInv, NobodyAsksTwice
<1> QED
  BY <1>1, <1>3, <1>4, <1>5, <1>6

(* The rest of a step that ends the queries of G and tells their callers.  *)
LEMMA EndedQueries ==
    ASSUME QueriesInv, NEW G, NEW result \in {"ok", "failed"},
           UNCHANGED <<queued, commands, net, sent, next_counter, snapshot,
                       identity_paused, index>>,
           transactions' = {t \in transactions : t.id \notin G},
           pending' = {p \in pending : p.id \notin G},
           call' = Told(QueriesOf(G), result), recovery' = finished(QueriesOf(G)),
           crossed' = {}, routing' \subseteq Contacts, judged' \subseteq Contacts,
           external' \in BOOLEAN, pc = "select", pc' \in {"select", "rotate", "outbound"}
    PROVE  QueriesInv'
<1>1. /\ Fewer(G) /\ InQueue' = InQueue /\ InTable' = InTable \ QueriesOf(G)
      /\ \A q : Held(q)' <=> Held(q) /\ q \notin QueriesOf(G)
      /\ \A q \in QueriesOf(G) : q \in InTable /\ (q \in Callers => q \in sent)
  BY Unregistered
<1>2. (\E f : call' = [c \in Callers |-> f[c]]) /\ \A c \in Callers : Leaves(c)
  <2>1. \A c \in Callers : Held(c) /\ ~Held(c)' /\ call[c] = "waiting" => c \in QueriesOf(G)
    BY <1>1
  <2>2. \A c \in QueriesOf(G) \cap Callers : ~Held(c)' /\ c \in sent
    BY <1>1
  <2> QED
    BY <2>1, <2>2, Hearing
<1>3. /\ recovery' \in [queued : SUBSET Contacts, active : SUBSET Contacts]
      /\ recovery'.queued = recovery.queued
      /\ recovery'.active = recovery.active \ QueriesOf(G)
  BY Finished
<1>4. Departure(G)
  BY <1>1, <1>2, Typed DEF Departure
<1>5. LoopTyped'
  BY <1>3, Typed DEF LoopTyped
<1>6. RecoveryIsCounted'
  <2>1. ~identity_paused => recovery'.active = (InQueue' \cup InTable') \cap Contacts
    BY <1>1, <1>3 DEF QueriesInv, RecoveryIsCounted, NobodyAsksTwice
  <2> QED
    BY <1>3, <2>1 DEF QueriesInv, RecoveryIsCounted
<1> QED
  BY <1>4, <1>5, <1>6, Departed

(* A datagram that matches ends one query.  It comes from the address that *)
(* was asked, and if it answers a query of this node, it answers this one. *)
LEMMA ReceiveStep ==
    ASSUME QueriesInv, NEW m \in net \cup Strays, NEW t \in transactions, NEW p \in pending,
           NEW v \in {"ok", "failed"}, handle_received(m, t, p, v)
    PROVE  QueriesInv'
<1>1. /\ pc = "select" /\ Matches(t, m) /\ p.id = t.id
      /\ transactions' = Without(transactions, m.id) /\ pending' = Without(pending, m.id)
      /\ call' = Told({p.query}, v) /\ recovery' = finished({p.query})
      /\ judged' = judged \cup ({p.query} \cap Contacts)
      /\ crossed' = IF v = "ok" /\ (m.draw \notin {0, t.draw} \/ m.source # Address[p.query])
                    THEN crossed \cup {p.query} ELSE crossed
      /\ routing' \in {routing, routing \cup (IF v = "ok" THEN {p.query} \cap Contacts ELSE {})}
      /\ external' \in {external, rotations < MaxRotations}
      /\ pc' = AfterEvent(external')
      /\ UNCHANGED <<index, commands, net, calls, sent, queued, next_counter,
                     snapshot, identity_paused, rotations>>
  BY DEF handle_received
<1>2. t.id = m.id /\ t.destination = m.source
  BY <1>1 DEF Matches
<1>3. m.source = Address[p.query]
  BY <1>1, <1>2 DEF QueriesInv, TablesAgree
<1>4. m.draw \in {0, t.draw}
  <2>1. CASE m \in net
    BY <1>2, <2>1 DEF QueriesInv, AnswersAreFresh
  <2>2. CASE m \in Strays
    BY <2>2 DEF Strays
  <2> QED
    BY <2>1, <2>2
<1>5. crossed' = {}
  BY <1>1, <1>3, <1>4, Typed
<1>6. QueriesOf({m.id}) = {p.query}
  <2>1. \A x \in pending : x.id = m.id <=> x = p
    BY <1>1, <1>2 DEF QueriesInv, TablesAgree
  <2>2. {x \in pending : x.id \in {m.id}} = {p}
    BY <2>1
  <2> QED
    BY <2>2 DEF QueriesOf
<1>7. /\ transactions' = {u \in transactions : u.id \notin {m.id}}
      /\ pending' = {x \in pending : x.id \notin {m.id}}
  BY <1>1 DEF Without
<1>8. routing' \subseteq Contacts /\ judged' \subseteq Contacts
  BY <1>1 DEF QueriesInv, TypeOK
<1>9. external' \in BOOLEAN
  <2>1. external \in BOOLEAN /\ (rotations < MaxRotations) \in BOOLEAN
    BY DEF QueriesInv, TypeOK
  <2> QED
    BY <1>1, <2>1, Zenon
<1>10. pc' \in {"select", "rotate", "outbound"}
  BY <1>1 DEF AfterEvent
<1> QED
  BY <1>1, <1>5, <1>6, <1>7, <1>8, <1>9, <1>10, EndedQueries

(* The deadlines of some queries have passed.                              *)
LEMMA ExpireStep ==
    ASSUME QueriesInv, NEW last \in transactions, expire_transactions(last)
    PROVE  QueriesInv'
<1> DEFINE G == {t.id : t \in {u \in transactions : u.draw <= last.draw}}
<1>1. /\ pc = "select" /\ pc' = AfterEvent(FALSE)
      /\ transactions' = {t \in transactions : t.id \notin G}
      /\ pending' = {p \in pending : p.id \notin G}
      /\ finish_network_failure(QueriesOf(G), "failed")
      /\ UNCHANGED <<index, commands, net, calls, sent, crossed, queued,
                     next_counter, routing, snapshot, identityVars>>
  BY DEF expire_transactions, QueriesOf
<1> HIDE DEF G
<1>2. /\ call' = Told(QueriesOf(G), "failed") /\ recovery' = finished(QueriesOf(G))
      /\ judged' = judged \cup (QueriesOf(G) \cap Contacts)
  BY <1>1 DEF finish_network_failure
<1>3. /\ crossed' = {} /\ routing' \subseteq Contacts /\ judged' \subseteq Contacts
      /\ pc' \in {"select", "rotate", "outbound"}
  BY <1>1, <1>2, Typed DEF QueriesInv, TypeOK, AfterEvent
<1>4. external' = external /\ identity_paused' = identity_paused /\ external \in BOOLEAN
  BY <1>1 DEF identityVars, QueriesInv, TypeOK
<1>5. external' \in BOOLEAN
  BY <1>4, Zenon
<1> QED
  BY <1>1, <1>2, <1>3, <1>4, <1>5, EndedQueries

(* Queries whose callers are gone leave queue and tables, and no others.   *)
LEMMA CancelStep ==
    ASSUME QueriesInv, cancel_fetch_queries
    PROVE  QueriesInv'
<1> DEFINE G == {p.id : p \in {x \in pending : cancelled(x.query)}}
<1>1. /\ pc = "select" /\ pc' = AfterEvent(FALSE)
      /\ \E s \in [1..Cardinality(Kept) -> Kept] :
            InOrder(s) /\ queued' = [i \in DOMAIN s |-> queued[s[i]]]
      /\ transactions' = {t \in transactions : t.id \notin G}
      /\ pending' = {p \in pending : p.id \notin G}
      /\ UNCHANGED <<index, commands, net, callerVars, next_counter, contactVars, identityVars>>
  BY DEF cancel_fetch_queries
<1>2. /\ call' = call /\ sent' = sent /\ crossed' = crossed /\ recovery' = recovery
      /\ routing' = routing /\ judged' = judged /\ snapshot' = snapshot
      /\ external' = external /\ identity_paused' = identity_paused
  BY <1>1 DEF callerVars, contactVars, identityVars
<1>3. \A i : i \in G <=> \E p \in pending : p.id = i /\ cancelled(p.query)
  OBVIOUS
<1> HIDE DEF G
<1>4. \A q : q \in InTable' <=> q \in InTable /\ ~cancelled(q)
  <2>1. \A p \in pending : p.id \in G <=> cancelled(p.query)
    BY <1>3 DEF QueriesInv, TablesAgree
  <2>2. \A p : p \in pending' <=> p \in pending /\ ~cancelled(p.query)
    BY <1>1, <2>1
  <2>3. ASSUME NEW q, q \in InTable' PROVE q \in InTable /\ ~cancelled(q)
    BY <2>2, <2>3, TableOf
  <2>4. ASSUME NEW q, q \in InTable, ~cancelled(q) PROVE q \in InTable'
    BY <2>2, <2>4, TableOf
  <2> QED
    BY <2>3, <2>4
<1>5. /\ queued' \in Seq(Askers) /\ IsInjective(queued')
      /\ \A q : q \in InQueue' <=> q \in InQueue /\ ~cancelled(q)
  <2>1. Keeps(queued', queued, Kept)
    BY <1>1 DEF Keeps
  <2>2. queued \in Seq(Askers) /\ IsInjective(queued) /\ Kept \in SUBSET DOMAIN queued
    BY DEF QueriesInv, TypeOK, NobodyAsksTwice, Kept
  <2>3. /\ queued' \in Seq(Askers) /\ IsInjective(queued')
        /\ \A x : x \in Range(queued') <=> \E i \in Kept : queued[i] = x
    BY <2>1, <2>2, Retained
  <2>4. \A x : (\E i \in Kept : queued[i] = x) <=> x \in Range(queued) /\ ~cancelled(x)
    BY DEF Kept, Range
  <2> QED
    BY <2>3, <2>4 DEF InQueue
<1>6. Fewer(G)
  <2>1. commands \in Seq(Callers) /\ IsInjective(commands)
    BY DEF QueriesInv, TypeOK, NobodyAsksTwice
  <2>2. Range(queued') \subseteq InQueue
    BY <1>5 DEF InQueue
  <2> QED
    BY <1>1, <1>5, <2>1, <2>2 DEF Fewer
<1>7. \A c \in Callers : Leaves(c)
  <2>1. ASSUME NEW c \in Callers, call[c] = "waiting" PROVE Held(c)'
    <3>1. Held(c) /\ ~cancelled(c)
      BY <2>1, Typed DEF cancelled
    <3> QED
      BY <1>1, <1>4, <1>5, <3>1 DEF Held
  <2> QED
    BY <1>2, <2>1 DEF Leaves
<1>8. Departure(G)
  BY <1>1, <1>2, <1>6, <1>7, Typed DEF Departure
<1>9. LoopTyped'
  BY <1>1, <1>2, Typed DEF LoopTyped, AfterEvent
<1>10. RecoveryIsCounted'
  <2>1. \A q \in Contacts : ~cancelled(q)
    BY AskerKinds DEF cancelled
  <2>2. (InQueue' \cup InTable') \cap Contacts = (InQueue \cup InTable) \cap Contacts
    BY <1>4, <1>5, <2>1
  <2>3. pc' # "recover"
    BY <1>1 DEF AfterEvent
  <2> QED
    BY <1>1, <1>2, <2>2, <2>3 DEF QueriesInv, RecoveryIsCounted
<1> QED
  BY <1>8, <1>9, <1>10, Departed

(* Queue and tables are emptied.                                           *)
LEMMA Emptied ==
    ASSUME QueriesInv, queued' = <<>>, transactions' = {}, pending' = {},
           commands' = commands \/ commands' = <<>>
    PROVE  /\ Fewer(Ids) /\ InQueue' = {} /\ InTable' = {}
           /\ \A q : Held(q)' <=> q \in Range(commands')
           /\ \A q : Held(q)' => q \notin InQueue \cup InTable
<1>1. InQueue' = {} /\ InTable' = {} /\ \A q : Held(q)' <=> q \in Range(commands')
  BY Nobody DEF InQueue, InTable, Held
<1>2. Range(commands') \subseteq Range(commands) /\ IsInjective(commands')
      /\ commands' \in Seq(Callers)
  BY Nobody DEF QueriesInv, TypeOK, NobodyAsksTwice
<1>3. \A q : Held(q)' => q \notin InQueue \cup InTable
  BY <1>1, <1>2 DEF QueriesInv, NobodyAsksTwice
<1>4. \A p \in pending : p.id \in Ids
  BY DEF QueriesInv, TablesAgree
<1>5. \A t \in transactions : t.id \in Ids
  BY DEF Ids
<1>6. Fewer(Ids)
  BY <1>2, <1>4, <1>5, Nobody DEF Fewer
<1> QED
  BY <1>1, <1>3, <1>6

(* The identity changes, or the change fails and leaves the node without.  *)
LEMMA RotateStep ==
    ASSUME QueriesInv, rotate_identity
    PROVE  QueriesInv'
<1>1. /\ pc = "rotate" /\ queued' = <<>> /\ transactions' = {} /\ pending' = {}
      /\ call' = Told(InQueue \cup InTable, "withdrawn") /\ external' = FALSE
      /\ UNCHANGED <<commands, net, calls, sent, crossed, next_counter, judged, snapshot>>
      /\ index' = 1
  BY DEF rotate_identity, clear_queries
<1>2. /\ Fewer(Ids) /\ InQueue' = {} /\ InTable' = {}
      /\ \A q : Held(q)' <=> q \in Range(commands')
      /\ \A q : Held(q)' => q \notin InQueue \cup InTable
  BY <1>1, Emptied
<1>3. (\E f : call' = [c \in Callers |-> f[c]]) /\ \A c \in Callers : Leaves(c)
  <2>1. \A c \in Callers : Held(c) /\ ~Held(c)' /\ call[c] = "waiting" => c \in InQueue \cup InTable
    BY <1>1, <1>2 DEF Held
  <2>2. \A c \in (InQueue \cup InTable) \cap Callers : ~Held(c)'
    BY <1>2
  <2> QED
    BY <1>1, <2>1, <2>2, Hearing
<1>4. Departure(Ids)
  BY <1>1, <1>2, <1>3, Typed DEF Departure
<1>5. /\ recovery \in [queued : SUBSET Contacts, active : SUBSET Contacts]
      /\ routing \subseteq Contacts /\ judged \subseteq Contacts /\ snapshot \subseteq Contacts
      /\ recovery.queued \cap recovery.active = {}
  BY DEF QueriesInv, TypeOK, RecoveryIsCounted
<1>6. external' \in BOOLEAN
  BY <1>1, Zenon
<1>7. CASE /\ identity_paused' = FALSE /\ pc' = "outbound"
           /\ recovery' = [queued |-> saved_contacts(recovery), active |-> {}]
           /\ routing' = {}
  <2>1. saved_contacts(recovery) \subseteq Contacts
    BY <1>5 DEF saved_contacts
  <2>2. identity_paused' \in BOOLEAN
    BY <1>7, Zenon
  <2>3. LoopTyped'
    BY <1>1, <1>5, <1>6, <1>7, <2>1, <2>2 DEF LoopTyped
  <2>4. RecoveryIsCounted'
    BY <1>2, <1>7 DEF RecoveryIsCounted
  <2> QED
    BY <1>4, <2>3, <2>4, Departed
<1>8. CASE /\ identity_paused' = TRUE /\ pc' = "select"
           /\ recovery' = finished(InQueue) /\ routing' = routing
  <2>1. /\ recovery' \in [queued : SUBSET Contacts, active : SUBSET Contacts]
        /\ recovery'.queued = recovery.queued
        /\ recovery'.active = recovery.active \ InQueue
    BY <1>8, Finished
  <2>2. identity_paused' \in BOOLEAN
    BY <1>8, Zenon
  <2>3. LoopTyped'
    BY <1>1, <1>5, <1>6, <1>8, <2>1, <2>2 DEF LoopTyped
  <2>4. RecoveryIsCounted'
    BY <1>5, <1>8, <2>1 DEF RecoveryIsCounted
  <2> QED
    BY <1>4, <2>3, <2>4, Departed
<1> QED
  BY <1>7, <1>8 DEF rotate_identity

(* The node ends, and with it the channel.                                 *)
LEMMA CloseStep ==
    ASSUME QueriesInv, close_pending
    PROVE  QueriesInv'
<1>1. /\ pc = "select" /\ pc' = "ended" /\ index' = 1
      /\ queued' = <<>> /\ transactions' = {} /\ pending' = {} /\ commands' = <<>>
      /\ call' = [c \in Callers |->
                    IF call[c] # "waiting" THEN call[c]
                    ELSE IF c \in InQueue \cup InTable THEN "withdrawn" ELSE "closed"]
      /\ recovery' = finished(InQueue)
      /\ snapshot' = saved_contacts(finished(InQueue))
      /\ UNCHANGED <<net, calls, sent, crossed, next_counter, routing, judged, identityVars>>
  BY DEF close_pending
<1>2. /\ Fewer(Ids) /\ \A q : Held(q)' <=> q \in Range(commands')
  BY <1>1, Emptied
<1>3. \A q : ~Held(q)'
  BY <1>1, <1>2, Nobody
<1>4. \A c \in Callers : Leaves(c)
  <2> SUFFICES ASSUME NEW c \in Callers PROVE Leaves(c)
    OBVIOUS
  <2>1. call'[c] = IF call[c] # "waiting" THEN call[c]
                   ELSE IF c \in InQueue \cup InTable THEN "withdrawn" ELSE "closed"
    BY <1>1
  <2> QED
    BY <1>1, <1>3, <2>1 DEF Leaves, Errors
<1>5. Departure(Ids)
  <2>1. call' = [c \in Callers |-> call'[c]]
    BY <1>1
  <2> QED
    BY <1>1, <1>2, <1>4, <2>1, Typed DEF Departure
<1>6. /\ recovery' \in [queued : SUBSET Contacts, active : SUBSET Contacts]
      /\ recovery'.queued = recovery.queued
      /\ recovery'.active = recovery.active \ InQueue
  BY <1>1, Finished
<1>7. snapshot' \subseteq Contacts
  <2>1. snapshot' = recovery'.queued \cup recovery'.active \cup routing
    BY <1>1 DEF saved_contacts
  <2> QED
    BY <1>6, <2>1 DEF QueriesInv, TypeOK
<1>8. external' = external /\ identity_paused' = identity_paused
  BY <1>1 DEF identityVars
<1>9. LoopTyped'
  BY <1>1, <1>6, <1>7, <1>8, Typed DEF LoopTyped
<1>10. RecoveryIsCounted'
  BY <1>1, <1>6 DEF QueriesInv, RecoveryIsCounted
<1> QED
  BY <1>5, <1>9, <1>10, Departed

-----------------------------------------------------------------------------
(* Steps in which a query comes or moves on.                               *)

(* Tables and network that are left alone still agree.                     *)
LEMMA SameTables ==
    ASSUME QueriesInv, UNCHANGED <<transactions, pending, next_counter, net>>
    PROVE  TablesAgree' /\ AnswersAreFresh' /\ InTable' = InTable
<1>1. Ids' = Ids /\ InTable' = InTable
  BY DEF Ids, InTable
<1> QED
  BY <1>1 DEF QueriesInv, TablesAgree, AnswersAreFresh

(* A caller asks: its query is in the channel and nowhere else.            *)
LEMMA IssueStep ==
    ASSUME QueriesInv, NEW c \in Callers, Issue(c)
    PROVE  QueriesInv'
<1>1. /\ ~Held(c) /\ call[c] # "waiting" /\ sent' = sent \ {c} /\ crossed' = crossed
      /\ UNCHANGED <<pc, index, net, tableVars, contactVars, identityVars>>
  BY DEF Issue
<1>2. /\ queued' = queued /\ transactions' = transactions /\ pending' = pending
      /\ next_counter' = next_counter /\ recovery' = recovery /\ routing' = routing
      /\ judged' = judged /\ snapshot' = snapshot /\ external' = external
      /\ identity_paused' = identity_paused /\ pc' = pc /\ index' = index /\ net' = net
  BY <1>1 DEF tableVars, contactVars, identityVars
<1>3. TablesAgree' /\ AnswersAreFresh' /\ InTable' = InTable /\ InQueue' = InQueue
  BY <1>2, SameTables DEF InQueue
<1>4. /\ commands \in Seq(Callers) /\ IsInjective(commands) /\ c \notin Range(commands)
      /\ c \notin InQueue /\ c \notin InTable
  BY <1>1 DEF QueriesInv, TypeOK, NobodyAsksTwice, Held
<1>5. RecoveryIsCounted'
  BY <1>2, <1>3 DEF QueriesInv, RecoveryIsCounted
<1>6. /\ commands' \in Seq(Callers) /\ IsInjective(commands')
      /\ \/ Range(commands') = Range(commands) \cup {c} /\ call' = [call EXCEPT ![c] = "waiting"]
         \/ /\ pc' = "ended" /\ Range(commands') = Range(commands)
            /\ call' = [call EXCEPT ![c] = "closed"]
  <2>1. CASE commands' = Append(commands, c) /\ call' = [call EXCEPT ![c] = "waiting"]
    BY <1>4, <2>1, Joined
  <2>2. CASE pc = "ended" /\ commands' = commands /\ call' = [call EXCEPT ![c] = "closed"]
    BY <1>2, <1>4, <2>2
  <2> QED
    BY <2>1, <2>2 DEF Issue
<1>7. NobodyAsksTwice'
  BY <1>2, <1>3, <1>4, <1>6 DEF QueriesInv, NobodyAsksTwice
<1>8. call \in [Callers -> {"idle", "waiting", "dropped", "ok"} \cup Errors]
  BY DEF QueriesInv, TypeOK
<1>9. ASSUME NEW d \in Callers
      PROVE  /\ call'[d] = "waiting" => Held(d)'
             /\ Held(d)' => call'[d] \in {"waiting", "dropped"}
             /\ d \in Range(commands') \cup InQueue' => d \notin sent'
             /\ d \in InTable' => d \in sent'
             /\ call'[d] = "not_sent" => d \notin sent'
             /\ call'[d] \in {"ok", "failed"} => d \in sent'
             /\ call'[d] = "closed" => pc' = "ended"
  <2>1. CASE d = c
    <3>1. call'[d] \in {"waiting", "closed"} /\ d \notin sent'
      BY <1>1, <1>6, <1>8, <2>1
    <3> QED
      BY <1>3, <1>4, <1>6, <1>8, <2>1, <3>1 DEF Held
  <2>2. CASE d # c
    <3>1. call'[d] = call[d] /\ (d \in sent' <=> d \in sent)
      BY <1>1, <1>6, <1>8, <2>2
    <3>2. d \in Range(commands') <=> d \in Range(commands)
      BY <1>6, <2>2
    <3> QED
      BY <1>2, <1>3, <3>1, <3>2 DEF QueriesInv, CallersAreAccounted, AnswersAreTrue, Held
  <2> QED
    BY <2>1, <2>2
<1>10. CallersAreAccounted'
  BY <1>9 DEF CallersAreAccounted
<1>11. AnswersAreTrue'
  BY <1>1, <1>9, Typed DEF AnswersAreTrue
<1>12. TypeOK'
  <2>1. call' \in [Callers -> {"idle", "waiting", "dropped", "ok"} \cup Errors]
    BY <1>6, <1>8 DEF Errors
  <2> QED
    BY <1>1, <1>2, <1>6, <2>1 DEF QueriesInv, TypeOK
<1> QED
  BY <1>3, <1>5, <1>7, <1>10, <1>11, <1>12 DEF QueriesInv

(* A query joins the queue: out of the channel, or a contact to be         *)
(* verified.                                                               *)
LEMMA QueueStep ==
    ASSUME QueriesInv, NEW q \in Askers, queued' = Append(queued, q),
           q \notin InQueue, q \notin InTable,
           commands' \in Seq(Callers), IsInjective(commands'),
           Range(commands') = Range(commands) \ {q},
           q \in Callers => q \in Range(commands),
           UNCHANGED <<transactions, pending, next_counter, net, call, sent, crossed>>,
           pc # "ended", LoopTyped', recovery'.queued \cap recovery'.active = {},
           ~identity_paused =>
               recovery'.active = recovery.active \cup ({q} \cap Contacts),
           pc' # "recover", identity_paused' = identity_paused
    PROVE  QueriesInv'
<1>1. TablesAgree' /\ AnswersAreFresh' /\ InTable' = InTable
  BY SameTables
<1>2. queued \in Seq(Askers) /\ IsInjective(queued)
  BY DEF QueriesInv, TypeOK, NobodyAsksTwice
<1>3. queued' \in Seq(Askers) /\ IsInjective(queued') /\ InQueue' = InQueue \cup {q}
  BY <1>2, Joined DEF InQueue
<1>4. NobodyAsksTwice'
  BY <1>1, <1>3 DEF QueriesInv, NobodyAsksTwice
<1>5. \A c \in Callers : Held(c)' <=> Held(c)
  BY <1>1, <1>3 DEF Held
<1>6. \A c \in Callers : c \in Range(commands') \cup InQueue' <=> c \in Range(commands) \cup InQueue
  BY <1>3
<1>7. CallersAreAccounted'
  BY <1>1, <1>5, <1>6 DEF QueriesInv, CallersAreAccounted
<1>8. AnswersAreTrue'
  BY DEF QueriesInv, AnswersAreTrue, CallersAreAccounted
<1>9. RecoveryIsCounted'
  <2>1. ~identity_paused => recovery'.active = (InQueue' \cup InTable') \cap Contacts
    BY <1>1, <1>3 DEF QueriesInv, RecoveryIsCounted
  <2> QED
    BY <2>1 DEF RecoveryIsCounted
<1>10. TypeOK'
  BY <1>3 DEF QueriesInv, TypeOK, LoopTyped
<1> QED
  BY <1>1, <1>4, <1>7, <1>8, <1>9, <1>10 DEF QueriesInv

(* The next saved contact is verified.                                     *)
LEMMA RecoverStep ==
    ASSUME QueriesInv, NEW q \in Contacts, advance_recovery(q)
    PROVE  QueriesInv'
<1>1. /\ pc = "recover" /\ q \in recovery.queued /\ queued' = Append(queued, q)
      /\ recovery' = [queued |-> recovery.queued \ {q}, active |-> recovery.active \cup {q}]
      /\ pc' = "recovered" /\ index' = 1
      /\ UNCHANGED <<commands, net, callerVars, transactions, pending, next_counter,
                     routing, judged, snapshot, identityVars>>
  BY DEF advance_recovery
<1>2. /\ recovery \in [queued : SUBSET Contacts, active : SUBSET Contacts]
      /\ commands \in Seq(Callers) /\ IsInjective(commands)
      /\ recovery.queued \cap recovery.active = {} /\ ~identity_paused
      /\ recovery.active = (InQueue \cup InTable) \cap Contacts
  BY <1>1 DEF QueriesInv, TypeOK, NobodyAsksTwice, RecoveryIsCounted
<1>3. q \in Askers /\ q \notin Callers /\ q \notin InQueue /\ q \notin InTable
  BY <1>1, <1>2, AskerKinds DEF Askers
<1>4. Range(commands') = Range(commands) \ {q}
  <2>1. \A i \in DOMAIN commands : commands[i] \in Callers
    BY <1>2, LenProperties, ElementOfSeq
  <2> QED
    BY <1>1, <1>3, <2>1 DEF Range
<1>5. /\ call' = call /\ sent' = sent /\ crossed' = crossed /\ external' = external
      /\ identity_paused' = identity_paused
  BY <1>1 DEF callerVars, identityVars
<1>6. LoopTyped'
  BY <1>1, <1>2, <1>5, Typed DEF LoopTyped
<1>7. /\ recovery'.queued \cap recovery'.active = {}
      /\ recovery'.active = recovery.active \cup ({q} \cap Contacts)
  BY <1>1, <1>2
<1> QED
  BY <1>1, <1>2, <1>3, <1>4, <1>5, <1>6, <1>7, QueueStep

(* A command is read: its caller is gone, it is refused, or its query      *)
(* joins the queue.                                                        *)
LEMMA CommandStep ==
    ASSUME QueriesInv, NEW q \in Callers, handle_command(q)
    PROVE  QueriesInv'
<1>1. /\ commands # <<>> /\ Head(commands) = q /\ pc = "select"
      /\ commands' = Tail(commands) /\ index' = 1
      /\ UNCHANGED <<net, calls, sent, crossed, transactions, pending, next_counter,
                     routing, judged, snapshot, identityVars>>
  BY DEF handle_command
<1>2. external' = external /\ identity_paused' = identity_paused
  BY <1>1 DEF identityVars
<1>3. /\ commands \in Seq(Callers) /\ IsInjective(commands)
      /\ queued \in Seq(Askers) /\ IsInjective(queued)
      /\ recovery \in [queued : SUBSET Contacts, active : SUBSET Contacts]
  BY DEF QueriesInv, TypeOK, NobodyAsksTwice
<1>4. /\ commands' \in Seq(Callers) /\ IsInjective(commands')
      /\ Range(commands') = Range(commands) \ {q} /\ q \in Range(commands)
  BY <1>1, <1>3, Served
<1>5. q \in Askers /\ q \notin Contacts /\ q \notin InQueue /\ q \notin InTable /\ q \notin sent
  BY <1>4, AskerKinds DEF Askers, QueriesInv, NobodyAsksTwice, CallersAreAccounted
<1>6. pc' \in {"select", "outbound", "command"}
  BY DEF handle_command, AfterEvent
<1>7. CASE queued' = Append(queued, q) /\ UNCHANGED <<call, recovery>>
  <2>1. LoopTyped'
    BY <1>1, <1>2, <1>6, <1>7, Typed DEF LoopTyped
  <2>2. /\ recovery'.queued \cap recovery'.active = {}
        /\ recovery'.active = recovery.active \cup ({q} \cap Contacts)
    BY <1>5, <1>7 DEF QueriesInv, RecoveryIsCounted
  <2> QED
    BY <1>1, <1>2, <1>4, <1>5, <1>6, <1>7, <2>1, <2>2, QueueStep
<1>8. CASE /\ queued' = queued
           /\ \/ call' = call /\ call[q] = "dropped" /\ recovery' = recovery
              \/ /\ call' = Told({q}, "not_sent") \/ call' = Told({q}, "withdrawn")
                 /\ recovery' = recovery \/ recovery' = finished({q})
  <2>1. InTable' = InTable /\ InQueue' = InQueue
    BY <1>1, <1>8 DEF InTable, InQueue
  <2>2. \A x : Held(x)' <=> Held(x) /\ x # q
    BY <1>4, <1>5, <2>1 DEF Held
  <2>3. Fewer({})
    <3>1. transactions = {t \in transactions : t.id \notin {}}
          /\ pending = {p \in pending : p.id \notin {}}
      OBVIOUS
    <3> QED
      BY <1>1, <1>3, <1>4, <1>8, <2>1, <3>1 DEF Fewer, InQueue
  <2>4. (\E f : call' = [c \in Callers |-> f[c]]) /\ \A c \in Callers : Leaves(c)
    <3>1. CASE call' = call /\ call[q] = "dropped"
      BY <2>2, <3>1, Typed DEF Leaves
    <3>2. ASSUME NEW e \in {"not_sent", "withdrawn"}, call' = Told({q}, e)
          PROVE  (\E f : call' = [c \in Callers |-> f[c]]) /\ \A c \in Callers : Leaves(c)
      <4>1. \A c \in Callers : Held(c) /\ ~Held(c)' /\ call[c] = "waiting" => c \in {q}
        BY <2>2
      <4>2. \A c \in {q} \cap Callers : ~Held(c)' /\ c \notin sent
        BY <1>5, <2>2
      <4> QED
        BY <3>2, <4>1, <4>2, Hearing
    <3> QED
      BY <1>8, <3>1, <3>2
  <2>5. recovery' = recovery
    <3>1. CASE recovery' = finished({q})
      <4>1. recovery.active \ {q} = recovery.active
        BY <1>3, <1>5
      <4> QED
        BY <1>3, <3>1, <4>1 DEF finished
    <3> QED
      BY <1>8, <3>1
  <2>6. Departure({})
    BY <1>1, <2>3, <2>4, Typed DEF Departure
  <2>7. LoopTyped'
    BY <1>1, <1>2, <1>6, <2>5, Typed DEF LoopTyped
  <2>8. RecoveryIsCounted'
    BY <1>1, <1>2, <1>6, <2>1, <2>5 DEF QueriesInv, RecoveryIsCounted
  <2> QED
    BY <2>6, <2>7, <2>8, Departed
<1> QED
  <2>1. CASE Ignored(q) /\ UNCHANGED <<call, queued, recovery>>
    BY <1>8, <2>1 DEF Ignored, cancelled
  <2>2. CASE call' = Told({q}, "not_sent") /\ UNCHANGED <<queued, recovery>>
    BY <1>8, <2>2
  <2>3. CASE start_rpc(q)
    BY <1>7, <1>8, <2>3 DEF start_rpc, finish_start_error
  <2> QED
    BY <2>1, <2>2, <2>3 DEF handle_command

(* A query is registered under a free identifier and sent.  What is left   *)
(* of earlier answers was drawn less than a turn ago, so none of it fits   *)
(* the new identifier.                                                     *)
LEMMA SendStep ==
    ASSUME QueriesInv, NEW q \in Askers, NEW k \in Draws, send_rpc(q, k)
    PROVE  QueriesInv'
<1> DEFINE i == (next_counter + k) % IdSpace
           d == next_counter + k + 1
           t == [id |-> i, draw |-> d, destination |-> Address[q]]
           p == [id |-> i, query |-> q]
           m == [id |-> i, source |-> Address[q], draw |-> d]
<1>1. /\ Scanning /\ q = queued[index] /\ FirstFree(k) /\ Dequeued /\ InScan
      /\ UNCHANGED <<index, call, recovery, judged>>
      /\ next_counter' = d /\ sent' = sent \cup ({q} \cap Callers)
      /\ net' = {x \in net : d < x.draw + IdSpace} \cup {m}
      /\ transactions' = {x \in transactions : x.id # i} \cup {t}
      /\ pending' = {x \in pending : x.id # i} \cup {p}
  <2>1. Drawn(k).id = i /\ Drawn(k).draw = d
    BY DEF Drawn
  <2>2. next_counter' = d
    BY DEF send_rpc
  <2> HIDE DEF i, d
  <2>3. /\ Put(transactions, t) = {x \in transactions : x.id # i} \cup {t}
        /\ Put(pending, p) = {x \in pending : x.id # i} \cup {p}
    BY DEF Put
  <2>4. /\ net' = {x \in net : d < x.draw + IdSpace} \cup {m}
        /\ transactions' = Put(transactions, t) /\ pending' = Put(pending, p)
    BY <2>1 DEF send_rpc
  <2> QED
    BY <2>2, <2>3, <2>4 DEF send_rpc, MaySend
<1>2. /\ commands' = commands /\ pc' = pc /\ crossed' = {} /\ routing' = routing
      /\ snapshot' = snapshot /\ external' = external /\ identity_paused' = identity_paused
      /\ pc # "ended"
  BY <1>1, Typed DEF InScan, identityVars, Scanning
<1>3. /\ IdSpace \in Nat \ {0} /\ k \in Nat /\ next_counter \in Nat /\ d \in Nat
      /\ d > next_counter /\ i \in 0..(IdSpace - 1) /\ d - 1 = next_counter + k
  <2>1. IdSpace \in Nat \ {0} /\ k \in Nat /\ next_counter \in Nat
    BY LimitAssumption, Typed DEF Draws
  <2> QED
    BY <2>1
<1>4. i \notin Ids
  BY <1>1 DEF FirstFree
<1>5. /\ t.id = i /\ t.draw = d /\ t.destination = Address[q]
      /\ p.id = i /\ p.query = q /\ m.id = i /\ m.draw = d /\ m.source = Address[q]
      /\ i = (d - 1) % IdSpace
  BY <1>3
<1>6. /\ t \in [id : 0..(IdSpace - 1), draw : Nat, destination : Addresses]
      /\ p \in [id : 0..(IdSpace - 1), query : Askers]
      /\ m \in [id : 0..(IdSpace - 1), source : Addresses, draw : Nat]
  <2>1. Address[q] \in Addresses
    BY AskerKinds
  <2> HIDE DEF i, d
  <2> QED
    BY <1>3, <2>1
<1> HIDE DEF i, d, t, p, m
<1>7. /\ \A x \in transactions : x.id # i
      /\ \A x \in pending : x.id # i
  <2>1. {x.id : x \in pending} = {x.id : x \in transactions} /\ i \notin {x.id : x \in transactions}
    BY <1>4 DEF QueriesInv, TablesAgree, Ids
  <2> QED
    BY <2>1
<1>8. transactions' = transactions \cup {t} /\ pending' = pending \cup {p}
  BY <1>1, <1>7
<1>9. /\ queued' \in Seq(Askers) /\ IsInjective(queued') /\ InQueue' = InQueue \ {q}
      /\ q \in InQueue
  <2>1. queued \in Seq(Askers) /\ IsInjective(queued)
    BY DEF QueriesInv, TypeOK, NobodyAsksTwice
  <2>2. index \in 1..Len(queued)
    BY <1>1, <2>1, LenProperties DEF Scanning
  <2>3. /\ RemoveAt(queued, index) \in Seq(Askers) /\ IsInjective(RemoveAt(queued, index))
        /\ Range(RemoveAt(queued, index)) = Range(queued) \ {queued[index]}
    BY <2>1, <2>2, TakenOut
  <2>4. q \in Range(queued)
    BY <1>1 DEF Scanning, Range
  <2> QED
    BY <1>1, <2>3, <2>4 DEF InQueue, Dequeued
<1>10. InTable' = InTable \cup {q} /\ q \notin InTable /\ q \notin Range(commands)
  <2>1. \A x : x \in InTable' <=> x \in InTable \/ x = q
    BY <1>5, <1>8, TableOf
  <2> QED
    BY <1>9, <2>1 DEF QueriesInv, NobodyAsksTwice
<1>11. NobodyAsksTwice'
  <2>1. \A x \in pending : x.query # q
    BY <1>10, TableOf
  <2>2. \A x, y \in pending' : x.query = y.query => x = y
    BY <1>5, <1>8, <2>1 DEF QueriesInv, NobodyAsksTwice
  <2> QED
    BY <1>2, <1>9, <1>10, <2>2 DEF QueriesInv, NobodyAsksTwice
<1>12. TablesAgree'
  <2>1. IsFiniteSet(transactions') /\ IsFiniteSet(pending')
    BY <1>8, FS_AddElement DEF QueriesInv, TablesAgree
  <2>2. \A x, y \in transactions' : x.id = y.id => x = y
    BY <1>5, <1>7, <1>8 DEF QueriesInv, TablesAgree
  <2>3. \A x, y \in pending' : x.id = y.id => x = y
    BY <1>5, <1>7, <1>8 DEF QueriesInv, TablesAgree
  <2>4. {x.id : x \in pending'} = {x.id : x \in transactions'}
    <3>1. {x.id : x \in pending} = {x.id : x \in transactions}
      BY DEF QueriesInv, TablesAgree, Ids
    <3>2. \A a : (\E x \in pending : x.id = a) <=> (\E x \in transactions : x.id = a)
      BY <3>1
    <3>3. \A a : (\E x \in pending' : x.id = a) <=> (\E x \in transactions' : x.id = a)
      BY <1>5, <1>8, <3>2
    <3> QED
      BY <3>3
  <2>5. \A x \in transactions', y \in pending' : x.id = y.id => x.destination = Address[y.query]
    BY <1>5, <1>7, <1>8 DEF QueriesInv, TablesAgree
  <2> QED
    BY <2>1, <2>2, <2>3, <2>4, <2>5 DEF TablesAgree, Ids
<1>13. AnswersAreFresh'
  <2>1. /\ net \subseteq [id : 0..(IdSpace - 1), source : Addresses, draw : Nat]
        /\ \A x \in net : x.draw \in 1..next_counter /\ x.id = (x.draw - 1) % IdSpace
        /\ \A u \in transactions, x \in net : u.id = x.id => u.draw = x.draw
    BY DEF QueriesInv, TypeOK, AnswersAreFresh
  <2>2. \A x \in net' : x.draw \in 1..next_counter' /\ x.id = (x.draw - 1) % IdSpace
    <3>1. d \in 1..d /\ \A e \in 1..next_counter : e \in 1..d
      BY <1>3
    <3> QED
      BY <1>1, <1>5, <2>1, <3>1
  <2>3. ASSUME NEW x \in net, d < x.draw + IdSpace PROVE x.id # i
    <3>1. /\ x.draw - 1 \in Nat /\ d - 1 \in Nat /\ x.draw - 1 < d - 1
          /\ d - 1 < (x.draw - 1) + IdSpace
      BY <1>3, <2>1, <2>3
    <3>2. (x.draw - 1) % IdSpace # (d - 1) % IdSpace
      BY <1>3, <3>1, WithinATurn
    <3> QED
      BY <1>5, <2>1, <3>2
  <2>4. ASSUME NEW u \in transactions', NEW x \in net', u.id = x.id PROVE u.draw = x.draw
    <3>1. CASE u \in transactions /\ x \in net
      BY <2>1, <2>4, <3>1
    <3>2. CASE u \in transactions /\ x = m
      BY <1>5, <1>7, <2>4, <3>2
    <3>3. CASE u = t /\ x = m
      BY <1>5, <3>3
    <3>4. CASE u = t /\ x \in net /\ d < x.draw + IdSpace
      BY <1>5, <2>3, <2>4, <3>4
    <3> QED
      BY <1>1, <1>8, <3>1, <3>2, <3>3, <3>4
  <2> QED
    BY <2>2, <2>4 DEF AnswersAreFresh
<1>14. \A c : Held(c)' <=> Held(c)
  BY <1>2, <1>9, <1>10 DEF Held
<1>15. ASSUME NEW c \in Callers
       PROVE  /\ c \in Range(commands') \cup InQueue' => c \notin sent'
              /\ c \in InTable' => c \in sent'
              /\ call'[c] = "not_sent" => c \notin sent'
              /\ call'[c] \in {"ok", "failed"} => c \in sent'
  <2>1. /\ call[c] = "waiting" => Held(c)
        /\ Held(c) => call[c] \in {"waiting", "dropped"}
        /\ c \in Range(commands) \cup InQueue => c \notin sent
        /\ c \in InTable => c \in sent
        /\ call[c] = "not_sent" => c \notin sent
        /\ call[c] \in {"ok", "failed"} => c \in sent
    BY DEF QueriesInv, CallersAreAccounted, AnswersAreTrue
  <2>2. CASE c = q
    BY <1>1, <1>2, <1>9, <1>10, <2>1, <2>2 DEF Held
  <2>3. CASE c # q
    BY <1>1, <1>2, <1>9, <1>10, <2>1, <2>3
  <2> QED
    BY <2>2, <2>3
<1>16. CallersAreAccounted'
  BY <1>1, <1>14, <1>15 DEF QueriesInv, CallersAreAccounted
<1>17. AnswersAreTrue'
  BY <1>1, <1>2, <1>15 DEF QueriesInv, AnswersAreTrue
<1>18. RecoveryIsCounted'
  BY <1>1, <1>2, <1>9, <1>10 DEF QueriesInv, RecoveryIsCounted
<1>19. TypeOK'
  <2>1. /\ transactions' \subseteq [id : 0..(IdSpace - 1), draw : Nat, destination : Addresses]
        /\ pending' \subseteq [id : 0..(IdSpace - 1), query : Askers]
        /\ net' \subseteq [id : 0..(IdSpace - 1), source : Addresses, draw : Nat]
    BY <1>1, <1>6, <1>8 DEF QueriesInv, TypeOK
  <2>2. next_counter' \in Nat /\ sent' \subseteq Callers
    BY <1>1, <1>3 DEF QueriesInv, TypeOK
  <2> QED
    BY <1>1, <1>2, <1>9, <2>1, <2>2 DEF QueriesInv, TypeOK
<1> QED
  BY <1>11, <1>12, <1>13, <1>16, <1>17, <1>18, <1>19 DEF QueriesInv

(* Every step keeps the invariant.                                         *)
LEMMA NextQueries == QueriesInv /\ [Next]_vars => QueriesInv'
<1> SUFFICES ASSUME QueriesInv, [Next]_vars PROVE QueriesInv'
  OBVIOUS
<1>1. CASE advance_outbound
  BY <1>1, QuietStep, DequeueStep, SendStep DEF advance_outbound
<1>2. CASE NoRecovery \/ rotate_identity \/ \E q \in Contacts : advance_recovery(q)
  BY <1>2, QuietStep, RotateStep, RecoverStep
<1>3. CASE Events
  BY <1>3, CommandStep, ExpireStep, CancelStep, QuietStep DEF Events
<1>4. CASE Receive
  BY <1>4, ReceiveStep DEF Receive
<1>5. CASE Environment
  BY <1>5, IssueStep, QuietStep, CloseStep DEF Environment
<1>6. CASE Ended \/ UNCHANGED vars
  BY <1>6, QuietStep
<1> QED
  BY <1>1, <1>2, <1>3, <1>4, <1>5, <1>6 DEF Next, Loop

-----------------------------------------------------------------------------
(* The theorems.                                                           *)

(* Channel, queue, both tables, callers, network and recovery keep step,   *)
(* whatever the network delays or repeats, whoever gives up, through       *)
(* changes of identity and the turns of the counter.                       *)
THEOREM BooksKeepStep == Spec => []QueriesInv
  BY InitQueries, NextQueries, PTL DEF Spec

(* What a caller is told is true: a success is the answer of the address   *)
(* asked to this very query, a refusal that blames the node itself means   *)
(* that nothing was sent, one that blames the other side that something    *)
(* was, and the dispatcher is called closed only when it is.               *)
THEOREM CallersHearTheTruth == Spec => []AnswersAreTrue
<1>1. QueriesInv => AnswersAreTrue
  BY DEF QueriesInv
<1> QED
  BY <1>1, BooksKeepStep, PTL

(* How often a query stands in a line without repetitions.                 *)
LEMMA OnceInLine ==
    ASSUME NEW s, IsInjective(s), NEW q
    PROVE  /\ Cardinality({i \in DOMAIN s : s[i] = q}) = IF q \in Range(s) THEN 1 ELSE 0
<1>1. CASE q \in Range(s)
  <2>1. PICK i \in DOMAIN s : s[i] = q
    BY <1>1, Member
  <2>2. {j \in DOMAIN s : s[j] = q} = {i}
    BY <2>1 DEF IsInjective
  <2> QED
    BY <1>1, <2>2, FS_Singleton
<1>2. CASE q \notin Range(s)
  <2>1. {j \in DOMAIN s : s[j] = q} = {}
    BY <1>2, Member
  <2> QED
    BY <1>2, <2>1, FS_EmptySet
<1> QED
  BY <1>1, <1>2

(* How often it has an entry in the table.                                 *)
LEMMA OnceInTable ==
    ASSUME QueriesInv, NEW q
    PROVE  Cardinality({p \in pending : p.query = q}) = IF q \in InTable THEN 1 ELSE 0
<1>1. CASE q \in InTable
  <2>1. PICK p \in pending : p.query = q
    BY <1>1, TableOf
  <2>2. {r \in pending : r.query = q} = {p}
    BY <2>1 DEF QueriesInv, NobodyAsksTwice
  <2> QED
    BY <1>1, <2>2, FS_Singleton
<1>2. CASE q \notin InTable
  <2>1. {r \in pending : r.query = q} = {}
    BY <1>2, TableOf
  <2> QED
    BY <1>2, <2>1, FS_EmptySet
<1> QED
  BY <1>1, <1>2

(* A table has as many entries as identifiers.                             *)
LEMMA OneEntryEach ==
    ASSUME NEW S, IsFiniteSet(S), \A x, y \in S : x.id = y.id => x = y
    PROVE  Cardinality({x.id : x \in S}) = Cardinality(S)
<1> DEFINE T == {x.id : x \in S}
           f == [x \in S |-> x.id]
<1>1. f \in Surjection(S, T) /\ f \in Injection(S, T)
  BY DEF Surjection, Injection, IsInjective
<1> HIDE DEF T, f
<1>2. Cardinality(T) = Cardinality(S)
  BY <1>1, FS_Surjection
<1> QED
  BY <1>2 DEF T

(* A waiting caller's query is in exactly one of channel, queue and table, *)
(* the tables have the same identifiers, each once, and the contacts that  *)
(* count as being verified are those being asked.                          *)
THEOREM QueriesAreInOnePlace == Spec => []EveryQueryHasItsPlace
<1>1. ASSUME QueriesInv PROVE EveryQueryHasItsPlace
  <2>1. ASSUME NEW q
        PROVE  /\ Held(q) => Places(q) = 1
               /\ ~Held(q) => Places(q) = 0
    <3> DEFINE a == Cardinality({i \in DOMAIN commands : commands[i] = q})
               b == Cardinality({i \in DOMAIN queued : queued[i] = q})
               c == Cardinality({p \in pending : p.query = q})
    <3>1. /\ a = IF q \in Range(commands) THEN 1 ELSE 0
          /\ b = IF q \in InQueue THEN 1 ELSE 0
          /\ c = IF q \in InTable THEN 1 ELSE 0
      BY <1>1, OnceInLine, OnceInTable DEF QueriesInv, NobodyAsksTwice, InQueue
    <3>2. Places(q) = a + b + c
      BY DEF Places
    <3>3. /\ q \in Range(commands) => q \notin InQueue /\ q \notin InTable
          /\ q \in InQueue => q \notin InTable
      BY <1>1 DEF QueriesInv, NobodyAsksTwice
    <3>4. Held(q) <=> q \in Range(commands) \/ q \in InQueue \/ q \in InTable
      BY DEF Held
    <3> HIDE DEF a, b, c
    <3> QED
      BY <3>1, <3>2, <3>3, <3>4
  <2>2. \A c \in Callers : call[c] = "waiting" => Places(c) = 1
    BY <1>1, <2>1, Typed
  <2>3. \A q \in Askers : Places(q) <= 1
    <3> SUFFICES ASSUME NEW q \in Askers PROVE Places(q) <= 1
      OBVIOUS
    <3>1. Places(q) = 0 \/ Places(q) = 1
      BY <2>1
    <3> QED
      BY <3>1
  <2>4. /\ {p.id : p \in pending} = Ids
        /\ Cardinality(Ids) = Cardinality(transactions)
        /\ Cardinality(Ids) = Cardinality(pending)
    <3>1. {p.id : p \in pending} = Ids /\ Ids = {t.id : t \in transactions}
      BY <1>1 DEF QueriesInv, TablesAgree, Ids
    <3>2. Cardinality({t.id : t \in transactions}) = Cardinality(transactions)
      BY <1>1, OneEntryEach DEF QueriesInv, TablesAgree
    <3>3. Cardinality({p.id : p \in pending}) = Cardinality(pending)
      BY <1>1, OneEntryEach DEF QueriesInv, TablesAgree
    <3> QED
      BY <3>1, <3>2, <3>3
  <2> QED
    BY <1>1, <2>2, <2>3, <2>4 DEF EveryQueryHasItsPlace, QueriesInv, RecoveryIsCounted
<1> QED
  BY <1>1, BooksKeepStep, PTL

=============================================================================
