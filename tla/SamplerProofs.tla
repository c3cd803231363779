---------------------------- MODULE SamplerProofs ----------------------------
(***************************************************************************)
(* Machine-checked theorems about Sampler, for any nodes, delays, limits,  *)
(* shifts of the wall clock and any number of crashes.                     *)
(***************************************************************************)
EXTENDS Sampler, FiniteSetTheorems, TLAPS

-----------------------------------------------------------------------------
(* Keys and times.                                                         *)

(* A contact is known under an id and an address, which are never equal.   *)
LEMMA ContactKeys ==
    ASSUME NEW c \in Contacts
    PROVE  /\ c.id \in Ids /\ c.ip \in Ips /\ c.id \in KeysOf(c) /\ c.ip \in KeysOf(c)
           /\ KeysOf(c) \subseteq Keys /\ c.id \notin Ips /\ c.ip \notin Ids
           /\ KeysOf(c) \cap Ids = {c.id} /\ KeysOf(c) \cap Ips = {c.ip}
  BY ContactAssumption DEF KeysOf, Keys

(* Both kinds of keys are finite in number.                                *)
LEMMA KeyKinds == /\ IsFiniteSet(Ids) /\ IsFiniteSet(Ips) /\ Keys = Ids \cup Ips
                  /\ Ids \cap Ips = {}
  BY ContactAssumption DEF Keys

(* The keys of several requests.                                           *)
LEMMA KeysOfMany ==
    \A R, k : k \in KeysOfAll(R) <=> \E r \in R : k \in KeysOf(r.node)
  BY DEF KeysOfAll

(* Requests that have a token.                                             *)
LEMMA WithToken == \A R, r : r \in Leased(R) <=> r \in R /\ r.lease # 0
  BY DEF Leased

(* Raising the times left of some keys.                                    *)
LEMMA RaisedTimes ==
    ASSUME NEW m \in [Keys -> Int], NEW K, NEW d \in Int
    PROVE  /\ Raised(m, K, d) \in [Keys -> Int]
           /\ \A k \in Keys : /\ k \notin K => Raised(m, K, d)[k] = m[k]
                              /\ Raised(m, K, d)[k] >= m[k]
                              /\ k \in K => Raised(m, K, d)[k] >= d
                              /\ Raised(m, K, d)[k] \in {m[k], d}
                              /\ k \in K /\ m[k] <= d => Raised(m, K, d)[k] = d
  BY DEF Raised, Larger

(* Forgetting what requests with a token had raised.                       *)
LEMMA ForgottenTimes ==
    ASSUME NEW m, NEW R
    PROVE  \A k \in Keys : /\ k \in KeysOfAll(Leased(R)) => Forgotten(m, R)[k] = Absent
                           /\ k \notin KeysOfAll(Leased(R)) => Forgotten(m, R)[k] = m[k]
  BY DEF Forgotten

(* The withdrawals and the settlements owed for some requests.             *)
LEMMA Owed ==
    ASSUME NEW R \in SUBSET Requests, NEW d \in Nat
    PROVE  /\ Withdrawals(R) \subseteq Debts /\ Settlements(R, d) \subseteq Debts
           /\ \A x \in Withdrawals(R) : x.op = "abandon" /\ x.left = 0 /\ x.dur = 0
           /\ \A x \in Settlements(R, d) : x.op = "settle" /\ x.left = d /\ x.dur = d
           /\ \A x \in Withdrawals(R) \cup Settlements(R, d) :
                 \E r \in Leased(R) : x.node = r.node /\ x.lease = r.lease
           /\ \A r \in Leased(R) : \E x \in Withdrawals(R) : x.node = r.node
           /\ \A r \in Leased(R) : \E x \in Settlements(R, d) : x.node = r.node
<1>1. \A r \in Leased(R) : r.node \in Contacts /\ r.lease \in Leases
  BY DEF Leased, Requests
<1>2. /\ \A x \in Withdrawals(R) : /\ x.op = "abandon" /\ x.left = 0 /\ x.dur = 0
                                   /\ x \in Debts
                                   /\ \E r \in Leased(R) : x.node = r.node /\ x.lease = r.lease
  BY <1>1 DEF Withdrawals, Debts
<1>3. /\ \A x \in Settlements(R, d) : /\ x.op = "settle" /\ x.left = d /\ x.dur = d
                                      /\ x \in Debts
                                      /\ \E r \in Leased(R) : x.node = r.node /\ x.lease = r.lease
  BY <1>1 DEF Settlements, Debts
<1>4. \A r \in Leased(R) : \E x \in Withdrawals(R) : x.node = r.node
  <2> SUFFICES ASSUME NEW r \in Leased(R) PROVE \E x \in Withdrawals(R) : x.node = r.node
    OBVIOUS
  <2>1. [op |-> "abandon", lease |-> r.lease, node |-> r.node, left |-> 0, dur |-> 0]
          \in Withdrawals(R)
    BY Zenon DEF Withdrawals
  <2> QED
    BY <2>1
<1>5. \A r \in Leased(R) : \E x \in Settlements(R, d) : x.node = r.node
  <2> SUFFICES ASSUME NEW r \in Leased(R) PROVE \E x \in Settlements(R, d) : x.node = r.node
    OBVIOUS
  <2>1. [op |-> "settle", lease |-> r.lease, node |-> r.node, left |-> d, dur |-> d]
          \in Settlements(R, d)
    BY Zenon DEF Settlements
  <2> QED
    BY <2>1
<1> QED
  BY <1>2, <1>3, <1>4, <1>5

(* The settlements alone.                                                  *)
AreSettled(R, d, D) ==
    /\ D \subseteq Debts
    /\ \A x \in D : x.op = "settle" /\ x.left = d /\ x.dur = d
    /\ \A x \in D : \E r \in Leased(R) : x.node = r.node /\ x.lease = r.lease
    /\ \A r \in Leased(R) : \E x \in D : x.node = r.node
LEMMA OwedSettlements ==
    \A R \in SUBSET Requests, d \in Nat : AreSettled(R, d, Settlements(R, d))
<1> SUFFICES ASSUME NEW R \in SUBSET Requests, NEW d \in Nat
             PROVE  AreSettled(R, d, Settlements(R, d))
  OBVIOUS
<1>1. /\ Withdrawals(R) \subseteq Debts /\ Settlements(R, d) \subseteq Debts
      /\ \A x \in Settlements(R, d) : x.op = "settle" /\ x.left = d /\ x.dur = d
      /\ \A x \in Withdrawals(R) \cup Settlements(R, d) :
            \E r \in Leased(R) : x.node = r.node /\ x.lease = r.lease
      /\ \A r \in Leased(R) : \E x \in Settlements(R, d) : x.node = r.node
  BY Owed
<1> QED
  BY <1>1 DEF AreSettled

-----------------------------------------------------------------------------
(* The inductive invariant at the start.                                   *)
LEMMA InitSampler == Init => SamplerInv
<1> SUFFICES ASSUME Init PROVE SamplerInv
  OBVIOUS
<1>1. /\ Live = {} /\ reserving = {} /\ settling = {} /\ inflight = {} /\ fallback = {}
      /\ ready = {} /\ queued = {} /\ pending = {} /\ pc = "loop" /\ session = FALSE
      /\ Leased(Live) = {} /\ Granted = {}
  BY DEF Init, Live, Leased, Granted
<1>2. /\ \A k \in Keys : db[k] = NoRow /\ quiet[k] = 0 /\ mem[k] = Absent
      /\ \A k \in Keys : ~db[k].pending /\ db[k].left = -1
  BY DEF Init, NoRow
<1>3. SamplerTypes
  <2>1. /\ mem \in [Keys -> Nat \cup {Absent}] /\ db \in [Keys -> DbRows]
    BY DEF Init, DbRows
  <2>2. quiet \in [Keys -> 0..Long]
    BY DelayAssumption DEF Init
  <2> QED
    BY <2>1, <2>2 DEF Init, SamplerTypes
<1>4. WorkIsApart /\ StopsAreClean
  BY <1>1 DEF WorkIsApart, StopsAreClean
<1>5. \A T \in {Ids, Ips} : Rows(T) = {} /\ Present(mem, T) = {}
  BY <1>2 DEF Rows, Present, Keys
<1>6. \A T \in {Ids, Ips} : Cardinality(Rows(T)) <= Capacity /\ Cardinality(Present(mem, T)) <= Capacity
  BY <1>5, FS_EmptySet, LimitAssumption
<1>7. RowsAreHeld
  BY <1>1, <1>2, <1>6 DEF RowsAreHeld
<1>8. QuietIsRecorded
  BY <1>1, <1>2 DEF QuietIsRecorded
<1>9. MemoryIsComplete
  BY <1>1, <1>2, <1>6 DEF MemoryIsComplete, NodesOf
<1> QED
  BY <1>3, <1>4, <1>7, <1>8, <1>9 DEF SamplerInv

-----------------------------------------------------------------------------
(* What the actions have in common.                                        *)

(* A row of the table, or none.                                            *)
LEMMA RowFacts ==
    ASSUME NEW row \in DbRows
    PROVE  /\ row.pending \in BOOLEAN /\ row.left \in Int /\ row.dur \in Nat
           /\ row.lease \in Leases \cup {0}
           /\ row = NoRow => ~row.pending /\ row.left = -1
           /\ row # NoRow => row.left \in Nat
<1>1. CASE row = NoRow
  BY <1>1 DEF NoRow
<1>2. CASE row # NoRow
  <2>1. row \in [lease : Leases \cup {0}, pending : BOOLEAN, left : Nat, dur : Nat]
    BY <1>2 DEF DbRows
  <2> QED
    BY <1>2, <2>1
<1> QED
  BY <1>1, <1>2

(* The work that is done, key by key.                                      *)
LEMMA Apart ==
    ASSUME WorkIsApart
    PROVE  /\ \A r, q \in Live : \A k : k \in KeysOf(r.node) /\ k \in KeysOf(q.node) => r = q
           /\ \A s, t \in settling : \A k : k \in KeysOf(s.node) /\ k \in KeysOf(t.node) => s = t
           /\ \A r \in Live, s \in settling : \A k : ~(k \in KeysOf(r.node) /\ k \in KeysOf(s.node))
           /\ \A r, q \in reserving : r = q
           /\ \A r \in reserving, q \in Live \cup settling :
                 \A k : ~(k \in KeysOf(r.node) /\ k \in KeysOf(q.node))
  BY DEF WorkIsApart, Share

(* The rows of a table that lost some are no more than before.             *)
LEMMA FewerRows ==
    ASSUME NEW T \in {Ids, Ips}, NEW E,
           \A k \in Keys : db'[k] # NoRow => db[k] # NoRow
    PROVE  /\ Cardinality(Rows(T) \ E)' <= Cardinality(Rows(T) \ E)
           /\ Cardinality(Rows(T))' <= Cardinality(Rows(T))
           /\ IsFiniteSet(Rows(T)) /\ Cardinality(Rows(T)) \in Nat
<1>1. IsFiniteSet(T) /\ T \subseteq Keys
  BY KeyKinds
<1>2. Rows(T) \subseteq T /\ Rows(T)' \subseteq Rows(T)
  BY <1>1 DEF Rows
<1>3. IsFiniteSet(Rows(T))
  BY <1>1, <1>2, FS_Subset
<1>4. IsFiniteSet(Rows(T) \ E) /\ Rows(T)' \ E \subseteq Rows(T) \ E
  BY <1>2, <1>3, FS_Difference
<1>5. Cardinality(Rows(T)' \ E) <= Cardinality(Rows(T) \ E)
  BY <1>4, FS_Subset
<1>6. Cardinality(Rows(T)') <= Cardinality(Rows(T))
  BY <1>2, <1>3, FS_Subset
<1> QED
  BY <1>3, <1>5, <1>6, FS_CardinalityType

(* Requests R leave the loop's hands, debts D take the place of those with *)
(* a token, and the table changes at most in pending rows K that nobody    *)
(* works on any more.                                                      *)
Leaves(R, D, K) ==
    /\ R \in SUBSET Live
    /\ ready' \subseteq ready \ R /\ queued' \subseteq queued \ R /\ pending' \subseteq pending \ R
    /\ settling' \subseteq settling \cup D
    /\ \A x \in D : \E r \in Leased(R) : x.node = r.node /\ x.lease = r.lease
    /\ \A x, y \in D : x.node = y.node => x = y
    /\ \A r, q \in reserving' : r = q
    /\ \A r \in reserving' : \E q \in reserving :
          /\ r.node = q.node /\ r.lease = q.lease
          /\ r.expired = q.expired /\ r.answer = q.answer
    /\ \A k \in Keys : k \notin K => db'[k] = db[k]
    /\ \A k \in K : /\ db[k].pending /\ ~db'[k].pending
                    /\ \A r \in Live' \cup settling' \cup reserving' : k \notin KeysOf(r.node)

(* The rest of the work stays apart and keeps its rows.                    *)
LEMMA Resolved ==
    ASSUME SamplerInv, SamplerTypes', NEW R, NEW D, NEW K, Leaves(R, D, K)
    PROVE  WorkIsApart' /\ RowsAreHeld'
<1> USE DEF Leaves
<1>1. /\ ready \cap queued = {} /\ ready \cap pending = {} /\ queued \cap pending = {}
      /\ \A r, q \in Live : \A k : k \in KeysOf(r.node) /\ k \in KeysOf(q.node) => r = q
      /\ \A s, t \in settling : \A k : k \in KeysOf(s.node) /\ k \in KeysOf(t.node) => s = t
      /\ \A r \in Live, s \in settling : \A k : ~(k \in KeysOf(r.node) /\ k \in KeysOf(s.node))
      /\ \A r \in reserving, q \in Live \cup settling :
            \A k : ~(k \in KeysOf(r.node) /\ k \in KeysOf(q.node))
  <2>1. WorkIsApart
    BY DEF SamplerInv
  <2> QED
    BY <2>1, Apart DEF WorkIsApart
<1>2. /\ Live' \subseteq Live \ R /\ Leased(R) \subseteq R /\ R \subseteq Live
      /\ ready' \cap queued' = {} /\ ready' \cap pending' = {} /\ queued' \cap pending' = {}
      /\ Leased(Live') \subseteq Leased(Live) /\ Leased(R) \subseteq Leased(Live)
  BY <1>1 DEF Live, Leased
<1>3. WorkIsApart'
  <2>1. \A r, q \in Live' : Share(r, q) => r = q
    BY <1>1, <1>2 DEF Share
  <2>2. ASSUME NEW s \in settling', NEW t \in settling', Share(s, t) PROVE s = t
    <3>1. PICK k : k \in KeysOf(s.node) /\ k \in KeysOf(t.node)
      BY <2>2 DEF Share
    <3>2. CASE s \in settling /\ t \in settling
      BY <1>1, <3>1, <3>2
    <3>3. CASE s \in D /\ t \in D
      <4>1. PICK r \in Leased(R) : s.node = r.node
        BY <3>3
      <4>2. PICK q \in Leased(R) : t.node = q.node
        BY <3>3
      <4>3. r = q
        BY <1>1, <1>2, <3>1, <4>1, <4>2
      <4> QED
        BY <3>3, <4>1, <4>2, <4>3
    <3>4. CASE s \in D /\ t \in settling
      <4>1. PICK r \in Leased(R) : s.node = r.node
        BY <3>4
      <4> QED
        BY <1>1, <1>2, <3>1, <3>4, <4>1
    <3>5. CASE s \in settling /\ t \in D
      <4>1. PICK r \in Leased(R) : t.node = r.node
        BY <3>5
      <4> QED
        BY <1>1, <1>2, <3>1, <3>5, <4>1
    <3> QED
      BY <3>2, <3>3, <3>4, <3>5
  <2>3. \A r \in Live', s \in settling' : ~Share(r, s)
    <3> SUFFICES ASSUME NEW r \in Live', NEW s \in settling', NEW k,
                        k \in KeysOf(r.node), k \in KeysOf(s.node)
                 PROVE  FALSE
      BY DEF Share
    <3>1. CASE s \in settling
      BY <1>1, <1>2, <3>1
    <3>2. CASE s \in D
      <4>1. PICK q \in Leased(R) : s.node = q.node
        BY <3>2
      <4>2. r = q
        BY <1>1, <1>2, <4>1
      <4> QED
        BY <1>2, <4>2
    <3> QED
      BY <3>1, <3>2
  <2>4. \A r \in reserving', q \in Live' \cup settling' : ~Share(r, q)
    <3> SUFFICES ASSUME NEW r \in reserving', NEW q \in Live' \cup settling', NEW k,
                        k \in KeysOf(r.node), k \in KeysOf(q.node)
                 PROVE  FALSE
      BY DEF Share
    <3>1. PICK p \in reserving : r.node = p.node
      OBVIOUS
    <3>2. CASE q \in Live \cup settling
      BY <1>1, <3>1, <3>2
    <3>3. CASE q \in D
      <4>1. PICK u \in Leased(R) : q.node = u.node
        BY <3>3
      <4> QED
        BY <1>1, <1>2, <3>1, <4>1
    <3> QED
      BY <1>2, <3>2, <3>3
  <2>5. reserving' = {} \/ ready' = {}
    BY DEF SamplerInv, WorkIsApart
  <2> HIDE DEF Live
  <2> QED
    BY <1>2, <2>1, <2>2, <2>3, <2>4, <2>5 DEF WorkIsApart
<1>4. \A k \in Keys : db[k] \in DbRows /\ db'[k] \in DbRows
  BY DEF SamplerInv, SamplerTypes
<1>5. \A k \in Keys : db'[k] # NoRow => db[k] # NoRow
  BY <1>4, RowFacts
<1>6. ASSUME NEW r \in Leased(Live') \cup settling' \cup Granted', NEW k \in KeysOf(r.node)
      PROVE  db'[k].pending /\ db'[k].lease = r.lease
  <2>1. r \in Live' \cup settling' \cup reserving' /\ r.node \in Contacts
    BY <1>2 DEF Leased, Granted, Live, SamplerTypes, Requests, Reservations, Debts
  <2>2. k \in Keys /\ db'[k] = db[k]
    BY <1>6, <2>1, ContactKeys
  <2>3. \A q \in Leased(Live) \cup settling \cup Granted : \A j \in KeysOf(q.node) :
           db[j].pending /\ db[j].lease = q.lease
    BY DEF SamplerInv, RowsAreHeld
  <2>4. \E q \in Leased(Live) \cup settling \cup Granted : q.node = r.node /\ q.lease = r.lease
    <3>1. CASE r \in Leased(Live')
      BY <1>2, <3>1
    <3>2. CASE r \in settling'
      BY <1>2, <3>2
    <3>3. CASE r \in Granted'
      BY <3>3 DEF Granted
    <3> QED
      BY <1>6, <3>1, <3>2, <3>3
  <2> QED
    BY <1>6, <2>2, <2>3, <2>4
<1>7. ASSUME NEW r \in reserving'
      PROVE  /\ r.answer # "conflict" /\ (r.answer = "granted" => r.lease # 0)
             /\ r.answer = "none" =>
                  /\ \A k \in r.expired : ~db'[k].pending /\ db'[k].left <= 0
                  /\ \A k \in KeysOf(r.node) : db'[k] = NoRow \/ k \in r.expired
                  /\ \A T \in {Ids, Ips} : Cardinality(Rows(T) \ r.expired)' < Capacity
  <2>1. PICK q \in reserving : /\ r.node = q.node /\ r.lease = q.lease
                               /\ r.expired = q.expired /\ r.answer = q.answer
    OBVIOUS
  <2>2. /\ q.answer # "conflict" /\ (q.answer = "granted" => q.lease # 0)
        /\ q.answer = "none" =>
             /\ \A k \in q.expired : ~db[k].pending /\ db[k].left <= 0
             /\ \A k \in KeysOf(q.node) : db[k] = NoRow \/ k \in q.expired
             /\ \A T \in {Ids, Ips} : Cardinality(Rows(T) \ q.expired) < Capacity
    BY DEF SamplerInv, RowsAreHeld
  <2>3. q.expired \subseteq Keys /\ q.node \in Contacts
    BY DEF SamplerInv, SamplerTypes, Reservations
  <2>4. \A k \in q.expired : q.answer = "none" => ~db'[k].pending /\ db'[k].left <= 0
    BY <2>2, <2>3
  <2>5. \A k \in KeysOf(q.node) : q.answer = "none" => db'[k] = NoRow \/ k \in q.expired
    BY <1>4, <1>5, <2>2, <2>3, ContactKeys
  <2>6. \A T \in {Ids, Ips} : q.answer = "none" => Cardinality(Rows(T)' \ q.expired) < Capacity
    <3> SUFFICES ASSUME NEW T \in {Ids, Ips}, q.answer = "none"
                 PROVE  Cardinality(Rows(T)' \ q.expired) < Capacity
      OBVIOUS
    <3>1. Cardinality(Rows(T)' \ q.expired) <= Cardinality(Rows(T) \ q.expired)
      BY <1>5, FewerRows
    <3>2. IsFiniteSet(Rows(T)) /\ IsFiniteSet(Rows(T)')
      <4>1. IsFiniteSet(T) /\ Rows(T) \subseteq T /\ Rows(T)' \subseteq T
        BY KeyKinds DEF Rows
      <4> QED
        BY <4>1, FS_Subset
    <3>3. Cardinality(Rows(T)' \ q.expired) \in Nat /\ Cardinality(Rows(T) \ q.expired) \in Nat
      BY <3>2, FS_Difference, FS_CardinalityType
    <3>4. Cardinality(Rows(T) \ q.expired) < Capacity /\ Capacity \in Nat
      BY <2>2, LimitAssumption
    <3> QED
      BY <3>1, <3>3, <3>4
  <2> QED
    BY <2>1, <2>2, <2>4, <2>5, <2>6
<1>8. ASSUME NEW T \in {Ids, Ips} PROVE Cardinality(Rows(T))' <= Capacity
  <2>1. Cardinality(Rows(T)') <= Cardinality(Rows(T)) /\ Cardinality(Rows(T)) \in Nat
    BY <1>5, FewerRows
  <2>2. IsFiniteSet(Rows(T)')
    <3>1. IsFiniteSet(T) /\ Rows(T)' \subseteq T
      BY KeyKinds DEF Rows
    <3> QED
      BY <3>1, FS_Subset
  <2>3. Cardinality(Rows(T)') \in Nat
    BY <2>2, FS_CardinalityType
  <2>4. Cardinality(Rows(T)) <= Capacity /\ Capacity \in Nat
    BY LimitAssumption DEF SamplerInv, RowsAreHeld
  <2> QED
    BY <2>1, <2>3, <2>4
<1>9. \A k \in Keys : db'[k].pending => db'[k].dur = Long
  BY DEF SamplerInv, RowsAreHeld
<1>10. RowsAreHeld'
  BY <1>6, <1>7, <1>8, <1>9 DEF RowsAreHeld
<1> QED
  BY <1>3, <1>10

(* The requests P of R with a token must be left alone for a time d, which *)
(* their settlements last.                                                 *)
Protects(R, D, K, P, d) ==
    /\ P \in SUBSET R /\ d \in Nat
    /\ quiet' = Raised(quiet, KeysOfAll(Leased(P)), d)
    /\ \A x \in D : x.op = "abandon" => \E r \in Leased(R \ P) : x.node = r.node
    /\ \A x \in D : x.op # "abandon" => x.left >= d /\ x.dur >= d
    /\ \A k \in K \cap Keys : /\ k \notin KeysOfAll(Leased(P))
                              /\ quiet[k] > 0 =>
                                   /\ db'[k] # NoRow
                                   /\ db'[k].pending
                                      \/ (db'[k].left >= quiet[k] /\ db'[k].dur >= quiet[k])

(* That is recorded.                                                       *)
LEMMA Quieted ==
    ASSUME SamplerInv, SamplerTypes', NEW R, NEW D, NEW K, NEW P, NEW d,
           Leaves(R, D, K), Protects(R, D, K, P, d)
    PROVE  QuietIsRecorded'
<1> USE DEF Leaves, Protects
<1>1. /\ \A r, q \in Live : \A k : k \in KeysOf(r.node) /\ k \in KeysOf(q.node) => r = q
      /\ \A r \in Live, s \in settling : \A k : ~(k \in KeysOf(r.node) /\ k \in KeysOf(s.node))
      /\ \A r \in reserving, q \in Live \cup settling :
            \A k : ~(k \in KeysOf(r.node) /\ k \in KeysOf(q.node))
  <2>1. WorkIsApart
    BY DEF SamplerInv
  <2> QED
    BY <2>1, Apart
<1>2. /\ Live' \subseteq Live \ R /\ Leased(R) \subseteq R /\ R \subseteq Live
      /\ Leased(Live') \subseteq Leased(Live) /\ Leased(R) \subseteq Leased(Live)
      /\ Leased(P) \subseteq Leased(Live) /\ Leased(P) \subseteq P
      /\ Leased(Live') \subseteq Live' /\ Leased(R \ P) \subseteq R \ P
      /\ Leased(R \ P) \subseteq Leased(Live)
  BY DEF Live, Leased
<1>3. /\ quiet \in [Keys -> 0..Long] /\ db \in [Keys -> DbRows] /\ db' \in [Keys -> DbRows]
      /\ \A k \in Keys : quiet[k] \in Nat
      /\ \A r \in Live \cup settling \cup reserving : r.node \in Contacts
      /\ \A r \in settling' : r \in Debts
  BY DelayAssumption DEF SamplerInv, SamplerTypes, Live, Requests, Debts, Reservations
<1>4. /\ \A k \in Keys : quiet[k] > 0 =>
           /\ db[k] # NoRow
           /\ db[k].pending \/ (db[k].left >= quiet[k] /\ db[k].dur >= quiet[k])
      /\ \A r \in Leased(Live) \cup reserving : \A k \in KeysOf(r.node) : quiet[k] = 0
      /\ \A s \in settling : \A k \in KeysOf(s.node) :
           IF s.op = "abandon" THEN quiet[k] = 0
           ELSE quiet[k] <= s.left /\ quiet[k] <= s.dur
  BY DEF SamplerInv, QuietIsRecorded
<1> DEFINE U == KeysOfAll(Leased(P))
<1>5. \A k \in Keys : /\ k \notin U => quiet'[k] = quiet[k]
                      /\ k \in U => quiet[k] = 0 /\ quiet'[k] = d
  <2>1. \A k \in U : quiet[k] = 0
    BY <1>2, <1>4, KeysOfMany
  <2>2. quiet \in [Keys -> Int]
    BY <1>3
  <2> QED
    BY <2>1, <2>2, RaisedTimes
<1>6. \A k : k \in U <=> \E r \in Leased(P) : k \in KeysOf(r.node)
  BY KeysOfMany
<1> HIDE DEF U
<1>7. ASSUME NEW k \in Keys, quiet'[k] > 0
      PROVE  /\ db'[k] # NoRow
             /\ db'[k].pending \/ (db'[k].left >= quiet'[k] /\ db'[k].dur >= quiet'[k])
  <2>1. CASE k \in U
    <3>1. k \notin K
      BY <2>1, <1>7 DEF U
    <3>2. db[k].pending
      BY <1>2, <1>6, <2>1 DEF SamplerInv, RowsAreHeld
    <3> QED
      BY <1>3, <3>1, <3>2, RowFacts
  <2>2. CASE k \notin U
    <3>1. quiet'[k] = quiet[k]
      BY <1>5, <2>2
    <3>2. CASE k \in K
      BY <1>7, <3>1, <3>2
    <3>3. CASE k \notin K
      BY <1>4, <1>7, <3>1, <3>3
    <3> QED
      BY <3>2, <3>3
  <2> QED
    BY <2>1, <2>2
<1>8. ASSUME NEW r \in Leased(Live') \cup reserving', NEW k \in KeysOf(r.node)
      PROVE  quiet'[k] = 0
  <2>1. PICK q \in Leased(Live) \cup reserving : /\ q.node = r.node
                                                 /\ q \in Live' \/ q \in reserving
    BY <1>2, <1>8
  <2>2. k \in Keys /\ quiet[k] = 0
    BY <1>2, <1>3, <1>4, <1>8, <2>1, ContactKeys
  <2>3. k \notin U
    BY <1>1, <1>2, <1>6, <1>8, <2>1
  <2> QED
    BY <1>5, <2>2, <2>3
<1>9. ASSUME NEW s \in settling', NEW k \in KeysOf(s.node)
      PROVE  IF s.op = "abandon" THEN quiet'[k] = 0
             ELSE quiet'[k] <= s.left /\ quiet'[k] <= s.dur
  <2>1. CASE s \in settling
    <3>1. k \in Keys /\ k \notin U
      BY <1>1, <1>2, <1>3, <1>6, <1>9, <2>1, ContactKeys
    <3>2. IF s.op = "abandon" THEN quiet[k] = 0
          ELSE quiet[k] <= s.left /\ quiet[k] <= s.dur
      BY <1>4, <1>9, <2>1
    <3> QED
      BY <1>5, <3>1, <3>2
  <2>2. CASE s \in D
    <3>1. PICK r \in Leased(R) : s.node = r.node
      BY <2>2
    <3>2. k \in Keys /\ quiet[k] = 0
      BY <1>2, <1>3, <1>4, <1>9, <3>1, ContactKeys
    <3>3. CASE s.op = "abandon"
      <4>1. PICK q \in Leased(R \ P) : s.node = q.node
        BY <2>2, <3>3
      <4>2. ASSUME NEW p \in Leased(P) PROVE k \notin KeysOf(p.node)
        <5>1. p \in P /\ q \in R \ P /\ p \in Live /\ q \in Live
          BY <1>2
        <5>2. p # q /\ k \in KeysOf(q.node)
          BY <1>9, <4>1, <5>1
        <5> QED
          BY <1>1, <5>1, <5>2
      <4> QED
        BY <1>5, <1>6, <3>2, <3>3, <4>2
    <3>4. CASE s.op # "abandon"
      <4>1. s.left >= d /\ s.dur >= d /\ s.left \in Nat /\ s.dur \in Nat
        BY <1>3, <2>2, <3>4 DEF Debts
      <4>2. quiet'[k] = 0 \/ quiet'[k] = d
        BY <1>5, <3>2
      <4> QED
        BY <3>4, <4>1, <4>2
    <3> QED
      BY <3>3, <3>4
  <2> QED
    BY <2>1, <2>2
<1> QED
  BY <1>7, <1>8, <1>9 DEF QuietIsRecorded

(* Memory forgets only what was withdrawn and raises only what it had.     *)
Remembers(R, D, P, d) ==
    /\ ready' = ready \ R /\ queued' = queued \ R /\ pending' = pending \ R
    /\ settling' = settling \cup D
    /\ \A r \in Leased(R) : \E x \in D : x.node = r.node
    /\ \A r \in reserving' : \E q \in reserving : r.node = q.node /\ (r.mine => q.mine)
    /\ \A q \in reserving : \E r \in reserving' : r.node = q.node /\ r.answer = q.answer
    /\ session' => session
    /\ \A k \in Keys : /\ mem[k] = Absent => mem'[k] = Absent
                       /\ k \notin KeysOfAll(Leased(R \ P)) => mem'[k] >= mem[k]
                       /\ k \in KeysOfAll(Leased(P)) => mem'[k] >= d
    /\ \A x \in D : \A k \in KeysOf(x.node) :
          x.op = "settle" /\ x.left > 0 => mem'[k] >= x.left
    /\ \A r \in Leased(Live') : \A k \in KeysOf(r.node) : mem'[k] = mem[k]
    /\ \A r \in reserving' : Admitted(r)' =>
          r.node \in inflight' /\ \A k \in KeysOf(r.node) : mem'[k] = mem[k]
    /\ inflight' \subseteq inflight /\ NodesOf(Live') \subseteq inflight'
    /\ Live' # {} => session'
    /\ \A c \in inflight' : \A k \in KeysOf(c) : mem'[k] # Absent

(* Without a storage error it then knows of all that the table holds.      *)
LEMMA Remembered ==
    ASSUME SamplerInv, ~fault, SamplerTypes', NEW R, NEW D, NEW P, NEW d, db' = db,
           Leaves(R, D, {}), Protects(R, D, {}, P, d), Remembers(R, D, P, d)
    PROVE  MemoryIsComplete'
<1> USE DEF Leaves, Protects, Remembers
<1> USE DEF SamplerInv
<1>1. /\ \A r, q \in Live : \A k : k \in KeysOf(r.node) /\ k \in KeysOf(q.node) => r = q
      /\ \A r \in Live, s \in settling : \A k : ~(k \in KeysOf(r.node) /\ k \in KeysOf(s.node))
  BY Apart
<1>2. /\ Live' = Live \ R /\ Leased(R) \subseteq R /\ R \subseteq Live
      /\ Leased(Live') \subseteq Leased(Live) /\ Leased(R) \subseteq Leased(Live)
      /\ Leased(Live) \subseteq Leased(Live') \cup Leased(R)
      /\ Leased(P) \subseteq Leased(Live) /\ Leased(P) \subseteq P
      /\ Leased(R \ P) \subseteq Leased(Live) /\ Leased(R \ P) \subseteq Live
  BY DEF Live, Leased
<1>3. /\ quiet \in [Keys -> 0..Long] /\ db \in [Keys -> DbRows]
      /\ mem \in [Keys -> Nat \cup {Absent}] /\ mem' \in [Keys -> Nat \cup {Absent}]
      /\ \A r \in Live \cup settling \cup reserving : r.node \in Contacts
      /\ \A s \in settling : s.left \in Nat
  BY DEF SamplerTypes, Live, Requests, Debts, Reservations
<1>4. \A k \in Keys : /\ quiet[k] \in Int /\ quiet'[k] \in Int /\ mem[k] \in Int /\ mem'[k] \in Int
                      /\ db[k].left \in Int
  BY <1>3, RowFacts, DelayAssumption DEF SamplerTypes, Absent
<1>5. MemoryIsComplete
  OBVIOUS
<1> DEFINE V == KeysOfAll(Leased(R \ P))
           U == KeysOfAll(Leased(P))
<1>6. \A k \in V : /\ quiet[k] = 0 /\ db[k].pending
                   /\ \A s \in settling : k \notin KeysOf(s.node)
  <2> SUFFICES ASSUME NEW k \in V
               PROVE  /\ quiet[k] = 0 /\ db[k].pending
                      /\ \A s \in settling : k \notin KeysOf(s.node)
    OBVIOUS
  <2>1. PICK r \in Leased(R \ P) : r \in Leased(Live) /\ r \in Live /\ k \in KeysOf(r.node)
    BY <1>2, KeysOfMany
  <2>2. quiet[k] = 0
    BY <2>1 DEF QuietIsRecorded
  <2>3. db[k].pending
    BY <2>1 DEF RowsAreHeld
  <2> QED
    BY <1>1, <2>1, <2>2, <2>3
<1>7. \A k \in Keys : /\ k \notin U => quiet'[k] = quiet[k]
                      /\ k \in U => quiet'[k] = d
  <2>1. \A k \in U : quiet[k] = 0
    BY <1>2, KeysOfMany DEF QuietIsRecorded
  <2>2. quiet \in [Keys -> Int]
    BY <1>3
  <2> QED
    BY <2>1, <2>2, RaisedTimes
<1> HIDE DEF U, V
<1>8. /\ \A k \in Keys : /\ mem[k] = Absent => mem'[k] = Absent
                         /\ k \notin V => mem'[k] >= mem[k]
                         /\ k \in U => mem'[k] >= d
  BY DEF U, V
<1>9. \A r \in reserving' : Admitted(r)' =>
         r.node \in inflight' /\ \A k \in KeysOf(r.node) : mem'[k] = 0
  <2> SUFFICES ASSUME NEW r \in reserving', Admitted(r)', NEW k \in KeysOf(r.node)
               PROVE  r.node \in inflight' /\ mem'[k] = 0
    BY ContactKeys DEF SamplerTypes, Reservations
  <2>1. PICK q \in reserving : r.node = q.node /\ Admitted(q)
    BY DEF Admitted
  <2>2. mem[k] = 0
    BY <1>5, <2>1 DEF MemoryIsComplete
  <2> QED
    BY <2>2
<1>10. \A r \in Leased(Live') : \A k \in KeysOf(r.node) : mem'[k] = 0
  <2>1. \A r \in Leased(Live') : \A k \in KeysOf(r.node) : mem[k] = 0
    BY <1>2, <1>5 DEF MemoryIsComplete
  <2> QED
    BY <2>1
<1>11. ASSUME NEW T \in {Ids, Ips} PROVE Cardinality(Present(mem, T))' <= Capacity
  <2>1. IsFiniteSet(T) /\ T \subseteq Keys
    BY KeyKinds
  <2>2. Present(mem, T) \subseteq T /\ Present(mem, T)' \subseteq Present(mem, T)
    BY <1>8, <2>1 DEF Present
  <2>3. IsFiniteSet(Present(mem, T)) /\ IsFiniteSet(Present(mem, T)')
    BY <2>1, <2>2, FS_Subset
  <2>4. /\ Cardinality(Present(mem, T)') <= Cardinality(Present(mem, T))
        /\ Cardinality(Present(mem, T)') \in Nat /\ Cardinality(Present(mem, T)) \in Nat
    BY <2>2, <2>3, FS_Subset, FS_CardinalityType
  <2>5. Cardinality(Present(mem, T)) <= Capacity /\ Capacity \in Nat
    BY <1>5, LimitAssumption DEF MemoryIsComplete
  <2> QED
    BY <2>4, <2>5
<1>12. ASSUME NEW k \in Keys, quiet'[k] > 0 PROVE mem'[k] >= quiet'[k]
  <2>1. CASE k \in U
    BY <1>7, <1>8, <2>1
  <2>2. CASE k \notin U
    <3>1. quiet'[k] = quiet[k] /\ k \notin V
      BY <1>4, <1>6, <1>7, <1>12, <2>2
    <3>2. mem[k] >= quiet[k]
      BY <1>5, <1>12, <3>1 DEF MemoryIsComplete
    <3> QED
      BY <1>4, <1>8, <3>1, <3>2
  <2> QED
    BY <2>1, <2>2
<1>13. ASSUME NEW k \in Keys, ~db'[k].pending, db'[k].left > 0 PROVE mem'[k] >= db'[k].left
  <2>1. k \notin V /\ mem[k] >= db[k].left
    BY <1>5, <1>6, <1>13 DEF MemoryIsComplete
  <2> QED
    BY <1>4, <1>8, <2>1
<1>14. ASSUME NEW k \in Keys, db'[k].pending
       PROVE  k \in KeysOfAll(Leased(Live') \cup settling'
                        \cup {r \in reserving' : r.answer # "none"})
  <2>1. k \in KeysOfAll(Leased(Live) \cup settling \cup {r \in reserving : r.answer # "none"})
    BY <1>5, <1>14 DEF MemoryIsComplete
  <2>2. PICK r \in Leased(Live) \cup settling \cup {q \in reserving : q.answer # "none"} :
           k \in KeysOf(r.node)
    BY <2>1, KeysOfMany
  <2>3. \E q \in Leased(Live') \cup settling' \cup {p \in reserving' : p.answer # "none"} :
           q.node = r.node
    <3>1. CASE r \in Leased(R)
      BY <3>1
    <3>2. CASE r \in Leased(Live') \/ r \in settling
      BY <3>2
    <3>3. CASE r \in reserving /\ r.answer # "none"
      BY <3>3
    <3> QED
      BY <1>2, <2>2, <3>1, <3>2, <3>3
  <2> QED
    BY <2>2, <2>3, KeysOfMany
<1>15. ASSUME NEW s \in settling', NEW k \in KeysOf(s.node), s.op = "settle", s.left > 0
       PROVE  mem'[k] >= s.left
  <2>1. CASE s \in D
    BY <1>15, <2>1
  <2>2. CASE s \in settling
    <3>1. k \in Keys /\ k \notin V /\ mem[k] >= s.left
      BY <1>3, <1>5, <1>6, <1>15, <2>2, ContactKeys DEF MemoryIsComplete
    <3> QED
      BY <1>3, <1>4, <1>8, <2>2, <3>1
  <2> QED
    BY <2>1, <2>2
<1>16. /\ \A c, e \in inflight' : KeysOf(c) \cap KeysOf(e) # {} => c = e
       /\ \A r \in reserving', c \in inflight' : KeysOf(r.node) \cap KeysOf(c) # {} => c = r.node
  BY <1>5 DEF MemoryIsComplete
<1> QED
  BY <1>9, <1>10, <1>11, <1>12, <1>13, <1>14, <1>15, <1>16 DEF MemoryIsComplete

-----------------------------------------------------------------------------
(* The steps.                                                              *)

(* Nothing but the control changes, or requests go from hand to hand.      *)
LEMMA SameWork ==
    ASSUME SamplerInv, Live' = Live, ready' \subseteq ready,
           ready' \cap queued' = {}, ready' \cap pending' = {}, queued' \cap pending' = {},
           UNCHANGED <<session, mem, inflight, reserving, settling, db, quiet>>
    PROVE  WorkIsApart' /\ RowsAreHeld' /\ QuietIsRecorded' /\ (~fault => MemoryIsComplete')
<1> USE DEF SamplerInv
<1>1. WorkIsApart'
  BY DEF WorkIsApart
<1>2. RowsAreHeld'
  <2>1. Leased(Live)' = Leased(Live) /\ Granted' = Granted
    BY DEF Leased, Granted
  <2>2. \A T, E : (Rows(T) \ E)' = Rows(T) \ E /\ Rows(T)' = Rows(T)
    BY DEF Rows
  <2> QED
    BY <2>1, <2>2 DEF RowsAreHeld
<1>3. QuietIsRecorded'
  BY DEF QuietIsRecorded
<1>4. ~fault => MemoryIsComplete'
  BY DEF MemoryIsComplete, Admitted
<1> QED
  BY <1>1, <1>2, <1>3, <1>4

(* Candidates for the fallback come and go.                                *)
LEMMA FallbackStep ==
    ASSUME SamplerInv, ResetRound \/ \E i \in fallback : DropCandidate(i)
    PROVE  SamplerInv'
<1>1. /\ UNCHANGED <<pc, fault, paused, idPaused, session, mem, inflight, reserving, ready,
                     queued, pending, settling, db, quiet>>
      /\ fallback' \subseteq fallback
  BY DEF ResetRound, DropCandidate, control
<1>2. Live' = Live
  BY <1>1 DEF Live
<1>3. WorkIsApart' /\ RowsAreHeld' /\ QuietIsRecorded' /\ (~fault => MemoryIsComplete')
  BY <1>1, <1>2, SameWork DEF SamplerInv, WorkIsApart
<1>4. SamplerTypes' /\ StopsAreClean'
  BY <1>1, <1>2 DEF SamplerInv, SamplerTypes, StopsAreClean
<1> QED
  BY <1>1, <1>3, <1>4 DEF SamplerInv

(* A reserved request is queued, a queued one is sent.                     *)
LEMMA HandOverStep ==
    ASSUME SamplerInv, TakeReserved \/ \E r \in queued : SendQueued(r)
    PROVE  SamplerInv'
<1>1. /\ UNCHANGED <<pc, fault, paused, idPaused, session, mem, inflight, fallback, reserving,
                     settling, db, quiet>>
      /\ pc = "loop"
  BY DEF TakeReserved, SendQueued, control, MayAdvance
<1>2. \/ queued' = queued \cup ready /\ ready' = {} /\ pending' = pending
      \/ \E r \in queued : queued' = queued \ {r} /\ pending' = pending \cup {r} /\ ready' = ready
  BY DEF TakeReserved, SendQueued
<1>3. /\ ready \cap queued = {} /\ ready \cap pending = {} /\ queued \cap pending = {}
  BY DEF SamplerInv, WorkIsApart
<1>4. /\ Live' = Live
      /\ ready' \cap queued' = {} /\ ready' \cap pending' = {} /\ queued' \cap pending' = {}
      /\ ready' \subseteq ready
  BY <1>2, <1>3 DEF Live
<1>5. WorkIsApart' /\ RowsAreHeld' /\ QuietIsRecorded' /\ (~fault => MemoryIsComplete')
  BY <1>1, <1>4, SameWork
<1>6. SamplerTypes'
  BY <1>1, <1>2 DEF SamplerInv, SamplerTypes
<1>7. StopsAreClean'
  BY <1>1, <1>4 DEF SamplerInv, StopsAreClean
<1> QED
  BY <1>1, <1>5, <1>6, <1>7 DEF SamplerInv

(* Queued requests R are withdrawn: a pause, or one that cannot be sent.   *)
LEMMA WithdrawStep ==
    ASSUME SamplerInv, NEW R \in SUBSET queued, pc = "loop", pc' = "loop",
           mem' = Forgotten(mem, R), inflight' = inflight \ NodesOf(R),
           settling' = settling \cup Withdrawals(R), queued' = queued \ R,
           paused' \in BOOLEAN,
           UNCHANGED <<session, fallback, reserving, ready, pending, db, fault, idPaused, quiet>>
    PROVE  SamplerInv'
<1>1. /\ ready \cap queued = {} /\ queued \cap pending = {} /\ R \in SUBSET Live
      /\ R \in SUBSET Requests
  BY DEF SamplerInv, WorkIsApart, SamplerTypes, Live
<1>2. /\ ready' = ready \ R /\ queued' = queued \ R /\ pending' = pending \ R
      /\ Live' = Live \ R
  BY <1>1 DEF Live
<1> DEFINE D == Withdrawals(R)
<1>3. /\ D \subseteq Debts
      /\ \A x \in D : x.op = "abandon" /\ x.left = 0 /\ x.dur = 0
      /\ \A x \in D : \E r \in Leased(R) : x.node = r.node /\ x.lease = r.lease
      /\ \A r \in Leased(R) : \E x \in D : x.node = r.node
  BY <1>1, Owed
<1>4. \A x, y \in D : x.node = y.node => x = y
  <2>1. \A r, q \in Live : \A k : k \in KeysOf(r.node) /\ k \in KeysOf(q.node) => r = q
    BY Apart DEF SamplerInv
  <2>2. \A r, q \in Leased(R) : r.node = q.node => r.lease = q.lease
    BY <1>1, <2>1, ContactKeys DEF Leased, Requests
  <2> QED
    BY <2>2 DEF Withdrawals
<1> HIDE DEF D
<1>5. SamplerTypes'
  <2>1. mem' \in [Keys -> Nat \cup {Absent}]
    BY DEF Forgotten, SamplerInv, SamplerTypes
  <2> QED
    BY <1>3, <2>1 DEF SamplerInv, SamplerTypes, D
<1>6. Leaves(R, D, {})
  <2>1. \A r, q \in reserving' : r = q
    BY Apart DEF SamplerInv
  <2> QED
    BY <1>1, <1>2, <1>3, <1>4, <2>1 DEF Leaves, D
<1>7. quiet' = Raised(quiet, KeysOfAll(Leased({})), 0)
  <2>1. quiet \in [Keys -> 0..Long] /\ KeysOfAll(Leased({})) = {}
    BY DEF SamplerInv, SamplerTypes, KeysOfAll, Leased
  <2> QED
    BY <2>1 DEF Raised
<1>8. Protects(R, D, {}, {}, 0)
  <2>1. R \ {} = R
    OBVIOUS
  <2> QED
    BY <1>3, <1>7, <2>1 DEF Protects
<1>9. StopsAreClean'
  BY <1>2 DEF SamplerInv, StopsAreClean
<1>10. ASSUME ~fault PROVE MemoryIsComplete'
  <2> DEFINE V == KeysOfAll(Leased(R))
  <2>1. \A k \in Keys : /\ k \in V => mem'[k] = Absent
                        /\ k \notin V => mem'[k] = mem[k]
    BY ForgottenTimes
  <2> HIDE DEF V
  <2>2. MemoryIsComplete
    BY <1>10 DEF SamplerInv
  <2>3. /\ \A r, q \in Live : \A k : k \in KeysOf(r.node) /\ k \in KeysOf(q.node) => r = q
        /\ \A r \in reserving, q \in Live : \A k : ~(k \in KeysOf(r.node) /\ k \in KeysOf(q.node))
        /\ \A r \in Live \cup reserving : r.node \in Contacts
    BY Apart DEF SamplerInv, SamplerTypes, Live, Requests, Reservations
  <2>4. \A k \in V : \E r \in R : k \in KeysOf(r.node)
    BY KeysOfMany DEF V, Leased
  <2>5. \A k \in Keys : mem[k] \in Int
    BY DEF SamplerInv, SamplerTypes, Absent
  <2>6. ASSUME NEW r \in Leased(Live'), NEW k \in KeysOf(r.node) PROVE mem'[k] = mem[k]
    <3>1. r \in Live \ R /\ k \in Keys
      BY <1>2, <2>3, <2>6, ContactKeys DEF Leased
    <3> QED
      BY <1>1, <2>1, <2>3, <2>4, <2>6, <3>1
  <2>7. ASSUME NEW r \in reserving', Admitted(r)'
        PROVE  r.node \in inflight' /\ \A k \in KeysOf(r.node) : mem'[k] = mem[k]
    <3>1. r \in reserving /\ r.node \in inflight /\ r.node \in Contacts
      BY <2>2, <2>3, <2>7 DEF MemoryIsComplete, Admitted
    <3>2. \A q \in R : q.node # r.node
      BY <1>1, <2>3, <3>1, ContactKeys
    <3>3. \A k \in KeysOf(r.node) : k \in Keys /\ k \notin V
      BY <1>1, <2>3, <2>4, <3>1, ContactKeys
    <3> QED
      BY <2>1, <3>1, <3>2, <3>3 DEF NodesOf
  <2>8. NodesOf(Live') \subseteq inflight'
    <3> SUFFICES ASSUME NEW r \in Live \ R PROVE r.node \in inflight \ NodesOf(R)
      BY <1>2 DEF NodesOf
    <3>1. r.node \in inflight
      BY <2>2 DEF MemoryIsComplete, NodesOf
    <3>2. \A q \in R : q.node # r.node
      BY <1>1, <2>3, ContactKeys
    <3> QED
      BY <3>1, <3>2 DEF NodesOf
  <2>9. ASSUME NEW c \in inflight', NEW k \in KeysOf(c) PROVE mem'[k] # Absent
    <3>1. c \in inflight /\ c \notin NodesOf(R) /\ c \in Contacts
      BY DEF SamplerInv, SamplerTypes
    <3>2. k \in Keys /\ mem[k] # Absent
      BY <2>2, <2>9, <3>1, ContactKeys DEF MemoryIsComplete
    <3>3. ASSUME k \in V PROVE FALSE
      <4>1. PICK r \in R : k \in KeysOf(r.node)
        BY <2>4, <3>3
      <4>2. r.node \in inflight
        BY <1>1, <2>2, <4>1 DEF MemoryIsComplete, NodesOf
      <4>3. c = r.node
        BY <2>2, <2>9, <3>1, <4>1, <4>2 DEF MemoryIsComplete
      <4> QED
        BY <3>1, <4>3 DEF NodesOf
    <3> QED
      BY <2>1, <3>2, <3>3
  <2>10. Live' # {} => session'
    BY <1>2, <2>2 DEF MemoryIsComplete
  <2>11. \A k \in Keys : /\ mem[k] = Absent => mem'[k] = Absent
                         /\ k \notin KeysOfAll(Leased(R \ {})) => mem'[k] >= mem[k]
                         /\ k \in KeysOfAll(Leased({})) => mem'[k] >= 0
    <3>1. R \ {} = R /\ KeysOfAll(Leased({})) = {}
      BY DEF KeysOfAll, Leased
    <3> QED
      BY <2>1, <2>5, <3>1 DEF V
  <2>12. inflight' \subseteq inflight /\ {} \in SUBSET R /\ settling' = settling \cup D
    BY DEF D
  <2>13. \A x \in D : \A k \in KeysOf(x.node) :
              x.op = "settle" /\ x.left > 0 => mem'[k] >= x.left
    BY <1>3
  <2>14. Remembers(R, D, {}, 0)
    BY <1>2, <1>3, <2>6, <2>7, <2>8, <2>9, <2>10, <2>11, <2>12, <2>13 DEF Remembers
  <2> QED
    BY <1>5, <1>6, <1>8, <1>10, <2>14, Remembered
<1> QED
  BY <1>5, <1>6, <1>8, <1>9, <1>10, Resolved, Quieted DEF SamplerInv

(* One request is over: it was answered, or may have been sent in part.    *)
(* Debts D are what its settlement owes, nothing if sampling has stopped   *)
(* for an error.                                                           *)
LEMMA SettleStep ==
    ASSUME SamplerInv, NEW r \in queued \cup pending, pc = "loop", pc' = "loop",
           queued' = queued \ {r}, pending' = pending \ {r},
           inflight' = inflight \ {r.node}, fallback' \subseteq Ids,
           UNCHANGED <<session, reserving, ready, db, fault, paused, idPaused>>,
           NEW d \in 1..Long, quiet' = Raised(quiet, KeysOfAll(Leased({r})), d),
           NEW e \in Nat, e >= d, NEW D, D = {} \/ D = Settlements({r}, e),
           settling' = settling \cup D, mem' \in [Keys -> Nat \cup {Absent}],
           ~fault => /\ D = Settlements({r}, e) /\ (r.lease # 0 => e = d)
                     /\ \/ mem' = Raised(mem, KeysOf(r.node), d)
                        \/ mem' = Raised(mem, KeysOfAll(Leased({r})), d)
    PROVE  SamplerInv'
<1> DEFINE R == {r}
<1>1. /\ R \in SUBSET Live /\ R \in SUBSET Requests /\ r \notin ready
      /\ r \in Live /\ r.node \in Contacts /\ r \in Requests
  BY DEF SamplerInv, WorkIsApart, SamplerTypes, Live, Requests
<1>2. /\ ready' = ready \ R /\ Live' = Live \ R
  BY <1>1 DEF Live
<1>3. /\ D \subseteq Debts
      /\ \A x \in D : x.op = "settle" /\ x.left = e /\ x.dur = e /\ x.node = r.node
      /\ \A x \in D : \E q \in Leased(R) : x.node = q.node /\ x.lease = q.lease
      /\ ~fault => \A q \in Leased(R) : \E x \in D : x.node = q.node
      /\ \A x, y \in D : x = y
  <2>1. \A x, y \in Settlements(R, e) : x = y
    BY DEF Settlements, Leased
  <2>2. \A q \in Leased(R) : q = r
    BY DEF Leased
  <2>3. /\ Settlements(R, e) \subseteq Debts
        /\ \A x \in Settlements(R, e) : x.op = "settle" /\ x.left = e /\ x.dur = e
        /\ \A x \in Settlements(R, e) : \E q \in Leased(R) : x.node = q.node /\ x.lease = q.lease
        /\ \A q \in Leased(R) : \E x \in Settlements(R, e) : x.node = q.node
    <3> HIDE DEF R
    <3>1. AreSettled(R, e, Settlements(R, e))
      BY <1>1, OwedSettlements
    <3> QED
      BY <3>1 DEF AreSettled
  <2> HIDE DEF R
  <2> QED
    BY <2>1, <2>2, <2>3 DEF R
<1>4. d \in Nat /\ d > 0
  BY DelayAssumption
<1>5. SamplerTypes'
  <2>1. quiet \in [Keys -> 0..Long] /\ quiet \in [Keys -> Int] /\ Long \in Nat
    BY DelayAssumption DEF SamplerInv, SamplerTypes
  <2>2. /\ quiet' \in [Keys -> Int]
        /\ \A k \in Keys : quiet'[k] \in {quiet[k], d}
    BY <1>4, <2>1, RaisedTimes
  <2>3. quiet' \in [Keys -> 0..Long]
    <3>1. \A k \in Keys : quiet[k] \in 0..Long /\ d \in 0..Long
      BY <1>4, <2>1
    <3>2. \A k \in Keys : quiet'[k] \in 0..Long
      BY <2>2, <3>1, Zenon
    <3>3. quiet' = [k \in Keys |-> quiet'[k]]
      BY <2>2
    <3> QED
      BY <3>2, <3>3
  <2> QED
    BY <1>2, <1>3, <2>3 DEF SamplerInv, SamplerTypes
<1>6. Leaves(R, D, {})
  <2>1. \A p, q \in reserving' : p = q
    BY Apart DEF SamplerInv
  <2> QED
    BY <1>1, <1>2, <1>3, <2>1 DEF Leaves
<1>7. Protects(R, D, {}, R, d)
  <2>1. \A x \in D : x.op # "abandon" /\ x.left >= d /\ x.dur >= d
    BY <1>3
  <2> QED
    BY <1>4, <2>1 DEF Protects
<1>8. StopsAreClean'
  BY <1>2 DEF SamplerInv, StopsAreClean
<1>9. ASSUME ~fault PROVE MemoryIsComplete'
  <2>1. MemoryIsComplete
    BY <1>9 DEF SamplerInv
  <2>2. /\ \A p, q \in Live : \A k : k \in KeysOf(p.node) /\ k \in KeysOf(q.node) => p = q
        /\ \A p \in reserving, q \in Live : \A k : ~(k \in KeysOf(p.node) /\ k \in KeysOf(q.node))
        /\ \A p \in Live \cup reserving : p.node \in Contacts
    BY Apart DEF SamplerInv, SamplerTypes, Live, Requests, Reservations
  <2>3. /\ r.lease # 0 => KeysOfAll(Leased(R)) = KeysOf(r.node)
        /\ r.lease = 0 => KeysOfAll(Leased(R)) = {}
        /\ KeysOfAll(Leased(R \ R)) = {}
    <3>1. r.lease # 0 => Leased(R) = {r}
      BY DEF Leased
    <3>2. r.lease = 0 => Leased(R) = {}
      BY DEF Leased
    <3>3. Leased(R \ R) = {}
      BY DEF Leased
    <3>4. KeysOfAll({r}) = KeysOf(r.node) /\ KeysOfAll({}) = {}
      BY DEF KeysOfAll
    <3> QED
      BY <3>1, <3>2, <3>3, <3>4, Zenon
  <2>4. mem \in [Keys -> Int] /\ \A k \in Keys : mem[k] \in Int /\ mem'[k] \in Int
    BY DEF SamplerInv, SamplerTypes, Absent
  <2>5. \A k \in Keys : /\ k \notin KeysOf(r.node) => mem'[k] = mem[k]
                        /\ mem'[k] >= mem[k]
                        /\ r.lease # 0 /\ k \in KeysOf(r.node) => mem'[k] >= d
                        /\ mem'[k] \in {mem[k], d}
    <3>1. CASE mem' = Raised(mem, KeysOf(r.node), d)
      BY <1>4, <2>4, <3>1, RaisedTimes
    <3>2. CASE mem' = Raised(mem, KeysOfAll(Leased(R)), d)
      <4>1. CASE r.lease # 0
        BY <1>4, <2>3, <2>4, <3>2, <4>1, RaisedTimes
      <4>2. CASE r.lease = 0
        <5>1. mem' = Raised(mem, {}, d)
          BY <2>3, <3>2, <4>2, Zenon
        <5> QED
          BY <1>4, <2>4, <4>2, <5>1, RaisedTimes
      <4> QED
        BY <4>1, <4>2
    <3> QED
      BY <1>9, <3>1, <3>2
  <2>6. r.node \in inflight
    BY <1>1, <2>1 DEF MemoryIsComplete, NodesOf
  <2>7. \A k \in KeysOf(r.node) : mem[k] # Absent
    BY <2>1, <2>6 DEF MemoryIsComplete
  <2>8. \A k \in Keys : /\ mem[k] = Absent => mem'[k] = Absent
                        /\ k \notin KeysOfAll(Leased(R \ R)) => mem'[k] >= mem[k]
                        /\ k \in KeysOfAll(Leased(R)) => mem'[k] >= d
    BY <2>3, <2>5, <2>7
  <2>9. \A x \in D : \A k \in KeysOf(x.node) :
           x.op = "settle" /\ x.left > 0 => mem'[k] >= x.left
    <3> SUFFICES ASSUME NEW x \in D, NEW k \in KeysOf(x.node) PROVE mem'[k] >= x.left
      OBVIOUS
    <3>1. x.left = e /\ k \in KeysOf(r.node) /\ k \in Keys
      BY <1>1, <1>3, ContactKeys
    <3>2. r.lease # 0
      BY <1>3 DEF Leased
    <3> QED
      BY <1>9, <2>5, <3>1, <3>2
  <2>10. ASSUME NEW q \in Leased(Live'), NEW k \in KeysOf(q.node) PROVE mem'[k] = mem[k]
    <3>1. q \in Live \ R /\ k \in Keys
      BY <1>2, <2>2, <2>10, ContactKeys DEF Leased
    <3> QED
      BY <1>1, <2>2, <2>5, <2>10, <3>1
  <2>11. ASSUME NEW q \in reserving', Admitted(q)'
         PROVE  q.node \in inflight' /\ \A k \in KeysOf(q.node) : mem'[k] = mem[k]
    <3>1. q \in reserving /\ q.node \in inflight /\ q.node \in Contacts
      BY <2>1, <2>2, <2>11 DEF MemoryIsComplete, Admitted
    <3>2. \A k \in KeysOf(q.node) : k \in Keys /\ k \notin KeysOf(r.node)
      BY <1>1, <2>2, <3>1, ContactKeys
    <3>3. q.node # r.node
      BY <3>1, <3>2, ContactKeys
    <3> QED
      BY <2>5, <3>1, <3>2, <3>3
  <2>12. NodesOf(Live') \subseteq inflight'
    <3> SUFFICES ASSUME NEW q \in Live \ R PROVE q.node \in inflight \ {r.node}
      BY <1>2 DEF NodesOf
    <3>1. q.node \in inflight
      BY <2>1 DEF MemoryIsComplete, NodesOf
    <3>2. q.node # r.node
      BY <1>1, <2>2, ContactKeys
    <3> QED
      BY <3>1, <3>2
  <2>13. ASSUME NEW c \in inflight', NEW k \in KeysOf(c) PROVE mem'[k] # Absent
    <3>1. c \in Contacts /\ c \in inflight
      BY DEF SamplerInv, SamplerTypes
    <3>2. k \in Keys /\ mem[k] # Absent /\ mem[k] \in Nat \cup {Absent}
      BY <2>1, <2>13, <3>1, ContactKeys DEF MemoryIsComplete, SamplerInv, SamplerTypes
    <3> QED
      BY <1>4, <2>5, <3>2 DEF Absent
  <2>14. Live' # {} => session'
    BY <1>2, <2>1 DEF MemoryIsComplete
  <2>15. inflight' \subseteq inflight /\ queued' = queued \ R /\ pending' = pending \ R
    OBVIOUS
  <2>16. Remembers(R, D, R, d)
    <3> HIDE DEF R
    <3> QED
      BY <1>2, <1>3, <1>9, <2>8, <2>9, <2>10, <2>11, <2>12, <2>13, <2>14, <2>15 DEF Remembers
  <2> QED
    BY <1>5, <1>6, <1>7, <1>9, <2>16, Remembered
<1> QED
  BY <1>5, <1>6, <1>7, <1>8, <1>9, Resolved, Quieted DEF SamplerInv

(* A pause, and a request that is given up before it was sent.             *)
LEMMA PauseStep ==
    ASSUME SamplerInv, SamplingPause \/ \E r \in queued : AbandonUnsent(r)
    PROVE  SamplerInv'
<1>1. CASE SamplingPause
  <2> DEFINE R == IF paused' THEN queued ELSE {}
  <2>1. /\ R \in SUBSET queued /\ pc = "loop" /\ pc' = "loop"
        /\ mem' = Forgotten(mem, R) /\ inflight' = inflight \ NodesOf(R)
        /\ settling' = settling \cup Withdrawals(R) /\ queued' = queued \ R
        /\ paused' \in BOOLEAN
        /\ UNCHANGED <<session, fallback, reserving, ready, pending, db, fault, idPaused, quiet>>
    BY <1>1 DEF SamplingPause, SamplerInv, SamplerTypes
  <2> HIDE DEF R
  <2> QED
    BY <2>1, WithdrawStep
<1>2. ASSUME NEW r \in queued, AbandonUnsent(r) PROVE SamplerInv'
  <2>1. /\ {r} \in SUBSET queued /\ pc = "loop" /\ pc' = "loop"
        /\ mem' = Forgotten(mem, {r}) /\ inflight' = inflight \ NodesOf({r})
        /\ settling' = settling \cup Withdrawals({r}) /\ queued' = queued \ {r}
        /\ paused' \in BOOLEAN
        /\ UNCHANGED <<session, fallback, reserving, ready, pending, db, fault, idPaused, quiet>>
    BY <1>2 DEF AbandonUnsent, SamplerInv, SamplerTypes, control, NodesOf
  <2> QED
    BY <2>1, WithdrawStep
<1> QED
  BY <1>1, <1>2

(* Answers, timeouts and errors, and packets that were sent in part.       *)
LEMMA AnswerStep ==
    ASSUME SamplerInv,
           \/ \E r \in queued : UncertainSend(r)
           \/ \E r \in pending : \/ \E d \in Delays : SampleOrFailure(r, d)
                                 \/ ContactsOnly(r) \/ Unsupported(r)
    PROVE  SamplerInv'
<1>1. /\ Long \in Nat /\ Long > 0 /\ Long \in 1..Long /\ Delays \subseteq 1..Long
      /\ queued \cap pending = {} /\ mem \in [Keys -> Nat \cup {Absent}]
      /\ mem \in [Keys -> Int] /\ (fault => ~session)
      /\ \A r \in queued \cup pending : r \in Live /\ r.node \in Contacts
  BY DelayAssumption DEF SamplerInv, WorkIsApart, SamplerTypes, StopsAreClean, Absent, Live, Requests
<1>2. ASSUME NEW K, NEW d \in 1..Long PROVE Raised(mem, K, d) \in [Keys -> Nat \cup {Absent}]
  BY <1>1 DEF Raised, Larger
<1>3. ASSUME NEW r, r.lease = 0 PROVE \A x, y : Settlements({r}, x) = Settlements({r}, y)
  BY <1>3 DEF Settlements, Leased
<1>4. ASSUME NEW r \in queued, UncertainSend(r) PROVE SamplerInv'
  <2>1. /\ pc = "loop" /\ pc' = "loop" /\ r \in queued \cup pending
        /\ queued' = queued \ {r} /\ pending' = pending \ {r}
        /\ inflight' = inflight \ {r.node} /\ fallback' \subseteq Ids
        /\ UNCHANGED <<session, reserving, ready, db, fault, paused, idPaused>>
        /\ quiet' = Raised(quiet, KeysOfAll(Leased({r})), Long)
        /\ settling' = settling \cup Settlements({r}, Long)
        /\ mem' = Raised(mem, KeysOfAll(Leased({r})), Long)
    BY <1>1, <1>4 DEF UncertainSend, control, SamplerInv, SamplerTypes
  <2>2. mem' \in [Keys -> Nat \cup {Absent}]
    BY <1>1, <1>2, <2>1, Zenon
  <2>3. /\ Long >= Long
        /\ Settlements({r}, Long) = {} \/ Settlements({r}, Long) = Settlements({r}, Long)
        /\ ~fault => /\ Settlements({r}, Long) = Settlements({r}, Long)
                     /\ (r.lease # 0 => Long = Long)
                     /\ \/ mem' = Raised(mem, KeysOf(r.node), Long)
                        \/ mem' = Raised(mem, KeysOfAll(Leased({r})), Long)
    BY <1>1, <2>1
  <2> DEFINE D == Settlements({r}, Long)
  <2> HIDE DEF D
  <2> QED
    BY <1>1, <2>1, <2>2, <2>3, SettleStep

<1>5. ASSUME NEW r \in pending, NEW d \in 1..Long, Answered(r), Demanded(r, d), fallback' \subseteq Ids
      PROVE  /\ pc = "loop" /\ pc' = "loop" /\ r \in queued \cup pending
             /\ queued' = queued \ {r} /\ pending' = pending \ {r}
             /\ inflight' = inflight \ {r.node} /\ fallback' \subseteq Ids
             /\ UNCHANGED <<session, reserving, ready, db, fault, paused, idPaused>>
             /\ quiet' = Raised(quiet, KeysOfAll(Leased({r})), d)
             /\ d \in Nat /\ d >= d /\ r.node \in Contacts
             /\ ~fault => session /\ (r.lease # 0 => mem[r.node.id] = 0)
  <2>1. ~fault => session /\ (r.lease # 0 => mem[r.node.id] = 0)
    <3> SUFFICES ASSUME ~fault PROVE session /\ (r.lease # 0 => mem[r.node.id] = 0)
      OBVIOUS
    <3>1. MemoryIsComplete /\ r \in Live
      BY <1>1 DEF SamplerInv
    <3> QED
      BY <1>1, <3>1, ContactKeys DEF MemoryIsComplete, Leased
  <2> QED
    BY <1>1, <1>5, <2>1 DEF Answered, Demanded, control
<1>6. ASSUME NEW r \in pending, NEW d \in 1..Long, Answered(r), Demanded(r, d), fallback' \subseteq Ids,
             session, Settle(r, KeysOf(r.node), d)
      PROVE  SamplerInv'
  <2>1. /\ pc = "loop" /\ pc' = "loop" /\ r \in queued \cup pending
        /\ queued' = queued \ {r} /\ pending' = pending \ {r}
        /\ inflight' = inflight \ {r.node} /\ fallback' \subseteq Ids
        /\ UNCHANGED <<session, reserving, ready, db, fault, paused, idPaused>>
        /\ quiet' = Raised(quiet, KeysOfAll(Leased({r})), d)
        /\ d \in Nat /\ d >= d /\ r.node \in Contacts
        /\ ~fault => session /\ (r.lease # 0 => mem[r.node.id] = 0)
    BY <1>5, <1>6
  <2>2. /\ mem' = Raised(mem, KeysOf(r.node), d)
        /\ settling' = settling \cup Settlements({r}, Larger(mem'[r.node.id], 1))
    BY <1>6 DEF Settle
  <2>3. mem' \in [Keys -> Nat \cup {Absent}]
    BY <1>2, <2>2, Zenon
  <2>4. r.lease # 0 => Larger(mem'[r.node.id], 1) = d
    <3> SUFFICES ASSUME r.lease # 0 PROVE Larger(mem'[r.node.id], 1) = d
      OBVIOUS
    <3>1. mem[r.node.id] = 0 /\ r.node.id \in Keys /\ r.node.id \in KeysOf(r.node)
      BY <1>1, <1>6, <2>1, ContactKeys, KeyKinds
    <3>2. mem'[r.node.id] = d
      BY <1>1, <2>1, <2>2, <3>1, RaisedTimes
    <3> QED
      BY <3>2 DEF Larger
  <2>5. Settlements({r}, Larger(mem'[r.node.id], 1)) = Settlements({r}, d)
    BY <1>3, <2>4, Zenon
  <2> DEFINE D == Settlements({r}, d)
  <2>6. /\ settling' = settling \cup D /\ (D = {} \/ D = Settlements({r}, d))
        /\ ~fault => /\ D = Settlements({r}, d) /\ (r.lease # 0 => d = d)
                     /\ \/ mem' = Raised(mem, KeysOf(r.node), d)
                        \/ mem' = Raised(mem, KeysOfAll(Leased({r})), d)
    BY <2>2, <2>5, Zenon
  <2> HIDE DEF D
  <2> QED
    BY <2>1, <2>3, <2>6, SettleStep
<1>7. ASSUME NEW r \in pending, NEW d \in 1..Long, Answered(r), Demanded(r, d), fallback' \subseteq Ids,
             ~session, UNCHANGED <<mem, settling>>
      PROVE  SamplerInv'
  <2>1. /\ pc = "loop" /\ pc' = "loop" /\ r \in queued \cup pending
        /\ queued' = queued \ {r} /\ pending' = pending \ {r}
        /\ inflight' = inflight \ {r.node} /\ fallback' \subseteq Ids
        /\ UNCHANGED <<session, reserving, ready, db, fault, paused, idPaused>>
        /\ quiet' = Raised(quiet, KeysOfAll(Leased({r})), d)
        /\ d \in Nat /\ d >= d /\ r.node \in Contacts
        /\ ~fault => session /\ (r.lease # 0 => mem[r.node.id] = 0)
    BY <1>5, <1>7
  <2> DEFINE D == {}
  <2>2. /\ settling' = settling \cup D /\ (D = {} \/ D = Settlements({r}, d))
        /\ mem' \in [Keys -> Nat \cup {Absent}]
        /\ ~fault => /\ D = Settlements({r}, d) /\ (r.lease # 0 => d = d)
                     /\ \/ mem' = Raised(mem, KeysOf(r.node), d)
                        \/ mem' = Raised(mem, KeysOfAll(Leased({r})), d)
    BY <1>1, <1>7, <2>1
  <2> HIDE DEF D
  <2> QED
    BY <2>1, <2>2, SettleStep
<1>8. ASSUME NEW r \in pending, ContactsOnly(r) PROVE SamplerInv'
  <2>1. /\ pc = "loop" /\ pc' = "loop" /\ r \in queued \cup pending
        /\ queued' = queued \ {r} /\ pending' = pending \ {r}
        /\ inflight' = inflight \ {r.node} /\ fallback' \subseteq Ids
        /\ UNCHANGED <<session, reserving, ready, db, fault, paused, idPaused>>
        /\ quiet' = Raised(quiet, KeysOfAll(Leased({r})), Long)
        /\ Long \in Nat /\ Long >= Long /\ r.node \in Contacts
        /\ ~fault => session /\ (r.lease # 0 => mem[r.node.id] = 0)
    <3>1. Answered(r) /\ Demanded(r, Long) /\ fallback' \subseteq Ids /\ Long \in 1..Long
      BY <1>1, <1>8 DEF ContactsOnly, SamplerInv, SamplerTypes
    <3> QED
      BY <1>5, <3>1
  <2>2. /\ mem' = Raised(mem, KeysOfAll(Leased({r})), Long)
        /\ settling' = settling \cup Settlements({r}, Larger(mem'[r.node.id], 1))
    BY <1>8 DEF ContactsOnly, Settle
  <2>3. mem' \in [Keys -> Nat \cup {Absent}]
    BY <1>1, <1>2, <2>2, Zenon
  <2> DEFINE e == IF r.lease # 0 THEN Larger(mem'[r.node.id], 1) ELSE Long
  <2>4. e \in Nat /\ e >= Long /\ (~fault /\ r.lease # 0 => e = Long)
    <3>1. CASE r.lease = 0
      BY <2>1, <3>1
    <3>2. CASE r.lease # 0
      <4>1. Leased({r}) = {r}
        BY <3>2 DEF Leased
      <4>2. r.node.id \in KeysOfAll(Leased({r})) /\ r.node.id \in Keys
        BY <2>1, <4>1, ContactKeys, KeyKinds DEF KeysOfAll
      <4>3. /\ mem'[r.node.id] >= Long /\ mem'[r.node.id] \in Int
            /\ mem[r.node.id] = 0 => mem'[r.node.id] = Long
        BY <1>1, <2>2, <4>2, RaisedTimes
      <4> QED
        BY <1>1, <2>1, <3>2, <4>3 DEF Larger
    <3> QED
      BY <3>1, <3>2
  <2>5. Settlements({r}, Larger(mem'[r.node.id], 1)) = Settlements({r}, e)
    <3>1. CASE r.lease = 0
      BY <1>3, <3>1, Zenon
    <3>2. CASE r.lease # 0
      BY <3>2
    <3> QED
      BY <3>1, <3>2
  <2> HIDE DEF e
  <2> DEFINE D == Settlements({r}, e)
  <2>6. /\ settling' = settling \cup D /\ (D = {} \/ D = Settlements({r}, e))
        /\ ~fault => /\ D = Settlements({r}, e) /\ (r.lease # 0 => e = Long)
                     /\ \/ mem' = Raised(mem, KeysOf(r.node), Long)
                        \/ mem' = Raised(mem, KeysOfAll(Leased({r})), Long)
    BY <2>2, <2>4, <2>5, Zenon
  <2> HIDE DEF D
  <2> QED
    BY <1>1, <2>1, <2>3, <2>4, <2>6, SettleStep
<1>9. ASSUME NEW r \in pending, NEW d \in Delays, SampleOrFailure(r, d) PROVE SamplerInv'
  <2>1. Answered(r) /\ Demanded(r, d) /\ fallback' \subseteq Ids /\ d \in 1..Long
    BY <1>1, <1>9 DEF SampleOrFailure, SamplerInv, SamplerTypes
  <2>2. \/ session /\ Settle(r, KeysOf(r.node), d)
        \/ ~session /\ UNCHANGED <<mem, settling>>
    BY <1>9 DEF SampleOrFailure
  <2> QED
    BY <1>6, <1>7, <2>1, <2>2
<1>10. ASSUME NEW r \in pending, Unsupported(r) PROVE SamplerInv'
  <2>1. /\ Answered(r) /\ Demanded(r, Long) /\ Long \in 1..Long
        /\ fallback' \subseteq Ids
    BY <1>1, <1>10, ContactKeys DEF Unsupported, SamplerInv, SamplerTypes
  <2>2. \/ session /\ Settle(r, KeysOf(r.node), Long)
        \/ ~session /\ UNCHANGED <<mem, settling>>
    BY <1>10 DEF Unsupported
  <2> QED
    BY <1>6, <1>7, <2>1, <2>2
<1> QED
  BY <1>4, <1>8, <1>9, <1>10

(* The reservation under way belongs to an earlier start or identity.      *)
Disowned == {[r EXCEPT !.mine = FALSE] : r \in reserving}

LEMMA DisownedFacts ==
    ASSUME SamplerInv
    PROVE  /\ Disowned \subseteq Reservations /\ \A r, q \in Disowned : r = q
           /\ \A q \in Disowned : ~q.mine
           /\ \A q \in Disowned : \E r \in reserving : /\ q.node = r.node /\ q.lease = r.lease
                                                       /\ q.expired = r.expired /\ q.answer = r.answer
           /\ \A r \in reserving : \E q \in Disowned : /\ q.node = r.node /\ q.lease = r.lease
                                                       /\ q.expired = r.expired /\ q.answer = r.answer
<1>1. \A r \in reserving : r \in Reservations
  BY DEF SamplerInv, SamplerTypes
<1>2. \A r, q \in reserving : r = q
  BY Apart DEF SamplerInv
<1>3. \A r \in reserving : LET q == [r EXCEPT !.mine = FALSE]
                           IN  /\ q \in Reservations /\ ~q.mine
                               /\ q.node = r.node /\ q.lease = r.lease
                               /\ q.expired = r.expired /\ q.answer = r.answer
  BY <1>1 DEF Reservations
<1> QED
  BY <1>2, <1>3 DEF Disowned

(* Everything in the loop's hands is given up: what was not sent is        *)
(* withdrawn, what was sent is left alone for the longest time.            *)
LEMMA ClearStep ==
    ASSUME SamplerInv, ready' = {}, queued' = {}, pending' = {}, Cancelled,
           settling' = settling \cup Withdrawals(queued \cup ready) \cup Settlements(pending, Long),
           db' = db, reserving' = reserving \/ reserving' = Disowned,
           inflight' \subseteq inflight, fallback' \subseteq Ids,
           session' \in BOOLEAN, fault' \in BOOLEAN, paused' \in BOOLEAN, idPaused' \in BOOLEAN,
           pc' \in {"loop", "rotate", "flush", "exited"},
           session' => session, StopsAreClean', mem' \in [Keys -> Nat \cup {Absent}],
           \A r \in reserving' : ~Admitted(r)',
           ~fault' =>
              /\ ~fault
              /\ \A k \in Keys :
                    /\ mem[k] = Absent => mem'[k] = Absent
                    /\ k \notin KeysOfAll(Leased(queued \cup ready)) => mem'[k] >= mem[k]
                    /\ k \in KeysOfAll(Leased(pending)) => mem'[k] >= Long
              /\ \A c \in inflight' : \A k \in KeysOf(c) : mem'[k] # Absent
    PROVE  SamplerInv'
<1> DEFINE U == queued \cup ready
           W == Withdrawals(U)
           S == Settlements(pending, Long)
           D == W \cup S
<1>1. /\ U \in SUBSET Requests /\ pending \in SUBSET Requests /\ Live = U \cup pending
      /\ U \cap pending = {} /\ Live \ pending = U /\ pending \in SUBSET Live
      /\ Live' = {} /\ Leased(Live') = {}
  BY DEF SamplerInv, SamplerTypes, WorkIsApart, Live, Leased
<1>2. Long \in Nat /\ Long > 0
  BY DelayAssumption
<1> HIDE DEF U
<1>3. /\ W \subseteq Debts
      /\ \A x \in W : x.op = "abandon" /\ x.left = 0 /\ x.dur = 0
      /\ \A x \in W : \E r \in Leased(U) : x.node = r.node /\ x.lease = r.lease
      /\ \A r \in Leased(U) : \E x \in W : x.node = r.node
  BY <1>1, <1>2, Owed
<1>4. /\ S \subseteq Debts
      /\ \A x \in S : x.op = "settle" /\ x.left = Long /\ x.dur = Long
      /\ \A x \in S : \E r \in Leased(pending) : x.node = r.node /\ x.lease = r.lease
      /\ \A r \in Leased(pending) : \E x \in S : x.node = r.node
  <2>1. AreSettled(pending, Long, S)
    BY <1>1, <1>2, OwedSettlements
  <2> QED
    BY <2>1 DEF AreSettled
<1>5. \A x, y \in D : x.node = y.node => x = y
  <2>1. \A r, q \in Live : \A k : k \in KeysOf(r.node) /\ k \in KeysOf(q.node) => r = q
    BY Apart DEF SamplerInv
  <2>2. \A r, q \in Live : r.node = q.node => r = q
    BY <1>1, <2>1, ContactKeys DEF Requests
  <2>3. Leased(U) \subseteq U /\ Leased(pending) \subseteq pending
    BY DEF Leased
  <2>4. \A x, y \in W : x.node = y.node => x = y
    BY <1>1, <2>2, <2>3 DEF Withdrawals
  <2>5. \A x, y \in S : x.node = y.node => x = y
    BY <1>1, <2>2, <2>3 DEF Settlements
  <2>6. \A x \in W, y \in S : x.node # y.node
    BY <1>1, <1>3, <1>4, <2>2, <2>3
  <2> QED
    BY <2>4, <2>5, <2>6
<1>6. settling' = settling \cup D
  BY DEF U
<1> HIDE DEF W, S
<1>7. /\ Leased(Live) = Leased(U) \cup Leased(pending)
      /\ \A x \in D : \E r \in Leased(Live) : x.node = r.node /\ x.lease = r.lease
      /\ \A r \in Leased(Live) : \E x \in D : x.node = r.node
      /\ \A x \in D : x.op = "abandon" => \E r \in Leased(Live \ pending) : x.node = r.node
      /\ \A x \in D : x.op # "abandon" => x.left = Long /\ x.dur = Long
                                          /\ \E r \in Leased(pending) : x.node = r.node
      /\ D \subseteq Debts
  <2>1. Leased(Live) = Leased(U) \cup Leased(pending)
    BY <1>1 DEF Leased
  <2>2. \A x \in D : /\ x \in W => x.op = "abandon" /\ x \in Debts
                     /\ x \in S => x.op = "settle" /\ x \in Debts
    BY <1>3, <1>4
  <2> QED
    BY <1>1, <1>3, <1>4, <2>1, <2>2
<1> HIDE DEF D
<1>8. /\ reserving' \subseteq Reservations /\ \A r, q \in reserving' : r = q
      /\ \A q \in reserving' : \E r \in reserving : /\ q.node = r.node /\ q.lease = r.lease
                                                   /\ q.expired = r.expired /\ q.answer = r.answer
                                                   /\ (q.mine => r.mine)
      /\ \A r \in reserving : \E q \in reserving' : /\ q.node = r.node /\ q.answer = r.answer
  <2>1. CASE reserving' = reserving
    <3>1. reserving \subseteq Reservations /\ \A r, q \in reserving : r = q
      BY Apart DEF SamplerInv, SamplerTypes
    <3> QED
      BY <2>1, <3>1
  <2>2. CASE reserving' = Disowned
    BY <2>2, DisownedFacts
  <2> QED
    BY <2>1, <2>2
<1>9. SamplerTypes'
  <2>1. quiet \in [Keys -> 0..Long]
    BY DEF SamplerInv, SamplerTypes
  <2>2. quiet' \in [Keys -> 0..Long]
    BY <1>2, <2>1 DEF Cancelled, Raised, Larger
  <2> QED
    BY <1>6, <1>7, <1>8, <2>2 DEF SamplerInv, SamplerTypes
<1>10. Leaves(Live, D, {})
  BY <1>5, <1>6, <1>7, <1>8 DEF Leaves
<1>11. Protects(Live, D, {}, pending, Long)
  <2>1. \A x \in D : x.op # "abandon" => x.left >= Long /\ x.dur >= Long
    BY <1>2, <1>7
  <2>2. quiet' = Raised(quiet, KeysOfAll(Leased(pending)), Long)
    BY DEF Cancelled
  <2> QED
    BY <1>1, <1>2, <1>7, <2>1, <2>2 DEF Protects
<1>12. ASSUME ~fault' PROVE MemoryIsComplete'
  <2>1. /\ ready' = ready \ Live /\ queued' = queued \ Live /\ pending' = pending \ Live
    BY DEF Live
  <2>2. \A k \in Keys : /\ mem[k] = Absent => mem'[k] = Absent
                        /\ k \notin KeysOfAll(Leased(Live \ pending)) => mem'[k] >= mem[k]
                        /\ k \in KeysOfAll(Leased(pending)) => mem'[k] >= Long
    BY <1>1, <1>12 DEF U
  <2>3. \A x \in D : \A k \in KeysOf(x.node) :
           x.op = "settle" /\ x.left > 0 => mem'[k] >= x.left
    <3> SUFFICES ASSUME NEW x \in D, NEW k \in KeysOf(x.node), x.op = "settle"
                 PROVE  mem'[k] >= x.left
      OBVIOUS
    <3>1. PICK r \in Leased(pending) : x.node = r.node
      BY <1>7
    <3>2. x.left = Long /\ k \in KeysOfAll(Leased(pending))
      BY <1>7, <3>1, KeysOfMany
    <3>3. k \in Keys
      BY <1>1, <3>1, ContactKeys DEF Leased, Requests
    <3> QED
      BY <2>2, <3>2, <3>3
  <2>4. /\ NodesOf(Live') \subseteq inflight' /\ (Live' # {} => session')
        /\ \A r \in Leased(Live') : \A k \in KeysOf(r.node) : mem'[k] = mem[k]
    BY <1>1 DEF NodesOf
  <2>5. \A r \in reserving' : \E q \in reserving : r.node = q.node /\ (r.mine => q.mine)
    BY <1>8
  <2>6. \A c \in inflight' : \A k \in KeysOf(c) : mem'[k] # Absent
    BY <1>12
  <2>7. Remembers(Live, D, pending, Long)
    BY <1>6, <1>7, <1>8, <2>1, <2>2, <2>3, <2>4, <2>5, <2>6 DEF Remembers
  <2> QED
    BY <1>9, <1>10, <1>11, <1>12, <2>7, Remembered
<1> QED
  BY <1>9, <1>10, <1>11, <1>12, Resolved, Quieted DEF SamplerInv

(* What memory keeps of keys of requests, when there was no storage error. *)
LEMMA KnownKeys ==
    ASSUME SamplerInv, ~fault
    PROVE  /\ \A r \in Leased(Live) : \A k \in KeysOf(r.node) : mem[k] = 0
           /\ \A c, e \in inflight : \A k : k \in KeysOf(c) /\ k \in KeysOf(e) => c = e
           /\ \A c \in inflight : \A k \in KeysOf(c) : mem[k] # Absent
           /\ \A r \in Live : r.node \in inflight
           /\ Live # {} => session
<1>1. MemoryIsComplete
  BY DEF SamplerInv
<1> QED
  BY <1>1 DEF MemoryIsComplete, NodesOf

(* Sampling stops on command, for a storage fault or with the node.        *)
LEMMA StopStep ==
    ASSUME SamplerInv, StopSampling \/ StoragePause \/ Shutdown
    PROVE  SamplerInv'
<1> DEFINE U == queued \cup ready
           A == KeysOfAll(Leased(U))
           m == Forgotten(mem, U)
           K == Present(m, UNION {KeysOf(c) : c \in inflight \ NodesOf(U)})
           n == Raised(m, K, Long)
           Q == KeysOfAll(Leased(pending))
<1>1. /\ StopSampler /\ pc = "loop" /\ pc' \in {"loop", "flush"}
      /\ UNCHANGED <<paused, idPaused>> /\ fault' \in {fault, TRUE}
  BY DEF StopSampling, StoragePause, Shutdown, control
<1>2. /\ mem' = Raised(n, Q, Long)
      /\ settling' = settling \cup Withdrawals(queued \cup ready) \cup Settlements(pending, Long)
      /\ session' = FALSE /\ inflight' = {} /\ fallback' = {} /\ ready' = {}
      /\ queued' = {} /\ pending' = {} /\ Cancelled /\ reserving' = reserving /\ db' = db
  BY <1>1 DEF StopSampler, Halt, StoppedMem
<1>3. /\ session' \in BOOLEAN /\ fault' \in BOOLEAN /\ paused' \in BOOLEAN /\ idPaused' \in BOOLEAN
      /\ pc' \in {"loop", "rotate", "flush", "exited"}
      /\ inflight' \subseteq inflight /\ fallback' \subseteq Ids
      /\ \A r \in reserving' : ~Admitted(r)'
  BY <1>1, <1>2 DEF SamplerInv, SamplerTypes, Admitted
<1>4. StopsAreClean'
  BY <1>1, <1>2 DEF StopsAreClean, Live
<1>5. /\ mem \in [Keys -> Nat \cup {Absent}] /\ Long \in Nat
      /\ U \in SUBSET Requests /\ pending \in SUBSET Requests
      /\ Leased(pending) \subseteq Leased(Live)
  BY DelayAssumption DEF SamplerInv, SamplerTypes, Live, Leased
<1>6. /\ m \in [Keys -> Nat \cup {Absent}]
      /\ \A k \in Keys : /\ k \in A => m[k] = Absent
                         /\ k \notin A => m[k] = mem[k]
  BY <1>5 DEF Forgotten
<1>7. \A k \in K : m[k] # Absent
  BY DEF Present
<1> HIDE DEF U, A, m, K, Q
<1>8. /\ n \in [Keys -> Nat \cup {Absent}]
      /\ \A k \in Keys : n[k] >= m[k] /\ (m[k] = Absent => n[k] = Absent)
  BY <1>5, <1>6, <1>7 DEF Raised, Larger, Absent
<1> HIDE DEF n
<1>9. /\ mem' \in [Keys -> Nat \cup {Absent}]
      /\ \A k \in Keys : /\ mem'[k] >= n[k] /\ (k \in Q => mem'[k] >= Long)
                         /\ k \notin Q => mem'[k] = n[k]
  BY <1>2, <1>5, <1>8 DEF Raised, Larger, Absent
<1>10. ASSUME ~fault'
       PROVE  /\ ~fault
              /\ \A k \in Keys :
                    /\ mem[k] = Absent => mem'[k] = Absent
                    /\ k \notin KeysOfAll(Leased(queued \cup ready)) => mem'[k] >= mem[k]
                    /\ k \in KeysOfAll(Leased(pending)) => mem'[k] >= Long
              /\ \A c \in inflight' : \A k \in KeysOf(c) : mem'[k] # Absent
  <2>1. ~fault
    BY <1>1, <1>10 DEF SamplerInv, SamplerTypes
  <2>2. \A k \in Q : mem[k] = 0
    BY <1>5, <2>1, KnownKeys, KeysOfMany DEF Q
  <2>3. ASSUME NEW k \in Keys
        PROVE  /\ mem[k] = Absent => mem'[k] = Absent
               /\ k \notin A => mem'[k] >= mem[k]
               /\ k \in Q => mem'[k] >= Long
    <3>1. mem[k] \in Int /\ m[k] \in Int /\ n[k] \in Int /\ mem'[k] \in Int
      BY <1>5, <1>6, <1>8, <1>9 DEF Absent
    <3>2. mem[k] = Absent => k \notin Q
      BY <2>2 DEF Absent
    <3> QED
      BY <1>6, <1>8, <1>9, <3>1, <3>2
  <2> QED
    BY <1>2, <2>1, <2>3 DEF A, Q, U
<1> QED
  BY <1>2, <1>3, <1>4, <1>9, <1>10, ClearStep

(* The identity changes.                                                   *)
LEMMA RotateStep ==
    ASSUME SamplerInv, Rotate
    PROVE  SamplerInv'
<1> DEFINE U == queued \cup ready
           A == KeysOfAll(Leased(U))
           m == Forgotten(mem, U)
           Q == KeysOfAll(Leased(pending))
<1>1. /\ pc = "loop" /\ pc' = "rotate" /\ idPaused' = TRUE /\ UNCHANGED <<session, fallback, fault, paused>>
      /\ mem' = Raised(m, Q, Long) /\ inflight' = inflight \ NodesOf(U)
      /\ settling' = settling \cup Withdrawals(queued \cup ready) \cup Settlements(pending, Long)
      /\ ready' = {} /\ queued' = {} /\ pending' = {} /\ Cancelled
      /\ reserving' = Disowned /\ db' = db
  BY DEF Rotate, Disowned
<1>2. /\ session' \in BOOLEAN /\ fault' \in BOOLEAN /\ paused' \in BOOLEAN /\ idPaused' \in BOOLEAN
      /\ pc' \in {"loop", "rotate", "flush", "exited"}
      /\ inflight' \subseteq inflight /\ fallback' \subseteq Ids
      /\ \A r \in reserving' : ~Admitted(r)' /\ ~r.mine
      /\ session' => session
  BY <1>1, DisownedFacts DEF SamplerInv, SamplerTypes, Admitted
<1>3. StopsAreClean'
  <2>1. Live' = {} /\ (~session => inflight = {}) /\ (fault => ~session)
    BY <1>1 DEF Live, SamplerInv, StopsAreClean
  <2> QED
    BY <1>1, <1>2, <2>1 DEF StopsAreClean
<1>4. /\ mem \in [Keys -> Nat \cup {Absent}] /\ Long \in Nat
      /\ U \in SUBSET Requests /\ pending \in SUBSET Requests
      /\ Leased(pending) \subseteq Leased(Live) /\ U \in SUBSET Live
      /\ inflight \subseteq Contacts
  BY DelayAssumption DEF SamplerInv, SamplerTypes, Live, Leased
<1>5. /\ m \in [Keys -> Nat \cup {Absent}]
      /\ \A k \in Keys : /\ k \in A => m[k] = Absent
                         /\ k \notin A => m[k] = mem[k]
  BY <1>4 DEF Forgotten
<1>6. \A k \in A : \E r \in U : k \in KeysOf(r.node)
  BY KeysOfMany DEF Leased
<1> HIDE DEF U, A, m, Q
<1>7. /\ mem' \in [Keys -> Nat \cup {Absent}]
      /\ \A k \in Keys : /\ mem'[k] >= m[k] /\ (k \in Q => mem'[k] >= Long)
                         /\ k \notin Q => mem'[k] = m[k]
  BY <1>1, <1>4, <1>5 DEF Raised, Larger, Absent
<1>8. ASSUME ~fault'
      PROVE  /\ ~fault
             /\ \A k \in Keys :
                   /\ mem[k] = Absent => mem'[k] = Absent
                   /\ k \notin KeysOfAll(Leased(queued \cup ready)) => mem'[k] >= mem[k]
                   /\ k \in KeysOfAll(Leased(pending)) => mem'[k] >= Long
             /\ \A c \in inflight' : \A k \in KeysOf(c) : mem'[k] # Absent
  <2>1. ~fault
    BY <1>1, <1>8
  <2>2. \A k \in Q : mem[k] = 0
    BY <1>4, <2>1, KnownKeys, KeysOfMany DEF Q
  <2>3. ASSUME NEW k \in Keys
        PROVE  /\ mem[k] = Absent => mem'[k] = Absent
               /\ k \notin A => mem'[k] >= mem[k]
               /\ k \in Q => mem'[k] >= Long
               /\ mem[k] # Absent /\ k \notin A => mem'[k] # Absent
    <3>1. mem[k] \in Nat \cup {Absent} /\ m[k] \in Int /\ mem'[k] \in Int
      BY <1>4, <1>5, <1>7 DEF Absent
    <3>2. mem[k] = Absent => k \notin Q
      BY <2>2 DEF Absent
    <3> QED
      BY <1>5, <1>7, <3>1, <3>2 DEF Absent
  <2>4. ASSUME NEW c \in inflight', NEW k \in KeysOf(c) PROVE mem'[k] # Absent
    <3>1. c \in inflight /\ c \notin NodesOf(U) /\ c \in Contacts
      BY <1>1, <1>4
    <3>2. k \in Keys /\ mem[k] # Absent
      BY <2>1, <2>4, <3>1, ContactKeys, KnownKeys
    <3>3. k \notin A
      BY <1>4, <1>6, <2>1, <2>4, <3>1, KnownKeys DEF NodesOf
    <3> QED
      BY <2>3, <3>2, <3>3
  <2> QED
    BY <2>1, <2>3, <2>4 DEF A, Q, U
<1> QED
  BY <1>1, <1>2, <1>3, <1>7, <1>8, ClearStep

(* Nothing to protect.                                                     *)
LEMMA SameQuiet ==
    ASSUME SamplerInv, quiet' = quiet, NEW R, NEW D, \A x \in D : x.op = "abandon",
           \A x \in D : \E r \in Leased(R) : x.node = r.node
    PROVE  Protects(R, D, {}, {}, 0)
<1>1. quiet' = Raised(quiet, KeysOfAll(Leased({})), 0)
  <2>1. quiet \in [Keys -> 0..Long] /\ KeysOfAll(Leased({})) = {}
    BY DEF SamplerInv, SamplerTypes, KeysOfAll, Leased
  <2> QED
    BY <2>1 DEF Raised
<1>2. R \ {} = R /\ 0 \in Nat /\ {} \in SUBSET R
  OBVIOUS
<1> QED
  BY <1>1, <1>2 DEF Protects

(* Sampling starts.                                                        *)
LEMMA StartStep ==
    ASSUME SamplerInv, StartSampling
    PROVE  SamplerInv'
<1>1. /\ pc = "loop" /\ ~session /\ ~fault /\ session' = TRUE
      /\ mem' = [k \in Keys |-> IF mem[k] > 0 THEN mem[k] ELSE Absent]
      /\ \A T \in {Ids, Ips} : Cardinality(Present(mem', T)) <= Capacity
      /\ reserving' = Disowned
      /\ UNCHANGED <<pc, fault, paused, idPaused, inflight, fallback, ready, queued, pending,
                     settling, db, quiet>>
  BY DEF StartSampling, control, Disowned
<1>2. /\ MemoryIsComplete /\ mem \in [Keys -> Nat \cup {Absent}]
  BY <1>1 DEF SamplerInv, SamplerTypes
<1>3. /\ Live = {} /\ inflight = {} /\ Live' = {} /\ inflight' = {}
      /\ Leased(Live) = {} /\ Leased(Live') = {}
  <2>1. Live = {} /\ inflight = {}
    BY <1>1, <1>2 DEF SamplerInv, StopsAreClean, MemoryIsComplete
  <2> QED
    BY <1>1, <2>1 DEF Live, Leased
<1>4. SamplerTypes'
  <2>1. mem' \in [Keys -> Nat \cup {Absent}]
    BY <1>1, <1>2
  <2> QED
    BY <1>1, <2>1, DisownedFacts DEF SamplerInv, SamplerTypes
<1>5. Leaves({}, {}, {})
  <2>1. ready' \subseteq ready \ {} /\ queued' \subseteq queued \ {} /\ pending' \subseteq pending \ {}
    BY <1>1
  <2> QED
    BY <1>1, <2>1, DisownedFacts DEF Leaves
<1>6. Protects({}, {}, {}, {}, 0)
  BY <1>1, SameQuiet
<1>7. WorkIsApart' /\ RowsAreHeld' /\ QuietIsRecorded'
  BY <1>4, <1>5, <1>6, Resolved, Quieted
<1>8. \A k \in Keys : /\ mem[k] \in Int /\ mem'[k] \in Int
                      /\ mem[k] > 0 => mem'[k] = mem[k]
  BY <1>1, <1>2 DEF Absent
<1>9. MemoryIsComplete'
  <2>1. ASSUME NEW k \in Keys
        PROVE  /\ quiet'[k] > 0 => mem'[k] >= quiet'[k]
               /\ ~db'[k].pending /\ db'[k].left > 0 => mem'[k] >= db'[k].left
    <3>1. /\ quiet[k] > 0 => mem[k] >= quiet[k]
          /\ ~db[k].pending /\ db[k].left > 0 => mem[k] >= db[k].left
      BY <1>2 DEF MemoryIsComplete
    <3>2. quiet[k] \in Int /\ db[k].left \in Int
      BY RowFacts, DelayAssumption DEF SamplerInv, SamplerTypes
    <3> QED
      BY <1>1, <1>8, <3>1, <3>2
  <2>2. ASSUME NEW k \in Keys, db'[k].pending
        PROVE  k \in KeysOfAll(Leased(Live') \cup settling' \cup {r \in reserving' : r.answer # "none"})
    <3>1. k \in KeysOfAll(Leased(Live) \cup settling \cup {r \in reserving : r.answer # "none"})
      BY <1>1, <1>2, <2>2 DEF MemoryIsComplete
    <3>2. PICK r \in Leased(Live) \cup settling \cup {q \in reserving : q.answer # "none"} :
             k \in KeysOf(r.node)
      BY <3>1, KeysOfMany
    <3>3. \E q \in Leased(Live') \cup settling' \cup {p \in reserving' : p.answer # "none"} :
             q.node = r.node
      <4>1. CASE r \in settling
        BY <1>1, <4>1
      <4>2. CASE r \in reserving /\ r.answer # "none"
        BY <1>1, <4>2, DisownedFacts
      <4> QED
        BY <1>3, <3>2, <4>1, <4>2
    <3> QED
      BY <3>2, <3>3, KeysOfMany
  <2>3. ASSUME NEW s \in settling', NEW k \in KeysOf(s.node), s.op = "settle", s.left > 0
        PROVE  mem'[k] >= s.left
    <3>1. s \in settling /\ mem[k] >= s.left /\ s.left \in Nat /\ s.node \in Contacts
      BY <1>1, <1>2, <2>3 DEF MemoryIsComplete, SamplerInv, SamplerTypes, Debts
    <3> QED
      BY <1>8, <2>3, <3>1, ContactKeys
  <2>4. \A r \in reserving' : ~Admitted(r)'
    BY <1>1, DisownedFacts DEF Admitted
  <2>5. NodesOf(Live') \subseteq inflight'
    BY <1>3 DEF NodesOf
  <2> QED
    BY <1>1, <1>3, <2>1, <2>2, <2>3, <2>4, <2>5 DEF MemoryIsComplete
<1>10. StopsAreClean'
  BY <1>1, <1>3 DEF StopsAreClean
<1> QED
  BY <1>4, <1>7, <1>9, <1>10 DEF SamplerInv

(* A table that has room for a key before it is added has none too many    *)
(* with it, and a free place without it.                                   *)
LEMMA RoomForOne ==
    ASSUME NEW B, IsFiniteSet(B), NEW k, Cardinality(B) <= Capacity,
           k \in B \/ Cardinality(B) < Capacity
    PROVE  /\ Cardinality(B \cup {k}) <= Capacity /\ Cardinality(B \ {k}) < Capacity
           /\ IsFiniteSet(B \cup {k}) /\ IsFiniteSet(B \ {k})
<1>1. Cardinality(B) \in Nat /\ Capacity \in Nat
  BY FS_CardinalityType, LimitAssumption
<1>2. /\ IsFiniteSet(B \cup {k}) /\ IsFiniteSet(B \ {k})
      /\ Cardinality(B \cup {k}) = IF k \in B THEN Cardinality(B) ELSE Cardinality(B) + 1
      /\ Cardinality(B \ {k}) = IF k \in B THEN Cardinality(B) - 1 ELSE Cardinality(B)
  BY FS_AddElement, FS_RemoveElement
<1> QED
  BY <1>1, <1>2

(* A subset of a set that fits does as well.                               *)
LEMMA FewerFit ==
    ASSUME NEW B, IsFiniteSet(B), NEW C, C \subseteq B
    PROVE  /\ Cardinality(B) <= Capacity => Cardinality(C) <= Capacity
           /\ Cardinality(B) < Capacity => Cardinality(C) < Capacity
           /\ IsFiniteSet(C)
<1>1. IsFiniteSet(C) /\ Cardinality(C) <= Cardinality(B)
  BY FS_Subset
<1>2. Cardinality(B) \in Nat /\ Capacity \in Nat /\ Cardinality(C) \in Nat
  BY <1>1, FS_CardinalityType, LimitAssumption
<1> QED
  BY <1>1, <1>2

(* What is known when a candidate is picked.                               *)
LEMMA Picked ==
    ASSUME SamplerInv, NEW c \in Contacts, Select(c)
    PROVE  /\ MemoryIsComplete /\ ready = {} /\ reserving = {} /\ settling = {}
           /\ ~fault /\ session = TRUE /\ pc = "loop"
           /\ UNCHANGED <<pc, fault, paused, idPaused, session, ready, pending, settling, db, quiet>>
           /\ inflight' = inflight \cup {c} /\ fallback' = fallback \ {c.id}
           /\ \A e \in inflight : \A k : ~(k \in KeysOf(c) /\ k \in KeysOf(e))
           /\ c.id \notin fallback => \A k \in KeysOf(c) : mem[k] <= 0
           /\ mem' \in [Keys -> Nat \cup {Absent}]
           /\ \A k \in Keys : /\ k \in Busy => mem'[k] = mem[k]
                              /\ mem[k] > 0 => mem'[k] = mem[k]
                              /\ k \in KeysOf(c) => /\ mem'[k] # Absent
                                                    /\ mem[k] <= 0 => mem'[k] = 0
           /\ \A T \in {Ids, Ips} : Cardinality(Present(mem', T)) <= Capacity
           /\ \A T \in {Ids, Ips} : \A C :
                 C \subseteq Present(mem', T) \ KeysOf(c) => Cardinality(C) < Capacity
<1>1. /\ ready = {} /\ reserving = {} /\ settling = {}
      /\ ~fault /\ session = TRUE /\ pc = "loop"
      /\ UNCHANGED <<pc, fault, paused, idPaused, session, ready, pending, settling, db, quiet>>
      /\ inflight' = inflight \cup {c} /\ fallback' = fallback \ {c.id}
      /\ KeysOf(c) \cap Busy = {}
      /\ c.id \notin fallback => \A k \in KeysOf(c) : mem[k] <= 0
      /\ HasRoom(Pruned, c) /\ mem' = Raised(Pruned, KeysOf(c), 0)
  BY DEF Select, MayAdvance, MayAsk, control, SamplerInv, SamplerTypes
<1>2. MemoryIsComplete /\ mem \in [Keys -> Nat \cup {Absent}]
  BY <1>1 DEF SamplerInv, SamplerTypes
<1>3. \A e \in inflight : \A k : ~(k \in KeysOf(c) /\ k \in KeysOf(e))
  BY <1>1 DEF Busy
<1>4. /\ Pruned \in [Keys -> Nat \cup {Absent}]
      /\ \A k \in Keys : /\ Pruned[k] = mem[k] \/ (Pruned[k] = Absent /\ mem[k] <= 0)
                         /\ k \in Busy => Pruned[k] = mem[k]
  BY <1>2 DEF Pruned
<1>5. c.id \in Ids /\ c.ip \in Ips /\ KeysOf(c) \subseteq Keys /\ KeysOf(c) = {c.id, c.ip}
  BY ContactKeys DEF KeysOf
<1>6. /\ mem' \in [Keys -> Nat \cup {Absent}]
      /\ \A k \in Keys : /\ k \notin KeysOf(c) => mem'[k] = Pruned[k]
                         /\ k \in KeysOf(c) => mem'[k] = Larger(Pruned[k], 0)
  BY <1>1, <1>4 DEF Raised, Larger
<1>7. \A k \in Keys : mem[k] \in Int /\ Pruned[k] \in Int /\ mem'[k] \in Int
  BY <1>2, <1>4, <1>6 DEF Absent
<1>8. ASSUME NEW k \in Keys
      PROVE  /\ k \in Busy => mem'[k] = mem[k]
             /\ mem[k] > 0 => mem'[k] = mem[k]
             /\ k \in KeysOf(c) => /\ mem'[k] # Absent
                                   /\ mem[k] <= 0 => mem'[k] = 0
  BY <1>1, <1>4, <1>6, <1>7 DEF Larger, Absent
<1>9. ASSUME NEW T \in {Ids, Ips}
      PROVE  /\ Cardinality(Present(mem', T)) <= Capacity
             /\ \A C : C \subseteq Present(mem', T) \ KeysOf(c) => Cardinality(C) < Capacity
  <2> DEFINE B == Present(Pruned, T)
  <2>1. IsFiniteSet(T) /\ T \subseteq Keys
    BY KeyKinds
  <2>2. PICK k \in KeysOf(c) : /\ KeysOf(c) \cap T = {k}
                               /\ k \in B \/ Cardinality(B) < Capacity
    <3>1. /\ KeysOf(c) \cap Ids = {c.id} /\ KeysOf(c) \cap Ips = {c.ip}
          /\ c.id \in Ids /\ c.ip \in Ips
      BY ContactKeys
    <3>2. /\ Pruned[c.id] # Absent \/ Cardinality(Present(Pruned, Ids)) < Capacity
          /\ Pruned[c.ip] # Absent \/ Cardinality(Present(Pruned, Ips)) < Capacity
      BY <1>1 DEF HasRoom
    <3>3. CASE T = Ids
      BY <1>5, <3>1, <3>2, <3>3 DEF Present
    <3>4. CASE T = Ips
      BY <1>5, <3>1, <3>2, <3>4 DEF Present
    <3> QED
      BY <3>3, <3>4
  <2>3. /\ B \subseteq Present(mem, T) /\ Present(mem, T) \subseteq T
        /\ Present(mem', T) \subseteq B \cup {k}
        /\ Present(mem', T) \ KeysOf(c) \subseteq B \ {k}
    <3>1. B \subseteq Present(mem, T) /\ Present(mem, T) \subseteq T
      BY <1>4, <2>1 DEF Present
    <3>2. \A j \in T : j # k => j \notin KeysOf(c) /\ mem'[j] = Pruned[j]
      BY <1>6, <2>1, <2>2
    <3> QED
      BY <2>2, <3>1, <3>2 DEF Present
  <2>4. IsFiniteSet(Present(mem, T)) /\ Cardinality(Present(mem, T)) <= Capacity
    BY <1>2, <2>1, <2>3, FS_Subset DEF MemoryIsComplete
  <2>5. IsFiniteSet(B) /\ Cardinality(B) <= Capacity
    BY <2>3, <2>4, FewerFit
  <2> HIDE DEF B
  <2>6. /\ Cardinality(B \cup {k}) <= Capacity /\ Cardinality(B \ {k}) < Capacity
        /\ IsFiniteSet(B \cup {k}) /\ IsFiniteSet(B \ {k})
    BY <2>2, <2>5, RoomForOne
  <2>7. Cardinality(Present(mem', T)) <= Capacity
    BY <2>3, <2>6, FewerFit
  <2>8. ASSUME NEW C, C \subseteq Present(mem', T) \ KeysOf(c) PROVE Cardinality(C) < Capacity
    BY <2>3, <2>6, <2>8, FewerFit
  <2> QED
    BY <2>7, <2>8
<1> QED
  BY <1>1, <1>2, <1>3, <1>6, <1>8, <1>9

(* A candidate is picked, to be reserved or to be asked for contacts.      *)
LEMMA SelectStep ==
    ASSUME SamplerInv, NEW c \in Contacts, Select(c)
    PROVE  SamplerInv'
<1> DEFINE q == [node |-> c, lease |-> 0]
           n == [node |-> c, lease |-> 0, mine |-> TRUE, expired |-> Expired, answer |-> "none"]
<1>1. /\ MemoryIsComplete /\ ready = {} /\ reserving = {} /\ settling = {}
      /\ ~fault /\ session = TRUE /\ pc = "loop"
      /\ UNCHANGED <<pc, fault, paused, idPaused, session, ready, pending, settling, db, quiet>>
      /\ inflight' = inflight \cup {c} /\ fallback' = fallback \ {c.id}
      /\ \A e \in inflight : \A k : ~(k \in KeysOf(c) /\ k \in KeysOf(e))
      /\ c.id \notin fallback => \A k \in KeysOf(c) : mem[k] <= 0
      /\ mem' \in [Keys -> Nat \cup {Absent}]
      /\ \A k \in Keys : /\ k \in Busy => mem'[k] = mem[k]
                         /\ mem[k] > 0 => mem'[k] = mem[k]
                         /\ k \in KeysOf(c) => /\ mem'[k] # Absent
                                               /\ mem[k] <= 0 => mem'[k] = 0
      /\ \A T \in {Ids, Ips} : Cardinality(Present(mem', T)) <= Capacity
      /\ \A T \in {Ids, Ips} : \A C :
            C \subseteq Present(mem', T) \ KeysOf(c) => Cardinality(C) < Capacity
  BY Picked
<1>2. \/ c.id \in fallback /\ queued' = queued \cup {q} /\ reserving' = {}
      \/ c.id \notin fallback /\ queued' = queued /\ reserving' = {n}
  BY <1>1 DEF Select
<1>3. /\ mem \in [Keys -> Nat \cup {Absent}] /\ \A k \in Keys : mem[k] \in Int /\ mem'[k] \in Int
      /\ \A k \in Keys : db[k] \in DbRows
      /\ \A k \in Keys : quiet[k] \in Nat
  BY <1>1, DelayAssumption DEF SamplerInv, SamplerTypes, Absent
<1>4. /\ \A r \in Live : r.node \in inflight
      /\ \A e \in inflight : KeysOf(e) \subseteq Busy
      /\ inflight \subseteq Contacts
      /\ \A r \in Live : \A k : ~(k \in KeysOf(r.node) /\ k \in KeysOf(c))
  BY <1>1 DEF MemoryIsComplete, NodesOf, Busy, SamplerInv, SamplerTypes
<1>5. /\ Live \subseteq Live' /\ Live' \subseteq Live \cup {q} /\ Leased(Live') = Leased(Live)
      /\ ready' = {} /\ settling' = {} /\ (c.id \notin fallback => Live' = Live)
  <2>1. /\ Live' \subseteq Live \cup {q} /\ Live \subseteq Live'
        /\ (c.id \notin fallback => Live' = Live) /\ q.lease = 0
    BY <1>1, <1>2 DEF Live
  <2> QED
    BY <1>1, <2>1 DEF Leased
<1>6. q.node = c /\ n.node = c /\ n.answer = "none" /\ n.expired = Expired /\ q \in Requests
      /\ n \in Reservations
  BY DEF Requests, Reservations, Expired
<1>7. SamplerTypes'
  BY <1>1, <1>2, <1>6 DEF SamplerInv, SamplerTypes
<1> HIDE DEF q, n
<1>8. ASSUME NEW k \in Keys, db[k] # NoRow, k \notin Expired
      PROVE  mem'[k] # Absent /\ (mem[k] > 0 \/ k \in Busy)
  <2>1. CASE db[k].pending
    <3>1. k \in KeysOfAll(Leased(Live) \cup settling \cup {r \in reserving : r.answer # "none"})
      BY <1>1, <2>1 DEF MemoryIsComplete
    <3>2. PICK r \in Leased(Live) : k \in KeysOf(r.node)
      BY <1>1, <3>1, KeysOfMany
    <3>3. r.node \in inflight /\ k \in Busy /\ mem[k] # Absent
      BY <1>1, <1>4, <3>2 DEF Leased, MemoryIsComplete
    <3> QED
      BY <1>1, <3>3
  <2>2. CASE ~db[k].pending
    <3>1. db[k].left \in Nat /\ db[k].left # 0
      BY <1>3, <1>8, <2>2, RowFacts DEF Expired
    <3>2. mem[k] >= db[k].left
      BY <1>1, <2>2, <3>1 DEF MemoryIsComplete
    <3>3. mem[k] > 0
      BY <1>3, <3>1, <3>2
    <3> QED
      BY <1>1, <3>3 DEF Absent
  <2> QED
    BY <2>1, <2>2
<1>9. WorkIsApart'
  <2>1. /\ ready \cap queued = {} /\ ready \cap pending = {} /\ queued \cap pending = {}
        /\ \A r, p \in Live : Share(r, p) => r = p
    BY DEF SamplerInv, WorkIsApart
  <2>2. \A r \in Live : ~Share(r, q) /\ ~Share(q, r) /\ ~Share(n, r)
    BY <1>4, <1>6 DEF Share
  <2>3. Share(q, q)
    BY <1>6, ContactKeys DEF Share
  <2>4. q \notin Live
    BY <2>2, <2>3
  <2>5. queued' \cap pending' = {} /\ ready' \cap queued' = {} /\ ready' \cap pending' = {}
    BY <1>1, <1>2, <2>1, <2>4 DEF Live
  <2>6. \A r, p \in Live' : Share(r, p) => r = p
    BY <1>5, <2>1, <2>2
  <2>7. \A r \in reserving' : r = n /\ Live' = Live
    BY <1>2, <1>5
  <2>8. \A r \in reserving' : /\ \A p \in reserving' : p = r
                              /\ \A p \in Live' \cup settling' : ~Share(r, p)
    BY <1>5, <2>2, <2>7
  <2> HIDE DEF Live
  <2> QED
    BY <1>5, <2>5, <2>6, <2>8 DEF WorkIsApart
<1>10. ASSUME NEW k \in KeysOf(c), c.id \notin fallback
       PROVE  /\ k \in Keys /\ k \notin Busy /\ mem[k] <= 0 /\ quiet[k] = 0
              /\ db[k] = NoRow \/ k \in Expired
  <2>1. k \in Keys /\ k \notin Busy /\ mem[k] <= 0
    BY <1>1, <1>10, ContactKeys DEF Busy
  <2>2. quiet[k] = 0
    <3>1. quiet[k] > 0 => mem[k] >= quiet[k]
      BY <1>1, <2>1 DEF MemoryIsComplete
    <3> QED
      BY <1>3, <2>1, <3>1
  <2>3. ~(mem[k] > 0)
    BY <1>3, <2>1
  <2> QED
    BY <1>8, <2>1, <2>2, <2>3
<1>11. RowsAreHeld'
  <2>1. \A T, E : Rows(T)' = Rows(T) /\ (Rows(T) \ E)' = Rows(T) \ E
    BY <1>1 DEF Rows
  <2>2. /\ \A r \in Leased(Live) : \A k \in KeysOf(r.node) : db[k].pending /\ db[k].lease = r.lease
        /\ \A T \in {Ids, Ips} : Cardinality(Rows(T)) <= Capacity
        /\ \A k \in Keys : db[k].pending => db[k].dur = Long
    BY DEF SamplerInv, RowsAreHeld
  <2>3. Granted' = {}
    BY <1>2, <1>6 DEF Granted
  <2>4. ASSUME NEW T \in {Ids, Ips}, c.id \notin fallback
        PROVE  Cardinality(Rows(T) \ Expired) < Capacity
    <3>1. T \subseteq Keys
      BY KeyKinds
    <3>2. ASSUME NEW k \in Rows(T) \ Expired PROVE k \in Present(mem', T) \ KeysOf(c)
      <4>1. k \in Keys /\ k \in T /\ db[k] # NoRow /\ k \notin Expired
        BY <3>1, <3>2 DEF Rows
      <4>2. k \notin KeysOf(c)
        BY <1>10, <2>4, <4>1
      <4> QED
        BY <1>8, <4>1, <4>2 DEF Present
    <3> QED
      BY <1>1, <3>2
  <2>5. \A k \in Expired : ~db[k].pending /\ db[k].left <= 0
    BY DEF Expired
  <2>6. \A r \in reserving' : r = n /\ c.id \notin fallback
    BY <1>2
  <2> QED
    BY <1>1, <1>5, <1>6, <1>10, <2>1, <2>2, <2>3, <2>4, <2>5, <2>6 DEF RowsAreHeld
<1>12. QuietIsRecorded'
  <2>1. \A r \in reserving' : r = n /\ c.id \notin fallback
    BY <1>2
  <2>2. \A r \in reserving' : \A k \in KeysOf(r.node) : quiet[k] = 0
    BY <1>6, <1>10, <2>1
  <2> QED
    BY <1>1, <1>5, <2>2 DEF SamplerInv, QuietIsRecorded
<1>13. MemoryIsComplete'
  <2>1. \A e, d \in inflight' : KeysOf(e) \cap KeysOf(d) # {} => e = d
    BY <1>1 DEF MemoryIsComplete
  <2>2. ASSUME NEW e \in inflight', NEW k \in KeysOf(e) PROVE mem'[k] # Absent
    <3>1. CASE e = c
      BY <1>1, <2>2, <3>1, ContactKeys
    <3>2. CASE e \in inflight
      <4>1. k \in Busy /\ k \in Keys /\ mem[k] # Absent
        BY <1>1, <1>4, <2>2, <3>2, ContactKeys DEF MemoryIsComplete
      <4> QED
        BY <1>1, <4>1
    <3> QED
      BY <1>1, <3>1, <3>2
  <2>3. \A r \in reserving' : r.node = c /\ c.id \notin fallback /\ r.answer = "none"
    BY <1>2, <1>6
  <2>4. \A r \in reserving', e \in inflight' : KeysOf(r.node) \cap KeysOf(e) # {} => e = r.node
    BY <1>1, <2>3
  <2>5. \A r \in reserving' : /\ r.node \in inflight'
                              /\ \A k \in KeysOf(r.node) : mem'[k] = 0
    BY <1>1, <1>10, <2>3
  <2>6. NodesOf(Live') \subseteq inflight'
    BY <1>1, <1>4, <1>5, <1>6 DEF NodesOf
  <2>7. ASSUME NEW r \in Leased(Live'), NEW k \in KeysOf(r.node) PROVE mem'[k] = 0
    <3>1. r \in Leased(Live) /\ r \in Live
      BY <1>5 DEF Leased
    <3>2. k \in Busy /\ k \in Keys /\ mem[k] = 0
      BY <1>1, <1>4, <2>7, <3>1, ContactKeys DEF MemoryIsComplete
    <3> QED
      BY <1>1, <3>2
  <2>8. ASSUME NEW k \in Keys
        PROVE  /\ quiet'[k] > 0 => mem'[k] >= quiet'[k]
               /\ ~db'[k].pending /\ db'[k].left > 0 => mem'[k] >= db'[k].left
    <3>1. /\ quiet[k] > 0 => mem[k] >= quiet[k]
          /\ ~db[k].pending /\ db[k].left > 0 => mem[k] >= db[k].left
      BY <1>1 DEF MemoryIsComplete
    <3>2. quiet[k] \in Int /\ db[k].left \in Int
      BY <1>3, RowFacts
    <3> QED
      BY <1>1, <1>3, <3>1, <3>2
  <2>9. ASSUME NEW k \in Keys, db'[k].pending
        PROVE  k \in KeysOfAll(Leased(Live') \cup settling' \cup {r \in reserving' : r.answer # "none"})
    <3>1. k \in KeysOfAll(Leased(Live) \cup settling \cup {r \in reserving : r.answer # "none"})
      BY <1>1, <2>9 DEF MemoryIsComplete
    <3>2. PICK r \in Leased(Live) : k \in KeysOf(r.node)
      BY <1>1, <3>1, KeysOfMany
    <3> QED
      BY <1>5, <3>2, KeysOfMany
  <2> QED
    BY <1>1, <1>5, <2>1, <2>2, <2>4, <2>5, <2>6, <2>7, <2>8, <2>9 DEF MemoryIsComplete
<1>14. StopsAreClean'
  BY <1>1 DEF StopsAreClean
<1> QED
  BY <1>7, <1>9, <1>11, <1>12, <1>13, <1>14 DEF SamplerInv

(* The database answers a reservation.  It never refuses one.              *)
LEMMA ReserveStep ==
    ASSUME SamplerInv, ReserveSampling
    PROVE  SamplerInv'
<1>1. PICK r \in reserving :
        /\ r.answer = "none"
        /\ \/ /\ Conflicts(r)
              /\ reserving' = {[r EXCEPT !.answer = "conflict"]} /\ UNCHANGED db
           \/ /\ ~Conflicts(r) /\ TokenLeft
              /\ db' = Reserved(r)
              /\ reserving' = {[r EXCEPT !.answer = "granted", !.lease = FreshLease]}
           \/ /\ db' = db \/ (~Conflicts(r) /\ TokenLeft /\ db' = Reserved(r))
              /\ reserving' = {[r EXCEPT !.answer = "failed"]}
        /\ UNCHANGED <<control, session, mem, inflight, fallback, ready, queued, pending,
                       settling, quiet>>
  BY DEF ReserveSampling
<1>2. /\ r \in Reservations /\ r.node \in Contacts /\ r.expired \subseteq Keys
      /\ db \in [Keys -> DbRows] /\ \A k \in Keys : quiet[k] \in Nat
      /\ \A p \in Live \cup settling : p.node \in Contacts
  BY DelayAssumption DEF SamplerInv, SamplerTypes, Reservations, Live, Requests, Debts
<1>3. /\ \A k \in r.expired : ~db[k].pending /\ db[k].left <= 0
      /\ \A k \in KeysOf(r.node) : db[k] = NoRow \/ k \in r.expired
      /\ \A T \in {Ids, Ips} : Cardinality(Rows(T) \ r.expired) < Capacity
      /\ \A q \in Leased(Live) \cup settling : \A k \in KeysOf(q.node) :
            db[k].pending /\ db[k].lease = q.lease
      /\ \A T \in {Ids, Ips} : Cardinality(Rows(T)) <= Capacity
  BY <1>1 DEF SamplerInv, RowsAreHeld
<1>4. /\ \A q \in reserving : q = r
      /\ \A q \in Live \cup settling : \A k : ~(k \in KeysOf(r.node) /\ k \in KeysOf(q.node))
  BY Apart DEF SamplerInv
<1>5. ~Conflicts(r)
  <2>1. \A T \in {Ids, Ips} : ~(Cardinality(Rows(T) \ r.expired) >= Capacity)
    <3> SUFFICES ASSUME NEW T \in {Ids, Ips}
                 PROVE  ~(Cardinality(Rows(T) \ r.expired) >= Capacity)
      OBVIOUS
    <3>1. IsFiniteSet(Rows(T) \ r.expired)
      <4>1. IsFiniteSet(T) /\ Rows(T) \ r.expired \subseteq T
        BY KeyKinds DEF Rows
      <4> QED
        BY <4>1, FS_Subset
    <3>2. Cardinality(Rows(T) \ r.expired) \in Nat /\ Capacity \in Nat
      BY <3>1, FS_CardinalityType, LimitAssumption
    <3>3. Cardinality(Rows(T) \ r.expired) < Capacity
      BY <1>3, Zenon
    <3> QED
      BY <3>2, <3>3
  <2> QED
    BY <1>3, <2>1 DEF Conflicts
<1>6. PICK n : /\ reserving' = {n} /\ n \in Reservations /\ n.node = r.node /\ n.mine = r.mine
               /\ n.answer \in {"granted", "failed"}
               /\ db' = db \/ db' = Reserved(r)
               /\ db' # db => TokenLeft
               /\ n.answer = "granted" => TokenLeft /\ n.lease = FreshLease /\ db' = Reserved(r)
  <2>1. TokenLeft => FreshLease \in Leases
    BY DEF TokenLeft, FreshLease
  <2>2. CASE /\ TokenLeft /\ db' = Reserved(r)
             /\ reserving' = {[r EXCEPT !.answer = "granted", !.lease = FreshLease]}
    <3> DEFINE n == [r EXCEPT !.answer = "granted", !.lease = FreshLease]
    <3>1. /\ n \in Reservations /\ n.node = r.node /\ n.mine = r.mine
          /\ n.answer = "granted" /\ n.lease = FreshLease
      BY <1>2, <2>1, <2>2 DEF Reservations
    <3> HIDE DEF n
    <3> QED
      BY <2>2, <3>1 DEF n
  <2>3. CASE /\ db' = db \/ (TokenLeft /\ db' = Reserved(r))
             /\ reserving' = {[r EXCEPT !.answer = "failed"]}
    <3> DEFINE n == [r EXCEPT !.answer = "failed"]
    <3>1. /\ n \in Reservations /\ n.node = r.node /\ n.mine = r.mine
          /\ n.answer = "failed"
      BY <1>2 DEF Reservations
    <3> HIDE DEF n
    <3> QED
      BY <2>3, <3>1 DEF n
  <2> QED
    BY <1>1, <1>5, <2>2, <2>3
<1>7. /\ UNCHANGED <<pc, fault, paused, idPaused, session, mem, inflight, fallback, ready,
                     queued, pending, settling, quiet>>
      /\ Live' = Live /\ Leased(Live') = Leased(Live)
  BY <1>1 DEF control, Live
<1>8. /\ db' \in [Keys -> DbRows]
      /\ \A k \in Keys :
            /\ db'[k] # db[k] => \/ k \in KeysOf(r.node) /\ db'[k] # NoRow /\ db'[k].pending
                                 \/ k \in r.expired /\ db'[k] = NoRow
            /\ n.answer = "granted" /\ k \in KeysOf(r.node)
                  => db'[k].pending /\ db'[k].lease = n.lease
            /\ db'[k].pending => db'[k] = db[k] \/ db'[k].dur = Long
      /\ n.answer = "granted" => n.lease # 0
  <2>1. TokenLeft => FreshLease \in Leases /\ FreshLease # 0
    BY LimitAssumption DEF TokenLeft, FreshLease
  <2>2. CASE db' = Reserved(r) /\ TokenLeft
    <3> DEFINE row == [lease |-> FreshLease, pending |-> TRUE, left |-> Long, dur |-> Long]
    <3>1. row \in DbRows /\ row.pending /\ row.lease = FreshLease /\ row # NoRow
          /\ row.dur = Long /\ ~NoRow.pending
      BY <2>1, <2>2, DelayAssumption DEF DbRows, NoRow
    <3>2. NoRow \in DbRows
      BY DEF DbRows
    <3>3. db' = [k \in Keys |-> IF k \in KeysOf(r.node) THEN row
                                ELSE IF k \in r.expired THEN NoRow ELSE db[k]]
      BY <2>2 DEF Reserved
    <3> HIDE DEF row
    <3> QED
      BY <1>2, <1>6, <2>1, <2>2, <3>1, <3>2, <3>3
  <2>3. CASE db' = db
    BY <1>2, <1>6, <2>1, <2>2, <2>3
  <2> QED
    BY <1>6, <2>2, <2>3
<1>9. SamplerTypes'
  BY <1>6, <1>7, <1>8 DEF SamplerInv, SamplerTypes
<1>10. WorkIsApart'
  BY <1>4, <1>6, <1>7 DEF SamplerInv, WorkIsApart, Share
<1>11. RowsAreHeld'
  <2>1. ASSUME NEW q \in Leased(Live) \cup settling, NEW k \in KeysOf(q.node)
        PROVE  db'[k].pending /\ db'[k].lease = q.lease
    <3>1. k \in Keys /\ k \notin KeysOf(r.node) /\ k \notin r.expired
      BY <1>2, <1>3, <1>4, <2>1, ContactKeys DEF Leased
    <3>2. db'[k] = db[k]
      BY <1>8, <3>1
    <3> QED
      BY <1>3, <2>1, <3>2
  <2>2. ASSUME NEW q \in Granted', NEW k \in KeysOf(q.node)
        PROVE  db'[k].pending /\ db'[k].lease = q.lease
    <3>1. q = n /\ n.answer = "granted"
      BY <1>6 DEF Granted
    <3> QED
      BY <1>2, <1>6, <1>8, <2>2, <3>1, ContactKeys
  <2>3. ASSUME NEW T \in {Ids, Ips} PROVE Cardinality(Rows(T)') <= Capacity
    <3>1. IsFiniteSet(T) /\ T \subseteq Keys /\ Rows(T) \subseteq T
      BY KeyKinds DEF Rows
    <3>2. IsFiniteSet(Rows(T)) /\ IsFiniteSet(Rows(T) \ r.expired)
      BY <3>1, FS_Subset, FS_Difference
    <3>3. CASE db' = db
      BY <1>3, <3>3 DEF Rows
    <3>4. CASE db' = Reserved(r)
      <4>1. PICK k \in KeysOf(r.node) : KeysOf(r.node) \cap T = {k}
        BY <1>2, ContactKeys
      <4>2. Rows(T)' \subseteq (Rows(T) \ r.expired) \cup {k}
        BY <3>1, <3>4, <4>1 DEF Rows, Reserved
      <4>3. Cardinality(Rows(T) \ r.expired) < Capacity
        BY <1>3
      <4>4. Cardinality(Rows(T) \ r.expired) <= Capacity
        BY <3>2, <4>3, FS_CardinalityType, LimitAssumption
      <4>5. /\ Cardinality((Rows(T) \ r.expired) \cup {k}) <= Capacity
            /\ IsFiniteSet((Rows(T) \ r.expired) \cup {k})
        BY <3>2, <4>3, <4>4, RoomForOne
      <4> QED
        BY <4>2, <4>5, FewerFit
    <3> QED
      BY <1>6, <3>3, <3>4
  <2>4. \A q \in reserving' : q.answer \notin {"none", "conflict"} /\ (q.answer = "granted" => q.lease # 0)
    BY <1>6, <1>8
  <2>5. \A k \in Keys : db'[k].pending => db'[k].dur = Long
    BY <1>8 DEF SamplerInv, RowsAreHeld
  <2> QED
    BY <1>7, <2>1, <2>2, <2>3, <2>4, <2>5 DEF RowsAreHeld
<1>12. QuietIsRecorded'
  <2>1. /\ \A k \in Keys : quiet[k] > 0 =>
             /\ db[k] # NoRow
             /\ db[k].pending \/ (db[k].left >= quiet[k] /\ db[k].dur >= quiet[k])
        /\ \A q \in Leased(Live) \cup reserving : \A k \in KeysOf(q.node) : quiet[k] = 0
        /\ \A s \in settling : \A k \in KeysOf(s.node) :
             IF s.op = "abandon" THEN quiet[k] = 0
             ELSE quiet[k] <= s.left /\ quiet[k] <= s.dur
    BY DEF SamplerInv, QuietIsRecorded
  <2>2. ASSUME NEW k \in Keys, quiet[k] > 0 PROVE db'[k] = db[k]
    <3>1. k \notin KeysOf(r.node)
      BY <1>2, <2>1, <2>2
    <3>2. k \notin r.expired
      <4>1. db[k] \in DbRows
        BY <1>2
      <4>2. db[k].left \in Int
        BY <4>1, RowFacts
      <4> QED
        BY <1>2, <1>3, <2>1, <2>2, <4>2
    <3> QED
      BY <1>8, <3>1, <3>2
  <2>3. \A q \in reserving' : \A k \in KeysOf(q.node) : quiet[k] = 0
    BY <1>6, <2>1
  <2> QED
    BY <1>7, <2>1, <2>2, <2>3 DEF QuietIsRecorded
<1>13. ASSUME ~fault PROVE MemoryIsComplete'
  <2>1. MemoryIsComplete
    BY <1>13 DEF SamplerInv
  <2>2. ASSUME NEW k \in Keys
        PROVE  /\ ~db'[k].pending /\ db'[k].left > 0 => mem'[k] >= db'[k].left
               /\ db'[k].pending =>
                    k \in KeysOfAll(Leased(Live') \cup settling' \cup {q \in reserving' : q.answer # "none"})
    <3>1. CASE db'[k] = db[k]
      <4>1. ~db'[k].pending /\ db'[k].left > 0 => mem'[k] >= db'[k].left
        BY <1>7, <2>1, <3>1 DEF MemoryIsComplete
      <4>2. db[k].pending => \E q \in Leased(Live) \cup settling : k \in KeysOf(q.node)
        <5>1. db[k].pending =>
                 k \in KeysOfAll(Leased(Live) \cup settling \cup {q \in reserving : q.answer # "none"})
          BY <2>1 DEF MemoryIsComplete
        <5>2. {q \in reserving : q.answer # "none"} = {}
          BY <1>1, <1>4
        <5> QED
          BY <5>1, <5>2, KeysOfMany
      <4> QED
        BY <1>7, <3>1, <4>1, <4>2, KeysOfMany
    <3>2. CASE k \in KeysOf(r.node) /\ db'[k].pending
      <4>1. n \in {q \in reserving' : q.answer # "none"} /\ k \in KeysOf(n.node)
        BY <1>6, <3>2
      <4> QED
        BY <3>2, <4>1, KeysOfMany
    <3>3. CASE db'[k] = NoRow
      BY <3>3 DEF NoRow
    <3> QED
      BY <1>8, <3>1, <3>2, <3>3
  <2>3. \A q \in reserving' : q.node = r.node /\ (Admitted(q)' => Admitted(r))
    BY <1>6, <1>7 DEF Admitted
  <2> QED
    BY <1>7, <2>1, <2>2, <2>3 DEF MemoryIsComplete
<1>14. StopsAreClean'
  BY <1>6, <1>7 DEF SamplerInv, StopsAreClean
<1> QED
  BY <1>7, <1>9, <1>10, <1>11, <1>12, <1>13, <1>14 DEF SamplerInv

(* A debt s of the database is paid.                                       *)
LEMMA Paid ==
    ASSUME SamplerInv, NEW s \in settling
    PROVE  /\ Executed(s) \in [Keys -> DbRows] /\ OwnRows(s) = KeysOf(s.node) /\ KeysOf(s.node) \subseteq Keys
           /\ \A k \in Keys : k \notin OwnRows(s) => Executed(s)[k] = db[k]
           /\ \A k \in OwnRows(s) :
                 /\ db[k].pending /\ ~Executed(s)[k].pending
                 /\ s.op = "abandon" => Executed(s)[k] = NoRow /\ quiet[k] = 0
                 /\ s.op # "abandon" =>
                      /\ Executed(s)[k] # NoRow
                      /\ Executed(s)[k].left = s.left /\ Executed(s)[k].dur = s.dur
                      /\ quiet[k] <= s.left /\ quiet[k] <= s.dur
           /\ \A p \in Live \cup (settling \ {s}) \cup reserving : \A k \in OwnRows(s) :
                 k \notin KeysOf(p.node)
<1>1. /\ s \in Debts /\ s.node \in Contacts /\ db \in [Keys -> DbRows]
      /\ s.left \in Nat /\ s.dur \in Nat /\ s.op \in {"abandon", "settle"}
  BY DEF SamplerInv, SamplerTypes, Debts
<1>2. \A k \in KeysOf(s.node) : db[k].pending /\ db[k].lease = s.lease
  BY DEF SamplerInv, RowsAreHeld
<1>3. OwnRows(s) = KeysOf(s.node) /\ KeysOf(s.node) \subseteq Keys
  BY <1>1, <1>2, ContactKeys DEF OwnRows
<1>4. \A k \in KeysOf(s.node) : IF s.op = "abandon" THEN quiet[k] = 0
                                ELSE quiet[k] <= s.left /\ quiet[k] <= s.dur
  BY DEF SamplerInv, QuietIsRecorded
<1>5. \A p \in Live \cup (settling \ {s}) \cup reserving : \A k \in KeysOf(s.node) :
         k \notin KeysOf(p.node)
  BY Apart DEF SamplerInv
<1> DEFINE row == [lease |-> 0, pending |-> FALSE, left |-> s.left, dur |-> s.dur]
<1>6. /\ row \in DbRows /\ NoRow \in DbRows /\ row # NoRow /\ ~row.pending
      /\ row.left = s.left /\ row.dur = s.dur /\ ~NoRow.pending
  BY <1>1 DEF DbRows, NoRow
<1>7. Executed(s) = [k \in Keys |-> IF k \notin OwnRows(s) THEN db[k]
                                    ELSE IF s.op = "abandon" THEN NoRow ELSE row]
  BY DEF Executed
<1> HIDE DEF row
<1> QED
  BY <1>1, <1>2, <1>3, <1>4, <1>5, <1>6, <1>7

(* A storage error ends the sampling and withdraws the request that waits  *)
(* to be sent; the rows K were those of a debt.                            *)
LEMMA FaultStep ==
    ASSUME SamplerInv, Polling, NEW owed \in SUBSET settling, MarkStorageFault(owed),
           NEW K, db' \in [Keys -> DbRows], \A k \in Keys : k \notin K => db'[k] = db[k],
           \A k \in K \cap Keys : quiet[k] > 0 =>
                       /\ db'[k] # NoRow
                       /\ db'[k].left >= quiet[k] /\ db'[k].dur >= quiet[k],
           \A k \in K : /\ db[k].pending /\ ~db'[k].pending
                        /\ \A p \in Live \cup owed \cup reserving : k \notin KeysOf(p.node),
           reserving' \subseteq reserving,
           UNCHANGED <<pc, queued, pending, paused, idPaused, quiet>>
    PROVE  SamplerInv'
<1> DEFINE D == Withdrawals(ready)
<1>1. /\ fault' = TRUE /\ session' = FALSE /\ inflight' = {} /\ fallback' = {} /\ ready' = {}
      /\ mem' = Raised(StoppedMem(ready), KeysOfAll(Leased({})), Long)
      /\ settling' = owed \cup D \cup Settlements({}, Long)
  BY DEF MarkStorageFault, Halt
<1>2. settling' = owed \cup D
  <2>1. Settlements({}, Long) = {}
    BY DEF Settlements, Leased
  <2> QED
    BY <1>1, <2>1
<1>3. ready \in SUBSET Requests /\ ready \in SUBSET Live /\ 0 \in Nat
  BY DEF SamplerInv, SamplerTypes, Live
<1>4. /\ D \subseteq Debts
      /\ \A x \in D : x.op = "abandon" /\ x.left = 0 /\ x.dur = 0
      /\ \A x \in D : \E r \in Leased(ready) : x.node = r.node /\ x.lease = r.lease
  BY <1>3, Owed
<1>5. \A x, y \in D : x.node = y.node => x = y
  <2>1. \A r, q \in Live : \A k : k \in KeysOf(r.node) /\ k \in KeysOf(q.node) => r = q
    BY Apart DEF SamplerInv
  <2>2. \A r, q \in Leased(ready) : r.node = q.node => r.lease = q.lease
    BY <1>3, <2>1, ContactKeys DEF Leased, Requests
  <2> QED
    BY <2>2 DEF Withdrawals
<1> HIDE DEF D
<1>6. mem' \in [Keys -> Nat \cup {Absent}]
  <2> DEFINE m == Forgotten(mem, ready)
             B == Present(m, UNION {KeysOf(c) : c \in inflight \ NodesOf(ready)})
             n == Raised(m, B, Long)
  <2>1. mem \in [Keys -> Nat \cup {Absent}] /\ Long \in Nat
    BY DelayAssumption DEF SamplerInv, SamplerTypes
  <2>2. m \in [Keys -> Nat \cup {Absent}]
    BY <2>1 DEF Forgotten
  <2> HIDE DEF m, B
  <2>3. n \in [Keys -> Nat \cup {Absent}]
    BY <2>1, <2>2 DEF Raised, Larger
  <2>4. mem' = Raised(n, KeysOfAll(Leased({})), Long)
    BY <1>1 DEF StoppedMem, m, B
  <2> HIDE DEF n
  <2> QED
    BY <2>1, <2>3, <2>4 DEF Raised, Larger
<1>7. SamplerTypes'
  BY <1>1, <1>2, <1>4, <1>6 DEF SamplerInv, SamplerTypes
<1>8. Leaves(ready, D, K)
  <2>1. ready \cap queued = {} /\ ready \cap pending = {} /\ \A r, q \in reserving : r = q
    BY DEF SamplerInv, WorkIsApart
  <2>2. /\ ready' \subseteq ready \ ready /\ queued' \subseteq queued \ ready
        /\ pending' \subseteq pending \ ready /\ settling' \subseteq settling \cup D
        /\ Live' \subseteq Live
    BY <1>1, <1>2, <2>1 DEF Live
  <2>3. ASSUME NEW k \in K, NEW r \in Live' \cup settling' \cup reserving'
        PROVE  k \notin KeysOf(r.node)
    <3>1. \E p \in Live \cup owed \cup reserving : p.node = r.node
      BY <1>2, <1>3, <1>4, <2>2, <2>3 DEF Leased
    <3> QED
      BY <2>3, <3>1
  <2> QED
    BY <1>3, <1>4, <1>5, <2>1, <2>2, <2>3 DEF Leaves
<1>9. Protects(ready, D, K, {}, 0)
  <2>1. Protects(ready, D, {}, {}, 0)
    BY <1>4, SameQuiet
  <2>2. KeysOfAll(Leased({})) = {}
    BY DEF KeysOfAll, Leased
  <2> QED
    BY <2>1, <2>2 DEF Protects
<1>10. StopsAreClean'
  <2>1. Live' \subseteq Live
    BY <1>1 DEF Live
  <2> QED
    BY <1>1, <2>1 DEF SamplerInv, StopsAreClean, Polling
<1> QED
  BY <1>1, <1>7, <1>8, <1>9, <1>10, Resolved, Quieted DEF SamplerInv

(* The database has settled or withdrawn, or failed to.                    *)
LEMMA SettledStep ==
    ASSUME SamplerInv, NEW s \in settling, Settled(s)
    PROVE  SamplerInv'
<1> DEFINE K == OwnRows(s)
<1>1. /\ Executed(s) \in [Keys -> DbRows] /\ K = KeysOf(s.node) /\ K \subseteq Keys
      /\ \A k \in Keys : k \notin K => Executed(s)[k] = db[k]
      /\ \A k \in K :
            /\ db[k].pending /\ ~Executed(s)[k].pending
            /\ s.op = "abandon" => Executed(s)[k] = NoRow /\ quiet[k] = 0
            /\ s.op # "abandon" =>
                 /\ Executed(s)[k] # NoRow
                 /\ Executed(s)[k].left = s.left /\ Executed(s)[k].dur = s.dur
                 /\ quiet[k] <= s.left /\ quiet[k] <= s.dur
      /\ \A p \in Live \cup (settling \ {s}) \cup reserving : \A k \in K :
            k \notin KeysOf(p.node)
  BY Paid
<1>2. /\ Polling /\ UNCHANGED <<pc, reserving, queued, pending, paused, idPaused, quiet>>
      /\ \/ /\ db' = Executed(s) /\ settling' = settling \ {s}
            /\ UNCHANGED <<session, mem, inflight, fallback, ready, fault>>
         \/ /\ db' = db \/ db' = Executed(s)
            /\ MarkStorageFault(settling \ {s})
  BY DEF Settled
<1>3. /\ \A k \in Keys : quiet[k] \in Nat /\ db[k] \in DbRows
      /\ s.left \in Nat /\ s.dur \in Nat /\ s.op \in {"abandon", "settle"} /\ db \in [Keys -> DbRows]
  BY DelayAssumption DEF SamplerInv, SamplerTypes, Debts
<1> HIDE DEF K
<1>4. \A k \in K : quiet[k] > 0 => /\ Executed(s)[k] # NoRow
                                   /\ Executed(s)[k].left >= quiet[k] /\ Executed(s)[k].dur >= quiet[k]
  BY <1>1, <1>3
<1>5. CASE MarkStorageFault(settling \ {s}) /\ db' = db
  <2> DEFINE L == {}
  <2>1. /\ \A k \in Keys : k \notin L => db'[k] = db[k]
        /\ \A k \in L \cap Keys : quiet[k] > 0 =>
                       /\ db'[k] # NoRow
                       /\ db'[k].left >= quiet[k] /\ db'[k].dur >= quiet[k]
        /\ \A k \in L : /\ db[k].pending /\ ~db'[k].pending
                        /\ \A p \in Live \cup (settling \ {s}) \cup reserving : k \notin KeysOf(p.node)
        /\ db' \in [Keys -> DbRows] /\ settling \ {s} \in SUBSET settling /\ reserving' \subseteq reserving
    BY <1>2, <1>3, <1>5
  <2> HIDE DEF L
  <2> QED
    BY <1>2, <1>5, <2>1, FaultStep
<1>6. CASE MarkStorageFault(settling \ {s}) /\ db' = Executed(s)
  <2>1. /\ \A k \in Keys : k \notin K => db'[k] = db[k]
        /\ \A k \in K \cap Keys : quiet[k] > 0 =>
                       /\ db'[k] # NoRow
                       /\ db'[k].left >= quiet[k] /\ db'[k].dur >= quiet[k]
        /\ \A k \in K : /\ db[k].pending /\ ~db'[k].pending
                        /\ \A p \in Live \cup (settling \ {s}) \cup reserving : k \notin KeysOf(p.node)
        /\ db' \in [Keys -> DbRows] /\ settling \ {s} \in SUBSET settling /\ reserving' \subseteq reserving
    BY <1>1, <1>2, <1>4, <1>6
  <2> QED
    BY <1>2, <1>6, <2>1, FaultStep
<1>7. CASE /\ db' = Executed(s) /\ settling' = settling \ {s}
           /\ UNCHANGED <<session, mem, inflight, fallback, ready, fault>>
  <2>1. Live' = Live
    BY <1>2, <1>7 DEF Live
  <2>2. SamplerTypes'
    BY <1>1, <1>2, <1>7 DEF SamplerInv, SamplerTypes
  <2>3. Leaves({}, {}, K)
    <3>1. /\ ready' \subseteq ready \ {} /\ queued' \subseteq queued \ {} /\ pending' \subseteq pending \ {}
          /\ \A r, q \in reserving' : r = q
      BY <1>2, <1>7, Apart DEF SamplerInv
    <3> QED
      BY <1>1, <1>2, <1>7, <2>1, <3>1 DEF Leaves
  <2>4. Protects({}, {}, K, {}, 0)
    <3>1. Protects({}, {}, {}, {}, 0)
      BY <1>2, SameQuiet
    <3>2. KeysOfAll(Leased({})) = {}
      BY DEF KeysOfAll, Leased
    <3> QED
      BY <1>4, <1>7, <3>1, <3>2 DEF Protects
  <2>5. ASSUME ~fault PROVE MemoryIsComplete'
    <3>1. MemoryIsComplete
      BY <2>5 DEF SamplerInv
    <3>2. ASSUME NEW k \in Keys
          PROVE  /\ ~db'[k].pending /\ db'[k].left > 0 => mem'[k] >= db'[k].left
                 /\ db'[k].pending =>
                      k \in KeysOfAll(Leased(Live') \cup settling' \cup {q \in reserving' : q.answer # "none"})
      <4>1. CASE k \in K
        <5>1. s.op = "settle" /\ s.left > 0 => mem[k] >= s.left
          BY <1>1, <3>1, <4>1 DEF MemoryIsComplete
        <5>2. s.op = "abandon" => db'[k].left = -1
          BY <1>1, <1>7, <4>1 DEF NoRow
        <5> QED
          BY <1>1, <1>3, <1>7, <4>1, <5>1, <5>2
      <4>2. CASE k \notin K
        <5>1. db'[k] = db[k] /\ mem'[k] = mem[k]
          BY <1>1, <1>7, <4>2
        <5>2. ~db[k].pending /\ db[k].left > 0 => mem[k] >= db[k].left
          BY <3>1 DEF MemoryIsComplete
        <5>3. ASSUME db[k].pending
              PROVE  k \in KeysOfAll(Leased(Live') \cup settling' \cup {q \in reserving' : q.answer # "none"})
          <6>1. k \in KeysOfAll(Leased(Live) \cup settling \cup {q \in reserving : q.answer # "none"})
            BY <3>1, <5>3 DEF MemoryIsComplete
          <6>2. PICK r \in Leased(Live) \cup settling \cup {q \in reserving : q.answer # "none"} :
                   k \in KeysOf(r.node)
            BY <6>1, KeysOfMany
          <6>3. r # s
            BY <1>1, <4>2, <6>2
          <6>4. r \in Leased(Live') \cup settling' \cup {q \in reserving' : q.answer # "none"}
            BY <1>2, <1>7, <2>1, <6>2, <6>3
          <6> QED
            BY <6>2, <6>4, KeysOfMany
        <5> QED
          BY <5>1, <5>2, <5>3
      <4> QED
        BY <4>1, <4>2
    <3>3. \A r \in reserving' : Admitted(r)' <=> Admitted(r)
      BY <1>7 DEF Admitted
    <3> QED
      BY <1>2, <1>7, <2>1, <3>1, <3>2, <3>3 DEF MemoryIsComplete
  <2>6. StopsAreClean'
    BY <1>2, <1>7, <2>1 DEF SamplerInv, StopsAreClean
  <2> QED
    BY <1>7, <2>2, <2>3, <2>4, <2>5, <2>6, Resolved, Quieted DEF SamplerInv
<1> QED
  BY <1>2, <1>5, <1>6, <1>7

(* The loop hears what became of its reservation.                          *)
LEMMA AnsweredStep ==
    ASSUME SamplerInv, ReservationAnswered
    PROVE  SamplerInv'
<1>1. PICK r \in reserving :
        LET q == [node |-> r.node, lease |-> r.lease]
        IN  /\ Polling /\ r.answer # "none"
            /\ reserving' = {}
            /\ \/ /\ r.answer = "granted" /\ Admitted(r)
                  /\ ready' = {q}
                  /\ UNCHANGED <<session, mem, inflight, fallback, settling, fault>>
               \/ /\ r.answer = "granted" /\ ~Admitted(r)
                  /\ mem' = Forgotten(mem, {q})
                  /\ inflight' = inflight \ {r.node}
                  /\ settling' = settling \cup Withdrawals({q})
                  /\ UNCHANGED <<session, fallback, ready, fault>>
               \/ r.answer \in {"conflict", "failed"} /\ MarkStorageFault(settling)
            /\ UNCHANGED <<pc, queued, pending, db, paused, idPaused, quiet>>
  BY DEF ReservationAnswered
<1> DEFINE q == [node |-> r.node, lease |-> r.lease]
<1>2. /\ Polling /\ r.answer # "none" /\ reserving' = {}
      /\ UNCHANGED <<pc, queued, pending, db, paused, idPaused, quiet>>
  BY <1>1
<1>3. /\ r.node \in Contacts /\ q \in Requests /\ q.node = r.node /\ q.lease = r.lease
      /\ db \in [Keys -> DbRows] /\ mem \in [Keys -> Nat \cup {Absent}]
  BY DEF SamplerInv, SamplerTypes, Reservations, Requests
<1>4. /\ \A p \in reserving : p = r
      /\ \A p \in Live \cup settling : \A k : ~(k \in KeysOf(r.node) /\ k \in KeysOf(p.node))
      /\ ready = {}
  BY Apart DEF SamplerInv, WorkIsApart
<1>5. \A p \in Live \cup settling : ~Share(q, p) /\ ~Share(p, q)
  BY <1>3, <1>4 DEF Share
<1>6. \A k \in KeysOf(r.node) : quiet[k] = 0
  BY DEF SamplerInv, QuietIsRecorded
<1>7. r.answer = "granted" =>
         q.lease # 0 /\ \A k \in KeysOf(r.node) : db[k].pending /\ db[k].lease = q.lease
  BY <1>3 DEF SamplerInv, RowsAreHeld, Granted
<1>8. /\ \A T : Rows(T)' = Rows(T)
      /\ Granted' = {}
  BY <1>2 DEF Rows, Granted
<1> HIDE DEF q
<1>9. CASE r.answer \in {"conflict", "failed"} /\ MarkStorageFault(settling)
  <2> DEFINE L == {}
  <2>1. /\ \A k \in Keys : k \notin L => db'[k] = db[k]
        /\ \A k \in L \cap Keys : quiet[k] > 0 =>
                       /\ db'[k] # NoRow
                       /\ db'[k].left >= quiet[k] /\ db'[k].dur >= quiet[k]
        /\ \A k \in L : /\ db[k].pending /\ ~db'[k].pending
                        /\ \A p \in Live \cup settling \cup reserving : k \notin KeysOf(p.node)
        /\ db' \in [Keys -> DbRows] /\ settling \in SUBSET settling /\ reserving' \subseteq reserving
    BY <1>2, <1>3
  <2> HIDE DEF L
  <2> QED
    BY <1>2, <1>9, <2>1, FaultStep
<1>10. CASE /\ r.answer = "granted" /\ Admitted(r) /\ ready' = {q}
            /\ UNCHANGED <<session, mem, inflight, fallback, settling, fault>>
  <2>1. /\ session = TRUE /\ ~fault /\ pc = "loop" /\ MemoryIsComplete
    BY <1>2, <1>10 DEF Admitted, SamplerInv, SamplerTypes, StopsAreClean, Polling
  <2>2. Live' = Live \cup {q} /\ Leased(Live') = Leased(Live) \cup {q}
    <3>1. Live' = Live \cup {q}
      BY <1>2, <1>4, <1>10 DEF Live
    <3> QED
      BY <1>7, <1>10, <3>1 DEF Leased
  <2>3. SamplerTypes'
    BY <1>2, <1>3, <1>10 DEF SamplerInv, SamplerTypes
  <2>4. WorkIsApart'
    <3>1. q \notin Live
      BY <1>3, <1>5, ContactKeys DEF Share
    <3>2. /\ ready' \cap queued' = {} /\ ready' \cap pending' = {} /\ queued' \cap pending' = {}
      BY <1>2, <1>10, <3>1 DEF SamplerInv, WorkIsApart, Live
    <3> HIDE DEF Live
    <3> QED
      BY <1>2, <1>5, <1>10, <2>2, <3>2 DEF SamplerInv, WorkIsApart
  <2>5. RowsAreHeld'
    BY <1>2, <1>3, <1>7, <1>8, <1>10, <2>2 DEF SamplerInv, RowsAreHeld
  <2>6. QuietIsRecorded'
    BY <1>2, <1>3, <1>6, <1>10, <2>2 DEF SamplerInv, QuietIsRecorded
  <2>7. MemoryIsComplete'
    <3>1. r.node \in inflight /\ \A k \in KeysOf(r.node) : mem[k] = 0
      BY <1>10, <2>1 DEF MemoryIsComplete
    <3>2. NodesOf(Live') \subseteq inflight'
      BY <1>3, <1>10, <2>1, <2>2, <3>1 DEF MemoryIsComplete, NodesOf
    <3>3. ASSUME NEW k \in Keys, db'[k].pending
          PROVE  k \in KeysOfAll(Leased(Live') \cup settling' \cup {p \in reserving' : p.answer # "none"})
      <4>1. k \in KeysOfAll(Leased(Live) \cup settling \cup {p \in reserving : p.answer # "none"})
        BY <1>2, <2>1, <3>3 DEF MemoryIsComplete
      <4>2. PICK p \in Leased(Live) \cup settling \cup {u \in reserving : u.answer # "none"} :
               k \in KeysOf(p.node)
        BY <4>1, KeysOfMany
      <4>3. \E u \in Leased(Live') \cup settling' : k \in KeysOf(u.node)
        BY <1>3, <1>4, <1>10, <2>2, <4>2
      <4> QED
        BY <4>3, KeysOfMany
    <3> QED
      BY <1>2, <1>3, <1>10, <2>1, <2>2, <3>1, <3>2, <3>3 DEF MemoryIsComplete
  <2>8. StopsAreClean'
    BY <1>2, <1>10, <2>1 DEF StopsAreClean
  <2> QED
    BY <2>3, <2>4, <2>5, <2>6, <2>7, <2>8 DEF SamplerInv
<1>11. CASE /\ r.answer = "granted" /\ ~Admitted(r)
            /\ mem' = Forgotten(mem, {q}) /\ inflight' = inflight \ {r.node}
            /\ settling' = settling \cup Withdrawals({q})
            /\ UNCHANGED <<session, fallback, ready, fault>>
  <2> DEFINE x == [op |-> "abandon", lease |-> q.lease, node |-> q.node, left |-> 0, dur |-> 0]
  <2>1. Leased({q}) = {q}
    BY <1>7, <1>11 DEF Leased
  <2>2. settling' = settling \cup {x}
    BY <1>11, <2>1 DEF Withdrawals
  <2>3. /\ x \in Debts /\ x.node = r.node /\ x.lease = q.lease /\ x.op = "abandon"
    BY <1>3, <1>7, <1>11 DEF Debts, Requests
  <2> HIDE DEF x
  <2>4. Live' = Live /\ Leased(Live') = Leased(Live)
    BY <1>2, <1>11 DEF Live
  <2>5. mem' \in [Keys -> Nat \cup {Absent}]
    BY <1>3, <1>11 DEF Forgotten
  <2>6. SamplerTypes'
    BY <1>2, <1>11, <2>2, <2>3, <2>5 DEF SamplerInv, SamplerTypes
  <2>7. WorkIsApart'
    <3>1. \A p \in Live \cup settling : ~Share(x, p) /\ ~Share(p, x)
      BY <1>3, <1>5, <2>3 DEF Share
    <3> QED
      BY <1>2, <1>11, <2>2, <2>4, <3>1 DEF SamplerInv, WorkIsApart
  <2>8. RowsAreHeld'
    BY <1>2, <1>3, <1>7, <1>8, <1>11, <2>2, <2>3, <2>4 DEF SamplerInv, RowsAreHeld
  <2>9. QuietIsRecorded'
    BY <1>2, <1>3, <1>6, <2>2, <2>3, <2>4 DEF SamplerInv, QuietIsRecorded
  <2>10. \A k \in Keys : /\ k \in KeysOf(r.node) => mem'[k] = Absent
                         /\ k \notin KeysOf(r.node) => mem'[k] = mem[k]
    <3>1. KeysOfAll(Leased({q})) = KeysOf(r.node)
      BY <1>3, <2>1 DEF KeysOfAll
    <3> QED
      BY <1>11, <3>1, ForgottenTimes
  <2>11. ASSUME ~fault PROVE MemoryIsComplete'
    <3>1. MemoryIsComplete
      BY <2>11 DEF SamplerInv
    <3>2. \A c \in inflight' : c \in inflight /\ c \in Contacts
                               /\ \A k \in KeysOf(c) : k \notin KeysOf(r.node)
      BY <1>11, <3>1 DEF MemoryIsComplete, SamplerInv, SamplerTypes
    <3>3. ASSUME NEW c \in inflight', NEW k \in KeysOf(c) PROVE mem'[k] # Absent
      <4>1. c \in inflight /\ k \in Keys /\ k \notin KeysOf(r.node)
        BY <3>2, <3>3, ContactKeys
      <4>2. mem[k] # Absent
        BY <3>1, <3>3, <4>1 DEF MemoryIsComplete
      <4> QED
        BY <2>10, <4>1, <4>2
    <3>4. NodesOf(Live') \subseteq inflight'
      <4> SUFFICES ASSUME NEW p \in Live PROVE p.node \in inflight \ {r.node}
        BY <1>11, <2>4 DEF NodesOf
      <4>1. p.node \in inflight
        BY <3>1 DEF MemoryIsComplete, NodesOf
      <4>2. p.node # r.node
        BY <1>3, <1>4, ContactKeys
      <4> QED
        BY <4>1, <4>2
    <3>5. ASSUME NEW p \in Leased(Live'), NEW k \in KeysOf(p.node) PROVE mem'[k] = 0
      <4>1. p \in Live /\ p.node \in Contacts
        BY <2>4 DEF Leased, Live, SamplerInv, SamplerTypes, Requests
      <4>2. k \in Keys /\ k \notin KeysOf(r.node)
        BY <1>4, <3>5, <4>1, ContactKeys
      <4>3. mem[k] = 0
        BY <2>4, <3>1, <3>5 DEF MemoryIsComplete
      <4> QED
        BY <2>10, <4>2, <4>3
    <3>6. ASSUME NEW T \in {Ids, Ips} PROVE Cardinality(Present(mem', T)) <= Capacity
      <4>1. IsFiniteSet(T) /\ T \subseteq Keys
        BY KeyKinds
      <4>2. Present(mem', T) \subseteq Present(mem, T) /\ Present(mem, T) \subseteq T
        BY <2>10, <4>1 DEF Present
      <4>3. IsFiniteSet(Present(mem, T)) /\ Cardinality(Present(mem, T)) <= Capacity
        BY <3>1, <4>1, <4>2, FS_Subset DEF MemoryIsComplete
      <4> QED
        BY <4>2, <4>3, FewerFit
    <3>7. ASSUME NEW k \in Keys
          PROVE  /\ quiet'[k] > 0 => mem'[k] >= quiet'[k]
                 /\ ~db'[k].pending /\ db'[k].left > 0 => mem'[k] >= db'[k].left
      <4>1. CASE k \in KeysOf(r.node)
        BY <1>2, <1>6, <1>7, <1>11, <4>1
      <4>2. CASE k \notin KeysOf(r.node)
        BY <1>2, <2>10, <3>1, <4>2 DEF MemoryIsComplete
      <4> QED
        BY <4>1, <4>2
    <3>8. ASSUME NEW k \in Keys, db'[k].pending
          PROVE  k \in KeysOfAll(Leased(Live') \cup settling' \cup {p \in reserving' : p.answer # "none"})
      <4>1. k \in KeysOfAll(Leased(Live) \cup settling \cup {p \in reserving : p.answer # "none"})
        BY <1>2, <3>1, <3>8 DEF MemoryIsComplete
      <4>2. PICK p \in Leased(Live) \cup settling \cup {u \in reserving : u.answer # "none"} :
               k \in KeysOf(p.node)
        BY <4>1, KeysOfMany
      <4>3. \E u \in Leased(Live') \cup settling' : k \in KeysOf(u.node)
        BY <1>4, <2>2, <2>3, <2>4, <4>2
      <4> QED
        BY <4>3, KeysOfMany
    <3>9. ASSUME NEW s \in settling', NEW k \in KeysOf(s.node), s.op = "settle", s.left > 0
          PROVE  mem'[k] >= s.left
      <4>1. s \in settling /\ s.node \in Contacts
        BY <2>2, <2>3, <3>9 DEF SamplerInv, SamplerTypes, Debts
      <4>2. k \in Keys /\ k \notin KeysOf(r.node) /\ mem[k] >= s.left
        BY <1>4, <3>1, <3>9, <4>1, ContactKeys DEF MemoryIsComplete
      <4> QED
        BY <2>10, <4>2
    <3>10. \A c, d \in inflight' : KeysOf(c) \cap KeysOf(d) # {} => c = d
      BY <3>1, <3>2 DEF MemoryIsComplete
    <3>11. Live' # {} => session'
      BY <1>11, <2>4, <3>1 DEF MemoryIsComplete
    <3> QED
      BY <1>2, <3>3, <3>4, <3>5, <3>6, <3>7, <3>8, <3>9, <3>10, <3>11 DEF MemoryIsComplete
  <2>12. StopsAreClean'
    BY <1>2, <1>11, <2>4 DEF SamplerInv, StopsAreClean, Polling
  <2> QED
    BY <1>11, <2>6, <2>7, <2>8, <2>9, <2>11, <2>12 DEF SamplerInv
<1> QED
  BY <1>1, <1>9, <1>10, <1>11 DEF q

(* A new identity is bound, or the node ends.                              *)
LEMMA DrainedStep ==
    ASSUME SamplerInv, Bind \/ Flushed
    PROVE  SamplerInv'
<1>1. /\ reserving = {} /\ settling = {} /\ pc # "loop"
      /\ UNCHANGED <<mem, reserving, ready, queued, pending, settling, db, paused, quiet>>
  BY DEF Bind, Flushed, Drained
<1>2. Live = {} /\ Live' = {} /\ ready = {} /\ queued = {} /\ pending = {}
  BY <1>1 DEF SamplerInv, StopsAreClean, Live
<1>3. CASE Flushed
  <2>1. /\ pc = "flush" /\ pc' = "exited"
        /\ UNCHANGED <<session, inflight, fallback, fault, idPaused>>
    BY <1>3 DEF Flushed
  <2>2. WorkIsApart' /\ RowsAreHeld' /\ QuietIsRecorded' /\ (~fault => MemoryIsComplete')
    BY <1>1, <1>2, <2>1, SameWork
  <2>3. SamplerTypes' /\ StopsAreClean'
    BY <1>1, <1>2, <2>1 DEF SamplerInv, SamplerTypes, StopsAreClean
  <2> QED
    BY <2>1, <2>2, <2>3 DEF SamplerInv
<1>4. CASE Bind
  <2>1. /\ pc = "rotate" /\ pc' = "loop" /\ idPaused' \in BOOLEAN
        /\ \/ fault /\ UNCHANGED <<session, inflight, fallback, fault>>
           \/ ~fault /\ inflight' = {} /\ fallback' = {} /\ UNCHANGED <<session, fault>>
           \/ ~fault /\ fault' = TRUE /\ session' = FALSE /\ inflight' = {} /\ fallback' = {}
    BY <1>4 DEF Bind, SamplerInv, SamplerTypes
  <2>2. SamplerTypes'
    BY <1>1, <2>1 DEF SamplerInv, SamplerTypes
  <2>3. Leaves({}, {}, {})
    BY <1>1, <1>2 DEF Leaves
  <2>4. Protects({}, {}, {}, {}, 0)
    BY <1>1, SameQuiet
  <2>5. WorkIsApart' /\ RowsAreHeld' /\ QuietIsRecorded'
    BY <2>2, <2>3, <2>4, Resolved, Quieted
  <2>6. ASSUME ~fault' PROVE MemoryIsComplete'
    <3>1. MemoryIsComplete /\ inflight' = {} /\ session' = session
      BY <2>1, <2>6 DEF SamplerInv
    <3>2. NodesOf(Live') = {} /\ Leased(Live') = {} /\ Leased(Live) = {}
      BY <1>2 DEF NodesOf, Leased
    <3> QED
      BY <1>1, <1>2, <3>1, <3>2 DEF MemoryIsComplete
  <2>7. StopsAreClean'
    BY <1>1, <1>2, <2>1 DEF SamplerInv, StopsAreClean
  <2> QED
    BY <2>2, <2>5, <2>6, <2>7 DEF SamplerInv
<1> QED
  BY <1>3, <1>4

(* Time passes: all that lasts becomes shorter together.                   *)
LEMMA TickStep ==
    ASSUME SamplerInv, Tick
    PROVE  SamplerInv'
<1> DEFINE Later(s) == [s EXCEPT !.left = Elapse(@)]
<1>1. /\ UNCHANGED <<pc, fault, paused, idPaused, session, inflight, fallback, reserving, ready,
                     queued, pending>>
      /\ settling' = {Later(s) : s \in settling}
      /\ Live' = Live /\ Leased(Live') = Leased(Live) /\ Granted' = Granted
  BY DEF Tick, control, Live, Granted
<1>2. /\ mem \in [Keys -> Nat \cup {Absent}] /\ quiet \in [Keys -> 0..Long] /\ Long \in Nat
      /\ db \in [Keys -> DbRows]
      /\ \A r \in Live \cup settling \cup reserving : r.node \in Contacts
      /\ \A s \in settling : s \in Debts /\ s.left \in Nat
      /\ \A r \in reserving : r.expired \subseteq Keys
  BY DelayAssumption DEF SamplerInv, SamplerTypes, Live, Requests, Reservations, Debts
<1>3. /\ mem' \in [Keys -> Nat \cup {Absent}]
      /\ \A k \in Keys : /\ mem[k] \in Int /\ mem'[k] = Elapse(mem[k])
                         /\ mem'[k] = Absent <=> mem[k] = Absent
  BY <1>2 DEF Tick, Elapse, Absent
<1>4. /\ quiet' \in [Keys -> 0..Long]
      /\ \A k \in Keys : quiet[k] \in Nat /\ quiet'[k] = Elapse(quiet[k])
  BY <1>2 DEF Tick, Elapse
<1>5. /\ db' \in [Keys -> DbRows]
      /\ \A k \in Keys : /\ db'[k].pending = db[k].pending /\ db'[k].lease = db[k].lease
                         /\ db'[k].dur = db[k].dur /\ db[k].dur \in Nat
                         /\ db[k].left \in Int
                         /\ db'[k] = NoRow <=> db[k] = NoRow
                         /\ db[k].pending => db'[k] = db[k]
                         /\ ~db[k].pending => db'[k].left = Elapse(db[k].left)
  <2>1. ASSUME NEW k \in Keys
        PROVE  /\ db'[k] \in DbRows
               /\ db'[k].pending = db[k].pending /\ db'[k].lease = db[k].lease
               /\ db'[k].dur = db[k].dur /\ db[k].dur \in Nat
               /\ db[k].left \in Int
               /\ db'[k] = NoRow <=> db[k] = NoRow
               /\ db[k].pending => db'[k] = db[k]
               /\ ~db[k].pending => db'[k].left = Elapse(db[k].left)
    <3>1. db[k] \in DbRows
      BY <1>2
    <3>2. db'[k] = IF db[k].pending THEN db[k] ELSE [db[k] EXCEPT !.left = Elapse(@)]
      BY DEF Tick
    <3>3. CASE db[k] = NoRow
      <4>1. [NoRow EXCEPT !.left = Elapse(@)] = NoRow
        BY DEF NoRow, Elapse
      <4>2. db'[k] = NoRow
        BY <3>2, <3>3, <4>1
      <4> QED
        BY <3>1, <3>3, <4>2 DEF NoRow, Elapse
    <3>4. CASE db[k] # NoRow
      <4>1. db[k] \in [lease : Leases \cup {0}, pending : BOOLEAN, left : Nat, dur : Nat]
        BY <3>1, <3>4 DEF DbRows
      <4>2. Elapse(db[k].left) \in Nat
        BY <4>1 DEF Elapse
      <4>3. /\ db'[k] \in [lease : Leases \cup {0}, pending : BOOLEAN, left : Nat, dur : Nat]
            /\ db'[k].pending = db[k].pending /\ db'[k].lease = db[k].lease /\ db'[k].dur = db[k].dur
            /\ db[k].pending => db'[k] = db[k]
            /\ ~db[k].pending => db'[k].left = Elapse(db[k].left)
            /\ db'[k].left \in Nat
        BY <3>2, <4>1, <4>2
      <4>4. db'[k] # NoRow
        BY <4>3 DEF NoRow
      <4> QED
        BY <3>4, <4>1, <4>3, <4>4 DEF DbRows
    <3> QED
      BY <3>3, <3>4
  <2>2. db' = [k \in Keys |-> db'[k]]
    BY DEF Tick
  <2> QED
    BY <2>1, <2>2
<1>6. /\ settling' \subseteq Debts
      /\ \A s \in settling' : \E t \in settling :
            s = Later(t) /\ s.node = t.node /\ s.lease = t.lease /\ s.op = t.op /\ s.dur = t.dur
            /\ s.left = Elapse(t.left)
      /\ \A t \in settling : \E s \in settling' : s.node = t.node
  <2>1. \A t \in settling : LET s == Later(t) IN
            /\ s \in Debts
            /\ s.node = t.node /\ s.lease = t.lease /\ s.op = t.op /\ s.dur = t.dur
            /\ s.left = Elapse(t.left)
    BY <1>2 DEF Debts, Elapse
  <2> HIDE DEF Later
  <2> QED
    BY <1>1, <2>1
<1> HIDE DEF Later
<1>7. SamplerTypes'
  BY <1>1, <1>3, <1>4, <1>5, <1>6 DEF SamplerInv, SamplerTypes
<1>8. WorkIsApart'
  <2>1. ASSUME NEW s \in settling', NEW t \in settling', Share(s, t) PROVE s = t
    <3>1. PICK a \in settling : s = Later(a) /\ s.node = a.node
      BY <1>6
    <3>2. PICK b \in settling : t = Later(b) /\ t.node = b.node
      BY <1>6
    <3>3. a = b
      BY <2>1, <3>1, <3>2 DEF SamplerInv, WorkIsApart, Share
    <3> QED
      BY <3>1, <3>2, <3>3
  <2>2. \A r \in Live, s \in settling' : ~Share(r, s)
    BY <1>6 DEF SamplerInv, WorkIsApart, Share
  <2>3. \A r \in reserving, s \in settling' : ~Share(r, s)
    BY <1>6 DEF SamplerInv, WorkIsApart, Share
  <2> QED
    BY <1>1, <2>1, <2>2, <2>3 DEF SamplerInv, WorkIsApart
<1>9. RowsAreHeld'
  <2>1. \A T \in {Ids, Ips} : Rows(T)' = Rows(T) /\ \A E : (Rows(T) \ E)' = Rows(T) \ E
    BY <1>5, KeyKinds DEF Rows
  <2>2. ASSUME NEW r \in Leased(Live') \cup settling' \cup Granted', NEW k \in KeysOf(r.node)
        PROVE  db'[k].pending /\ db'[k].lease = r.lease
    <3>1. PICK p \in Leased(Live) \cup settling \cup Granted : p.node = r.node /\ p.lease = r.lease
      BY <1>1, <1>6, <2>2
    <3>2. db[k].pending /\ db[k].lease = r.lease
      BY <2>2, <3>1 DEF SamplerInv, RowsAreHeld
    <3>3. k \in Keys
      BY <1>2, <2>2, <3>1, ContactKeys DEF Leased, Granted
    <3> QED
      BY <1>5, <3>2, <3>3
  <2>3. ASSUME NEW r \in reserving', r.answer = "none"
        PROVE  /\ \A k \in r.expired : ~db'[k].pending /\ db'[k].left <= 0
               /\ \A k \in KeysOf(r.node) : db'[k] = NoRow \/ k \in r.expired
               /\ \A T \in {Ids, Ips} : Cardinality(Rows(T) \ r.expired)' < Capacity
    <3>1. /\ \A k \in r.expired : ~db[k].pending /\ db[k].left <= 0
          /\ \A k \in KeysOf(r.node) : db[k] = NoRow \/ k \in r.expired
          /\ \A T \in {Ids, Ips} : Cardinality(Rows(T) \ r.expired) < Capacity
          /\ r.expired \subseteq Keys /\ KeysOf(r.node) \subseteq Keys
      BY <1>1, <1>2, <2>3, ContactKeys DEF SamplerInv, RowsAreHeld
    <3>2. \A k \in r.expired : ~db'[k].pending /\ db'[k].left <= 0
      BY <1>5, <3>1 DEF Elapse
    <3>3. \A k \in KeysOf(r.node) : db'[k] = NoRow \/ k \in r.expired
      BY <1>5, <3>1
    <3> QED
      BY <2>1, <3>1, <3>2, <3>3
  <2>4. /\ \A r \in reserving' : r.answer # "conflict" /\ (r.answer = "granted" => r.lease # 0)
        /\ \A T \in {Ids, Ips} : Cardinality(Rows(T))' <= Capacity
    BY <1>1, <2>1 DEF SamplerInv, RowsAreHeld
  <2>5. \A k \in Keys : db'[k].pending => db'[k].dur = Long
    BY <1>5 DEF SamplerInv, RowsAreHeld
  <2> QED
    BY <2>2, <2>3, <2>4, <2>5 DEF RowsAreHeld
<1>10. QuietIsRecorded'
  <2>1. /\ \A k \in Keys : quiet[k] > 0 =>
             /\ db[k] # NoRow
             /\ db[k].pending \/ (db[k].left >= quiet[k] /\ db[k].dur >= quiet[k])
        /\ \A r \in Leased(Live) \cup reserving : \A k \in KeysOf(r.node) : quiet[k] = 0
        /\ \A s \in settling : \A k \in KeysOf(s.node) :
             IF s.op = "abandon" THEN quiet[k] = 0
             ELSE quiet[k] <= s.left /\ quiet[k] <= s.dur
    BY DEF SamplerInv, QuietIsRecorded
  <2>2. ASSUME NEW k \in Keys, quiet'[k] > 0
        PROVE  /\ db'[k] # NoRow
               /\ db'[k].pending \/ (db'[k].left >= quiet'[k] /\ db'[k].dur >= quiet'[k])
    <3>1. quiet[k] > 0 /\ quiet'[k] = quiet[k] - 1
      BY <1>4, <2>2 DEF Elapse
    <3> QED
      BY <1>4, <1>5, <2>1, <3>1 DEF Elapse
  <2>3. ASSUME NEW r \in Leased(Live') \cup reserving', NEW k \in KeysOf(r.node)
        PROVE  quiet'[k] = 0
    <3>1. quiet[k] = 0 /\ k \in Keys
      BY <1>1, <1>2, <2>1, <2>3, ContactKeys DEF Leased
    <3> QED
      BY <1>4, <3>1 DEF Elapse
  <2>4. ASSUME NEW s \in settling', NEW k \in KeysOf(s.node)
        PROVE  IF s.op = "abandon" THEN quiet'[k] = 0
               ELSE quiet'[k] <= s.left /\ quiet'[k] <= s.dur
    <3>1. PICK t \in settling : /\ s.node = t.node /\ s.op = t.op /\ s.dur = t.dur
                                /\ s.left = Elapse(t.left) /\ t \in Debts
      BY <1>2, <1>6
    <3>2. k \in Keys
      BY <1>2, <2>4, <3>1, ContactKeys
    <3>3. t.left \in Nat /\ t.dur \in Nat /\ quiet[k] \in Nat
      BY <1>4, <3>1, <3>2 DEF Debts
    <3>4. IF t.op = "abandon" THEN quiet[k] = 0
          ELSE quiet[k] <= t.left /\ quiet[k] <= t.dur
      BY <2>1, <2>4, <3>1
    <3> QED
      BY <1>4, <3>1, <3>2, <3>3, <3>4 DEF Elapse
  <2> QED
    BY <2>2, <2>3, <2>4 DEF QuietIsRecorded
<1>11. ASSUME ~fault PROVE MemoryIsComplete'
  <2>1. MemoryIsComplete
    BY <1>11 DEF SamplerInv
  <2>2. \A k \in Keys : mem[k] = 0 => mem'[k] = 0
    BY <1>3 DEF Elapse
  <2>3. \A c \in inflight' : \A k \in KeysOf(c) : mem'[k] # Absent
    BY <1>1, <1>3, <2>1, ContactKeys DEF MemoryIsComplete, SamplerInv, SamplerTypes
  <2>4. \A r \in reserving' : Admitted(r)' => /\ r.node \in inflight'
                                             /\ \A k \in KeysOf(r.node) : mem'[k] = 0
    BY <1>1, <1>2, <2>1, <2>2, ContactKeys DEF MemoryIsComplete, Admitted
  <2>5. \A r \in Leased(Live') : \A k \in KeysOf(r.node) : mem'[k] = 0
    BY <1>1, <1>2, <2>1, <2>2, ContactKeys DEF MemoryIsComplete, Leased
  <2>6. \A T \in {Ids, Ips} : Cardinality(Present(mem', T)) <= Capacity
    <3>1. \A T \in {Ids, Ips} : Present(mem', T) = Present(mem, T)
      BY <1>3, KeyKinds DEF Present
    <3> QED
      BY <2>1, <3>1 DEF MemoryIsComplete
  <2>7. ASSUME NEW k \in Keys
        PROVE  /\ quiet'[k] > 0 => mem'[k] >= quiet'[k]
               /\ ~db'[k].pending /\ db'[k].left > 0 => mem'[k] >= db'[k].left
    <3>1. /\ quiet[k] > 0 => mem[k] >= quiet[k]
          /\ ~db[k].pending /\ db[k].left > 0 => mem[k] >= db[k].left
      BY <2>1 DEF MemoryIsComplete
    <3> QED
      BY <1>3, <1>4, <1>5, <3>1 DEF Elapse
  <2>8. ASSUME NEW k \in Keys, db'[k].pending
        PROVE  k \in KeysOfAll(Leased(Live') \cup settling' \cup {p \in reserving' : p.answer # "none"})
    <3>1. k \in KeysOfAll(Leased(Live) \cup settling \cup {p \in reserving : p.answer # "none"})
      BY <1>5, <2>1, <2>8 DEF MemoryIsComplete
    <3>2. PICK p \in Leased(Live) \cup settling \cup {u \in reserving : u.answer # "none"} :
             k \in KeysOf(p.node)
      BY <3>1, KeysOfMany
    <3>3. \E u \in Leased(Live') \cup settling' \cup {v \in reserving' : v.answer # "none"} :
             u.node = p.node
      BY <1>1, <1>6, <3>2
    <3> QED
      BY <3>2, <3>3, KeysOfMany
  <2>9. ASSUME NEW s \in settling', NEW k \in KeysOf(s.node), s.op = "settle", s.left > 0
        PROVE  mem'[k] >= s.left
    <3>1. PICK t \in settling : s.node = t.node /\ s.op = t.op /\ s.left = Elapse(t.left)
      BY <1>6
    <3>2. k \in Keys /\ t.left \in Nat
      BY <1>2, <2>9, <3>1, ContactKeys
    <3>3. t.left > 0
      BY <2>9, <3>1, <3>2 DEF Elapse
    <3>4. mem[k] >= t.left
      BY <2>1, <2>9, <3>1, <3>3 DEF MemoryIsComplete
    <3> QED
      BY <1>3, <3>1, <3>2, <3>3, <3>4 DEF Elapse
  <2>10. /\ \A c, d \in inflight' : KeysOf(c) \cap KeysOf(d) # {} => c = d
         /\ \A r \in reserving', c \in inflight' : KeysOf(r.node) \cap KeysOf(c) # {} => c = r.node
         /\ NodesOf(Live') \subseteq inflight' /\ (Live' # {} => session')
    BY <1>1, <2>1 DEF MemoryIsComplete, NodesOf
  <2> QED
    BY <2>3, <2>4, <2>5, <2>6, <2>7, <2>8, <2>9, <2>10 DEF MemoryIsComplete
<1>12. StopsAreClean'
  <2>1. settling = {} => settling' = {}
    BY <1>1
  <2> QED
    BY <1>1, <2>1 DEF SamplerInv, StopsAreClean
<1> QED
  BY <1>1, <1>7, <1>8, <1>9, <1>10, <1>11, <1>12 DEF SamplerInv

(* The node crashes or ends and is started again, with the wall clock      *)
(* moved: a pending row is taken for a packet that was sent.               *)
LEMMA RestartStep ==
    ASSUME SamplerInv, NEW shift \in Shifts, Restart(shift)
    PROVE  SamplerInv'
<1> DEFINE left == [k \in Keys |-> IF db[k] = NoRow THEN 0 ELSE Remaining(db[k], shift)]
           L(k) == IF db[k] = NoRow THEN 0 ELSE Remaining(db[k], shift)
           P == KeysOfAll(Leased(pending))
<1>1. /\ db' = [k \in Keys |->
                  IF left[k] = 0 THEN NoRow
                  ELSE [db[k] EXCEPT !.pending = FALSE, !.lease = 0, !.left = left[k]]]
      /\ mem' = [k \in Keys |-> IF left[k] = 0 THEN Absent ELSE left[k]]
      /\ quiet' = Raised([k \in Keys |-> Larger(0, quiet[k] - Larger(0, shift))], P, Long)
      /\ pc' = "loop" /\ session' = FALSE /\ fault' = FALSE
      /\ paused' = FALSE /\ idPaused' = FALSE
      /\ inflight' = {} /\ fallback' = {} /\ reserving' = {} /\ ready' = {}
      /\ queued' = {} /\ pending' = {} /\ settling' = {}
  BY DEF Restart
<1>2. /\ shift \in Int /\ Long \in Nat /\ Long > 0 /\ db \in [Keys -> DbRows]
      /\ \A k \in Keys : quiet[k] \in 0..Long
  BY DelayAssumption DEF SamplerInv, SamplerTypes
<1>3. /\ \A k \in Keys : quiet[k] > 0 =>
           /\ db[k] # NoRow
           /\ db[k].pending \/ (db[k].left >= quiet[k] /\ db[k].dur >= quiet[k])
      /\ \A k \in Keys : db[k].pending => db[k].dur = Long
      /\ \A T \in {Ids, Ips} : Cardinality(Rows(T)) <= Capacity
  BY DEF SamplerInv, QuietIsRecorded, RowsAreHeld
<1>4. ASSUME NEW k \in P PROVE k \in Keys => db[k].pending
  BY <1>4, KeysOfMany DEF SamplerInv, RowsAreHeld, Live, Leased
<1> HIDE DEF P
<1>5. ASSUME NEW k \in Keys
      PROVE  /\ quiet'[k] \in 0..Long
             /\ quiet'[k] > 0 =>
                   \/ k \in P /\ quiet'[k] <= Long
                   \/ quiet[k] > 0 /\ quiet'[k] <= quiet[k] /\ quiet'[k] <= quiet[k] - shift
  <2> DEFINE x == Larger(0, quiet[k] - Larger(0, shift))
  <2>1. quiet'[k] = IF k \in P THEN Larger(x, Long) ELSE x
    BY <1>1 DEF Raised
  <2>2. /\ quiet[k] \in Nat /\ quiet[k] <= Long /\ x \in Nat /\ x <= quiet[k]
        /\ x > 0 => quiet[k] > 0 /\ x <= quiet[k] - shift
    BY <1>2 DEF Larger
  <2> HIDE DEF x
  <2>3. CASE k \in P
    BY <1>2, <2>1, <2>2, <2>3 DEF Larger
  <2>4. CASE k \notin P
    BY <1>2, <2>1, <2>2, <2>4
  <2> QED
    BY <2>3, <2>4
<1>6. ASSUME NEW k \in Keys
      PROVE  /\ left[k] \in Nat /\ (db[k] = NoRow => left[k] = 0)
             /\ db[k].pending => left[k] >= Long
             /\ quiet'[k] > 0 => left[k] >= quiet'[k] /\ db[k].dur >= quiet'[k] /\ left[k] # 0
             /\ left[k] # 0 =>
                  /\ db'[k] \in [lease : Leases \cup {0}, pending : BOOLEAN, left : Nat, dur : Nat]
                  /\ ~db'[k].pending /\ db'[k].left = left[k] /\ db'[k].dur = db[k].dur
                  /\ db'[k] # NoRow
  <2>1. /\ db[k] \in DbRows /\ left[k] = L(k)
    BY <1>2
  <2>2. /\ db[k].left \in Int /\ db[k].dur \in Nat /\ db[k].pending \in BOOLEAN
        /\ db[k] = NoRow => ~db[k].pending
    BY <2>1, RowFacts
  <2>3. left[k] \in Nat /\ (db[k] = NoRow => left[k] = 0)
    BY <1>2, <2>1, <2>2 DEF Remaining, Larger, Smaller
  <2>4. db[k].pending => left[k] >= Long
    BY <1>2, <2>1, <2>2 DEF Remaining, Larger
  <2>5. ASSUME quiet'[k] > 0
        PROVE  left[k] >= quiet'[k] /\ db[k].dur >= quiet'[k] /\ left[k] # 0
    <3>1. quiet'[k] \in Nat /\ quiet[k] \in Nat /\ quiet'[k] <= Long
      BY <1>2, <1>5
    <3>2. CASE db[k].pending
      BY <1>2, <1>3, <2>2, <2>3, <2>4, <2>5, <3>1, <3>2
    <3>3. CASE ~db[k].pending
      <4>1. quiet[k] > 0 /\ quiet'[k] <= quiet[k] /\ quiet'[k] <= quiet[k] - shift
        BY <1>4, <1>5, <2>5, <3>3
      <4>2. db[k] # NoRow /\ db[k].left >= quiet[k] /\ db[k].dur >= quiet[k]
        BY <1>3, <3>3, <4>1
      <4>3. left[k] = Larger(0, Smaller(db[k].left - shift, db[k].dur))
        BY <2>1, <3>3, <4>2 DEF Remaining
      <4> HIDE DEF left
      <4> QED
        BY <1>2, <2>2, <2>5, <3>1, <4>1, <4>2, <4>3 DEF Larger, Smaller
    <3> QED
      BY <3>2, <3>3
  <2>6. ASSUME left[k] # 0
        PROVE  /\ db'[k] \in [lease : Leases \cup {0}, pending : BOOLEAN, left : Nat, dur : Nat]
               /\ ~db'[k].pending /\ db'[k].left = left[k] /\ db'[k].dur = db[k].dur
               /\ db'[k] # NoRow
    <3>1. db[k] \in [lease : Leases \cup {0}, pending : BOOLEAN, left : Nat, dur : Nat]
      BY <2>1, <2>3, <2>6 DEF DbRows
    <3>2. db'[k] = [db[k] EXCEPT !.pending = FALSE, !.lease = 0, !.left = left[k]]
      BY <1>1, <2>6
    <3> HIDE DEF left
    <3>3. /\ db'[k] \in [lease : Leases \cup {0}, pending : BOOLEAN, left : Nat, dur : Nat]
          /\ ~db'[k].pending /\ db'[k].left = left[k] /\ db'[k].dur = db[k].dur
      BY <2>3, <3>1, <3>2
    <3> QED
      BY <2>3, <3>3 DEF NoRow
  <2> QED
    BY <2>3, <2>4, <2>5, <2>6
<1>7. \A k \in Keys : /\ left[k] = 0 => db'[k] = NoRow /\ mem'[k] = Absent
                      /\ left[k] # 0 => mem'[k] = left[k]
  BY <1>1
<1> HIDE DEF left
<1>8. Live' = {} /\ Leased(Live') = {} /\ Granted' = {}
  BY <1>1 DEF Live, Leased, Granted
<1>9. SamplerTypes'
  <2>1. db' \in [Keys -> DbRows]
    <3>1. db' = [k \in Keys |-> db'[k]]
      BY <1>1
    <3>2. \A k \in Keys : db'[k] \in DbRows
      BY <1>6, <1>7 DEF DbRows
    <3> QED
      BY <3>1, <3>2
  <2>2. mem' \in [Keys -> Nat \cup {Absent}]
    <3>1. mem' = [k \in Keys |-> mem'[k]]
      BY <1>1
    <3>2. \A k \in Keys : mem'[k] \in Nat \cup {Absent}
      BY <1>6, <1>7
    <3> QED
      BY <3>1, <3>2
  <2>3. quiet' \in [Keys -> 0..Long]
    <3>1. quiet' = [k \in Keys |-> quiet'[k]]
      BY <1>1 DEF Raised
    <3> QED
      BY <1>5, <3>1
  <2> QED
    BY <1>1, <2>1, <2>2, <2>3 DEF SamplerTypes
<1>10. WorkIsApart' /\ StopsAreClean'
  BY <1>1, <1>8 DEF WorkIsApart, StopsAreClean
<1>11. ASSUME NEW T \in {Ids, Ips}
       PROVE  Cardinality(Rows(T)') <= Capacity /\ Cardinality(Present(mem', T)) <= Capacity
  <2>1. IsFiniteSet(T) /\ T \subseteq Keys
    BY KeyKinds
  <2>2. Rows(T)' \subseteq Rows(T) /\ Present(mem', T) \subseteq Rows(T) /\ Rows(T) \subseteq T
    BY <1>6, <1>7, <2>1 DEF Rows, Present
  <2>3. IsFiniteSet(Rows(T)) /\ Cardinality(Rows(T)) <= Capacity
    BY <1>3, <2>1, <2>2, FS_Subset
  <2> QED
    BY <2>2, <2>3, FewerFit
<1>12. \A k \in Keys : ~db'[k].pending
  BY <1>6, <1>7 DEF NoRow
<1>13. RowsAreHeld'
  BY <1>1, <1>8, <1>11, <1>12 DEF RowsAreHeld
<1>14. QuietIsRecorded'
  BY <1>1, <1>6, <1>8 DEF QuietIsRecorded
<1>15. MemoryIsComplete'
  <2>1. \A k \in Keys : /\ quiet'[k] > 0 => mem'[k] >= quiet'[k]
                        /\ db'[k].left > 0 => mem'[k] >= db'[k].left
    BY <1>6, <1>7 DEF NoRow
  <2>2. NodesOf(Live') = {}
    BY <1>8 DEF NodesOf
  <2> QED
    BY <1>1, <1>8, <1>11, <1>12, <2>1, <2>2 DEF MemoryIsComplete
<1> QED
  BY <1>9, <1>10, <1>13, <1>14, <1>15 DEF SamplerInv

-----------------------------------------------------------------------------
(* The theorems.                                                           *)

(* Every step of the sampler, the database, time and a crash keeps the     *)
(* invariant.                                                              *)
LEMMA NextSampler == SamplerInv /\ [Next]_vars => SamplerInv'
<1> SUFFICES ASSUME SamplerInv, [Next]_vars PROVE SamplerInv'
  OBVIOUS
<1>1. CASE UNCHANGED vars
  <2>1. /\ UNCHANGED <<pc, session, mem, inflight, fallback, reserving, ready, queued,
                       pending, settling, db, fault, paused, idPaused, quiet>>
    BY <1>1 DEF vars
  <2>2. Live' = Live
    BY <2>1 DEF Live
  <2>3. WorkIsApart' /\ RowsAreHeld' /\ QuietIsRecorded' /\ (~fault => MemoryIsComplete')
    BY <2>1, <2>2, SameWork DEF SamplerInv, WorkIsApart
  <2>4. SamplerTypes' /\ StopsAreClean'
    BY <2>1, <2>2 DEF SamplerInv, SamplerTypes, StopsAreClean
  <2> QED
    BY <2>1, <2>3, <2>4 DEF SamplerInv
<1>2. CASE Next
  BY <1>2, StartStep, StopStep, PauseStep, SelectStep, FallbackStep, HandOverStep, AnswerStep,
     ReserveStep, AnsweredStep, SettledStep, RotateStep, DrainedStep, TickStep, RestartStep
     DEF Next
<1> QED
  BY <1>1, <1>2

(* In every reachable state, whatever the nodes, delays, limits, stops,    *)
(* storage faults, crashes and shifts of the clock: no two pieces of work  *)
(* concern the same id or address; who works on a key by a token has its   *)
(* pending row; what protects a key is on disk; without a storage error    *)
(* memory knows of all that the table holds; and what a stop leaves to do  *)
(* is owed to the database.                                                *)
THEOREM TableAndMemoryKeepStep == Spec => []SamplerInv
<1>1. Init => SamplerInv
  BY InitSampler
<1>2. SamplerInv /\ [Next]_vars => SamplerInv'
  BY NextSampler
<1> QED
  BY <1>1, <1>2, PTL DEF Spec

(* Nothing is sampled too early: a request that may be sent at any moment  *)
(* names neither an id nor an address that an earlier answer, cancellation *)
(* or crash still protects, or whose answer is still awaited (advance_     *)
(* sampler, send_rpc, settle, restore_cooldowns).                          *)
THEOREM NothingIsSampledEarly == Spec => []NoEarlySample
<1>1. SamplerInv => NoEarlySample
  <2> SUFFICES ASSUME SamplerInv, NEW r \in Leased(ready \cup queued), NEW k \in KeysOf(r.node)
               PROVE  quiet[k] = 0 /\ k \notin KeysOfAll(pending)
    BY DEF NoEarlySample
  <2>1. r \in Leased(Live) /\ r \in Live /\ r \notin pending /\ pending \subseteq Live
    BY DEF Leased, Live, SamplerInv, WorkIsApart
  <2>2. quiet[k] = 0
    BY <2>1 DEF SamplerInv, QuietIsRecorded
  <2>3. \A p \in pending : k \notin KeysOf(p.node)
    BY <2>1, Apart DEF SamplerInv
  <2> QED
    BY <2>2, <2>3, KeysOfMany
<1> QED
  BY <1>1, TableAndMemoryKeepStep, PTL

(* The table never refuses what memory let through, so that a refusal is   *)
(* rightly taken for a broken database, and a node that ends without a     *)
(* storage error leaves no open reservation (reserve_sampling,             *)
(* storage_event, flush_storage).                                          *)
THEOREM TableNeverRefuses == Spec => []MemoryAgreesWithTable
<1>1. SamplerInv => MemoryAgreesWithTable
  <2> SUFFICES ASSUME SamplerInv PROVE NoConflict /\ ExitIsSettled
    BY DEF MemoryAgreesWithTable
  <2>1. NoConflict
    BY DEF NoConflict, SamplerInv, RowsAreHeld
  <2>2. ASSUME pc = "exited", ~fault, NEW k \in Keys, db[k].pending PROVE FALSE
    <3>1. Live = {} /\ reserving = {} /\ settling = {} /\ MemoryIsComplete
      BY <2>2 DEF SamplerInv, StopsAreClean
    <3>2. k \in KeysOfAll(Leased(Live) \cup settling \cup {r \in reserving : r.answer # "none"})
      BY <2>2, <3>1 DEF MemoryIsComplete
    <3> QED
      BY <3>1, <3>2, KeysOfMany DEF Leased
  <2> QED
    BY <2>1, <2>2 DEF ExitIsSettled
<1> QED
  BY <1>1, TableAndMemoryKeepStep, PTL

==========================================================================
