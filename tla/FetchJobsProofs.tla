-------------------------- MODULE FetchJobsProofs --------------------------
(***************************************************************************)
(* Machine-checked theorems about FetchJobs, for any number of hashes,     *)
(* peers, infos and any limits.                                            *)
(***************************************************************************)
EXTENDS FetchJobs, FiniteSetTheorems, WellFoundedInduction, TLAPS

-----------------------------------------------------------------------------
(* What the row operators return.                                          *)

USE DEF Never, Time, JobRow, States, ActiveStates

(* enqueue yields a pending row that may fail MaxAttempts times again.     *)
LEMMA EnqueuedRow ==
    ASSUME NEW row \in JobRow, NEW at \in Time
    PROVE  /\ Enqueued(row, at) \in JobRow
           /\ Enqueued(row, at).state = "pending"
           /\ Enqueued(row, at).attempts = 0
           /\ Enqueued(row, at).gen = row.gen
  BY LimitAssumption, TimeAssumption DEF Enqueued

(* A claim numbers the row anew and runs it.                               *)
LEMMA ClaimedRow ==
    ASSUME NEW row \in JobRow, now \in Time
    PROVE  /\ Claimed(row) \in JobRow
           /\ Claimed(row).state = "running"
           /\ Claimed(row).attempts = row.attempts
           /\ Claimed(row).gen = row.gen + 1
  BY DEF Claimed

(* A remote failure adds one attempt and the last one puts the row to sleep. *)
LEMMA RetriedRow ==
    ASSUME NEW row \in JobRow, row.attempts < MaxAttempts, now \in Time,
           NEW failed \in BOOLEAN,
           NEW delay \in RetryDelays(AttemptsAfter(row, failed), failed)
    PROVE  /\ Retried(row, failed, delay) \in JobRow
           /\ Retried(row, failed, delay).state \in {"retry_wait", "dormant"}
           /\ Retried(row, failed, delay).gen = row.gen
           /\ Retried(row, failed, delay).state = "dormant"
                => Retried(row, failed, delay).attempts = MaxAttempts
           /\ Retried(row, failed, delay).state = "retry_wait"
                => Retried(row, failed, delay).attempts < MaxAttempts
<1>1. AttemptsAfter(row, failed) \in 0..MaxAttempts
  BY LimitAssumption DEF AttemptsAfter
<1>2. delay \in Nat
  <2>1. CASE failed
    <3>1. AttemptsAfter(row, failed) \in 1..MaxAttempts
      BY <2>1, LimitAssumption DEF AttemptsAfter
    <3> QED
      BY <2>1, <3>1, TimeAssumption DEF RetryDelays
  <2>2. CASE ~failed
    BY <2>2, TimeAssumption DEF RetryDelays
  <2> QED
    BY <2>1, <2>2
<1> QED
  BY <1>1, <1>2, LimitAssumption, TimeAssumption DEF Retried

(* Settling an alias leaves a missing or succeeded row alone and fences     *)
(* every other.                                                            *)
LEMMA AliasRow ==
    ASSUME NEW row \in JobRow, NEW at \in Time
    PROVE  /\ AliasSettled(row, at) \in JobRow
           /\ AliasSettled(row, at).state \in {"none", "succeeded"}
           /\ AliasSettled(row, at).state = "none" <=> row.state = "none"
           /\ AliasSettled(row, at).gen >= row.gen
  BY TimeAssumption DEF AliasSettled

(* A completed row keeps its count and its number.                         *)
LEMMA SucceededRow ==
    ASSUME NEW row \in JobRow, NEW at \in Time
    PROVE  /\ Succeeded(row, at) \in JobRow
           /\ Succeeded(row, at).state = "succeeded"
           /\ Succeeded(row, at).gen = row.gen
  BY DEF Succeeded

(* Recovery returns a running row to the queue under a new number.         *)
LEMMA RecoveredRow ==
    ASSUME NEW row \in JobRow, NEW at \in Time
    PROVE  /\ Recovered(row, at) \in JobRow
           /\ Recovered(row, at).state # "running"
           /\ row.state # "running" => Recovered(row, at) = row
           /\ row.state = "running" => /\ Recovered(row, at).state = "pending"
                                       /\ Recovered(row, at).gen = row.gen + 1
           /\ Recovered(row, at).attempts = row.attempts
  BY TimeAssumption DEF Recovered

-----------------------------------------------------------------------------
(* What the table operators return.                                        *)

HIDE DEF JobRow, States, ActiveStates

(* upsert_hash never forgets a hash and records every hash it is given.    *)
LEMMA ObservedTable ==
    ASSUME TypeOK, NEW H \in SUBSET Hashes, NEW at \in Time
    PROVE  /\ Observed(H, at) \in [Hashes -> Time \cup {Never}]
           /\ \A h \in Hashes : firstSeen[h] # Never => Observed(H, at)[h] # Never
           /\ \A h \in H : Observed(H, at)[h] # Never
  BY TimeAssumption DEF TypeOK, Observed

(* The hint operators stay within the table's type.                        *)
LEMMA HintTable ==
    ASSUME TypeOK
    PROVE  /\ CleanupExpired \in [Hashes -> [Peers -> Time \cup {Never}]]
           /\ \A H \in SUBSET Hashes : NoHints(H) \in [Hashes -> [Peers -> Time \cup {Never}]]
           /\ \A h \in Hashes, p \in Peers, at \in Time :
                 KeepMostRecent(Announced(hint[h], p, at)) \in [Peers -> Time \cup {Never}]
<1>1. \A h \in Hashes : hint[h] \in [Peers -> Time \cup {Never}]
  BY DEF TypeOK
<1>2. CleanupExpired \in [Hashes -> [Peers -> Time \cup {Never}]]
  BY <1>1 DEF CleanupExpired
<1>3. ASSUME NEW H \in SUBSET Hashes
      PROVE  NoHints(H) \in [Hashes -> [Peers -> Time \cup {Never}]]
  BY <1>1 DEF NoHints
<1>4. ASSUME NEW h \in Hashes, NEW p \in Peers, NEW at \in Time
      PROVE  KeepMostRecent(Announced(hint[h], p, at)) \in [Peers -> Time \cup {Never}]
  <2> DEFINE hs == Announced(hint[h], p, at)
  <2>1. hs \in [Peers -> Time \cup {Never}]
    BY <1>1 DEF Announced
  <2> DEFINE kept(q) == Cardinality({r \in Peers : hs[r] # Never /\ Precedes(hs, r, q)}) < MaxHints
  <2>2. KeepMostRecent(hs) = [q \in Peers |-> IF kept(q) THEN hs[q] ELSE Never]
    BY DEF KeepMostRecent
  <2> HIDE DEF hs, kept
  <2>3. [q \in Peers |-> IF kept(q) THEN hs[q] ELSE Never] \in [Peers -> Time \cup {Never}]
    BY <2>1
  <2> QED
    BY <2>2, <2>3 DEF hs
<1> QED
  BY <1>2, <1>3, <1>4

(* Admitting rows without metadata that do not run keeps every conjunct    *)
(* about the job table.                                                    *)
LEMMA AdmitKeeps ==
    ASSUME IndInv, NEW A \in SUBSET Hashes, NEW at \in Time,
           \A h \in A : ~HasMetadata(h) /\ job[h].state \in {"none", "dormant"},
           job' = Admit(A, at),
           \A h \in Hashes : firstSeen[h] # Never => firstSeen'[h] # Never,
           \A h \in A : firstSeen'[h] # Never,
           swarm' = swarm, uncatalogued' = uncatalogued, leases' = leases
    PROVE  /\ job' \in [Hashes -> JobRow]
           /\ SucceededIffMetadata'
           /\ DormantIffExhausted'
           /\ RunningIsOwned'
           /\ MetadataMatchesKey'
           /\ LeasesNumberedByRow'
<1>1. job \in [Hashes -> JobRow] /\ leases \subseteq Lease
  BY DEF IndInv, TypeOK
<1>2. \A h \in Hashes : job'[h] = IF h \in A THEN Enqueued(job[h], at) ELSE job[h]
  BY DEF Admit
<1>3. job' \in [Hashes -> JobRow]
  <2>1. \A h \in Hashes : (IF h \in A THEN Enqueued(job[h], at) ELSE job[h]) \in JobRow
    BY <1>1, EnqueuedRow
  <2> QED
    BY <2>1 DEF Admit
<1>4. \A h \in A : /\ job'[h].state = "pending" /\ job'[h].attempts = 0
                   /\ job'[h].gen = job[h].gen
  BY <1>1, <1>2, EnqueuedRow
<1>5. \A h \in Hashes \ A : job'[h] = job[h]
  BY <1>2
<1>6. \A h \in Hashes : HasMetadata(h)' <=> HasMetadata(h)
  BY DEF HasMetadata
<1>7. SucceededIffMetadata'
  BY <1>4, <1>5, <1>6 DEF SucceededIffMetadata, IndInv
<1>8. DormantIffExhausted'
  BY <1>4, <1>5, LimitAssumption DEF DormantIffExhausted, IndInv, ActiveStates
<1>9. RunningIsOwned'
  BY <1>4, <1>5 DEF RunningIsOwned, IndInv
<1>10. LeasesNumberedByRow'
  BY <1>1, <1>4, <1>5 DEF LeasesNumberedByRow, IndInv, Lease
<1>11. MetadataMatchesKey'
  BY DEF MetadataMatchesKey, IndInv
<1> QED
  BY <1>3, <1>7, <1>8, <1>9, <1>10, <1>11

(* Filing an info under its keys settles the rows of all of them but the   *)
(* one it was fetched with.                                                *)
LEMMA SavedRows ==
    ASSUME IndInv, NEW key \in Hashes, NEW info \in Infos, key \in Keys[info],
           NEW at \in Time
    PROVE  /\ SavedKeys(info, key) \in SUBSET Hashes
           /\ key \in SavedKeys(info, key)
           /\ Saved(key, info, at) \in [Hashes -> JobRow]
           /\ Saved(key, info, at)[key] = job[key]
           /\ \A h \in Hashes \ SavedKeys(info, key) : Saved(key, info, at)[h] = job[h]
           /\ \A h \in SavedKeys(info, key) \ {key} :
                /\ Saved(key, info, at)[h].state \in {"none", "succeeded"}
                /\ Saved(key, info, at)[h].state = "none" <=> job[h].state = "none"
                /\ Saved(key, info, at)[h].gen >= job[h].gen
<1>1. job \in [Hashes -> JobRow]
  BY DEF IndInv, TypeOK
<1>2. SavedKeys(info, key) \in SUBSET Hashes /\ key \in SavedKeys(info, key)
  BY InfoAssumption DEF SavedKeys
<1>3. \A h \in Hashes : /\ AliasSettled(job[h], at) \in JobRow
                        /\ AliasSettled(job[h], at).state \in {"none", "succeeded"}
                        /\ AliasSettled(job[h], at).state = "none" <=> job[h].state = "none"
                        /\ AliasSettled(job[h], at).gen >= job[h].gen
  BY <1>1, AliasRow
<1> QED
  BY <1>1, <1>2, <1>3 DEF Saved

-----------------------------------------------------------------------------
(* The inductive invariant.                                                *)

(* A fresh or upgraded database, opened before anything ran, satisfies the *)
(* inductive invariant.                                                    *)
THEOREM InitIndInv == Init => IndInv
<1> SUFFICES ASSUME Init PROVE IndInv
  OBVIOUS
<1>1. \A h \in Hashes : job[h] = NoJob
  BY DEF Init
<1>2. NoJob \in JobRow /\ NoJob.state = "none" /\ NoJob.attempts = 0
  BY LimitAssumption, TimeAssumption DEF NoJob, JobRow, States
<1>3. TypeOK
  <2>1. swarm \subseteq Hashes \X Infos
    BY InfoAssumption DEF Init
  <2>2. NoCursor \in Cursor
    BY DEF NoCursor, Cursor
  <2>3. 0 \in Time
    BY TimeAssumption
  <2> QED
    BY <1>2, <2>1, <2>2, <2>3 DEF Init, TypeOK
<1>4. SucceededIffMetadata /\ DormantIffExhausted /\ RunningIsOwned
  BY <1>1, <1>2 DEF SucceededIffMetadata, DormantIffExhausted, RunningIsOwned, ActiveStates
<1>5. LeasesNumberedByRow /\ MetadataMatchesKey
  BY InfoAssumption DEF Init, LeasesNumberedByRow, MetadataMatchesKey
<1> QED
  BY <1>3, <1>4, <1>5 DEF IndInv

(* SaveHashes, DiscoverPeer and the two backfill pages admit only rows     *)
(* that have no metadata and are absent or asleep.                         *)
LEMMA AdmissionStep ==
    ASSUME IndInv,
           \/ \E batch \in SUBSET Hashes \ {{}}, at \in 0..now : SaveHashes(batch, at)
           \/ \E h \in Hashes, p \in Peers, at \in 0..now : DiscoverPeer(h, p, at)
           \/ BackfillPage
           \/ BackfillRecentPage
    PROVE  IndInv'
<1>1. TypeOK /\ now \in Time /\ 0..now \subseteq Time
  BY TimeAssumption DEF IndInv, TypeOK
<1>2. CASE \E batch \in SUBSET Hashes \ {{}}, at \in 0..now : SaveHashes(batch, at)
  <2>1. PICK batch \in SUBSET Hashes \ {{}}, observedAt \in 0..now : SaveHashes(batch, observedAt)
    BY <1>2
  <2> DEFINE at == IF Freshness THEN now ELSE observedAt
  <2>2. PICK A \in SUBSET {h \in batch : Eligible(h, at)} : job' = Admit(A, at)
    BY <2>1 DEF SaveHashes
  <2>3. at \in Time /\ observedAt \in Time
    BY <1>1
  <2> HIDE DEF at
  <2>4. \A h \in A : ~HasMetadata(h) /\ job[h].state \in {"none", "dormant"}
    BY <2>2 DEF Eligible, RipeDormant
  <2>5. firstSeen' = Observed(batch, observedAt)
    BY <2>1 DEF SaveHashes
  <2>6. /\ hint' = hint /\ swarm' = swarm /\ uncatalogued' = uncatalogued
        /\ now' = now /\ cursor' = cursor /\ recentCursor' = recentCursor
        /\ leases' = leases
    BY <2>1 DEF SaveHashes, cursors
  <2>7. /\ firstSeen' \in [Hashes -> Time \cup {Never}]
        /\ \A h \in Hashes : firstSeen[h] # Never => firstSeen'[h] # Never
        /\ \A h \in A : firstSeen'[h] # Never
    BY <1>1, <2>2, <2>3, <2>5, ObservedTable
  <2>8. A \in SUBSET Hashes
    BY <2>2
  <2>9. job' \in [Hashes -> JobRow] /\ SucceededIffMetadata' /\ DormantIffExhausted'
        /\ RunningIsOwned' /\ MetadataMatchesKey' /\ LeasesNumberedByRow'
    BY <2>2, <2>3, <2>4, <2>6, <2>7, <2>8, AdmitKeeps
  <2>10. TypeOK'
    BY <1>1, <2>6, <2>7, <2>9 DEF TypeOK
  <2> QED
    BY <2>9, <2>10 DEF IndInv
<1>3. CASE \E h \in Hashes, p \in Peers, at \in 0..now : DiscoverPeer(h, p, at)
  <2>1. PICK h \in Hashes, p \in Peers, at \in 0..now : DiscoverPeer(h, p, at)
    BY <1>3
  <2> DEFINE A == IF available > 0 /\ Eligible(h, at) THEN {h} ELSE {}
  <2>2. at \in Time
    BY <1>1
  <2>3. A \in SUBSET Hashes /\ A \subseteq {h}
    OBVIOUS
  <2>4. job' = Admit(A, at)
    BY <1>1, <2>1 DEF DiscoverPeer, Admit, TypeOK
  <2>5. \A g \in A : ~HasMetadata(g) /\ job[g].state \in {"none", "dormant"}
    BY DEF Eligible, RipeDormant
  <2>6. /\ firstSeen' = Observed({h}, at)
        /\ hint' = [hint EXCEPT ![h] = KeepMostRecent(Announced(hint[h], p, at))]
        /\ swarm' = swarm /\ uncatalogued' = uncatalogued
        /\ now' = now /\ cursor' = cursor /\ recentCursor' = recentCursor
        /\ leases' = leases
    BY <2>1 DEF DiscoverPeer, cursors
  <2>7. /\ firstSeen' \in [Hashes -> Time \cup {Never}]
        /\ \A g \in Hashes : firstSeen[g] # Never => firstSeen'[g] # Never
        /\ \A g \in A : firstSeen'[g] # Never
    BY <1>1, <2>2, <2>3, <2>6, ObservedTable
  <2> HIDE DEF A
  <2>8. job' \in [Hashes -> JobRow] /\ SucceededIffMetadata' /\ DormantIffExhausted'
        /\ RunningIsOwned' /\ MetadataMatchesKey' /\ LeasesNumberedByRow'
    BY <2>2, <2>3, <2>4, <2>5, <2>6, <2>7, AdmitKeeps
  <2>9. hint' \in [Hashes -> [Peers -> Time \cup {Never}]]
    <3>1. KeepMostRecent(Announced(hint[h], p, at)) \in [Peers -> Time \cup {Never}]
      BY <1>1, <2>2, HintTable
    <3>2. hint \in [Hashes -> [Peers -> Time \cup {Never}]]
      BY <1>1 DEF TypeOK
    <3> QED
      BY <2>6, <3>1, <3>2
  <2>10. TypeOK'
    BY <1>1, <2>6, <2>7, <2>8, <2>9 DEF TypeOK
  <2> QED
    BY <2>8, <2>10 DEF IndInv
<1>4. CASE BackfillPage
  <2> DEFINE A == IF HistoryQuota > 0 THEN HistoryAble \cap HistoryScanned ELSE {}
  <2>1. A \in SUBSET Hashes
    BY DEF HistoryAble, HistoryPage, PageOf
  <2>2. job' = Admit(A, now)
    BY <1>1, <1>4 DEF BackfillPage, Admit, TypeOK
  <2>3. \A h \in A : ~HasMetadata(h) /\ job[h].state \in {"none", "dormant"} /\ firstSeen[h] # Never
    BY DEF HistoryAble, HistoryPage, PageOf
  <2> HIDE DEF A
  <2>4. /\ firstSeen' = firstSeen /\ hint' = CleanupExpired
        /\ swarm' = swarm /\ uncatalogued' = uncatalogued
        /\ now' = now /\ recentCursor' = recentCursor /\ leases' = leases
        /\ cursor' \in Hashes \cup {0}
    BY <1>1, <1>4 DEF BackfillPage, TypeOK
  <2>5. job' \in [Hashes -> JobRow] /\ SucceededIffMetadata' /\ DormantIffExhausted'
        /\ RunningIsOwned' /\ MetadataMatchesKey' /\ LeasesNumberedByRow'
    BY <1>1, <2>1, <2>2, <2>3, <2>4, AdmitKeeps
  <2>6. TypeOK'
    BY <1>1, <2>4, <2>5, HintTable DEF TypeOK
  <2> QED
    BY <2>5, <2>6 DEF IndInv
<1>5. CASE BackfillRecentPage
  <2> DEFINE A == RecentAble \cap RecentScanned
  <2>1. A \in SUBSET Hashes
    BY DEF RecentAble, RecentPage, PageOf
  <2>2. job' = Admit(A, now)
    BY <1>5 DEF BackfillRecentPage
  <2>3. \A h \in A : ~HasMetadata(h) /\ job[h].state \in {"none", "dormant"} /\ firstSeen[h] # Never
    BY DEF RecentAble, RecentPage, PageOf
  <2> HIDE DEF A
  <2>4. /\ firstSeen' = firstSeen /\ hint' = hint
        /\ swarm' = swarm /\ uncatalogued' = uncatalogued
        /\ now' = now /\ cursor' = cursor /\ leases' = leases
        /\ recentCursor' \in Cursor
    BY <1>5 DEF BackfillRecentPage
  <2>5. job' \in [Hashes -> JobRow] /\ SucceededIffMetadata' /\ DormantIffExhausted'
        /\ RunningIsOwned' /\ MetadataMatchesKey' /\ LeasesNumberedByRow'
    BY <1>1, <2>1, <2>2, <2>3, <2>4, AdmitKeeps
  <2>6. TypeOK'
    BY <1>1, <2>4, <2>5 DEF TypeOK
  <2> QED
    BY <2>5, <2>6 DEF IndInv
<1> QED
  BY <1>2, <1>3, <1>4, <1>5

(* A claim hands out a number above every earlier one of its row.          *)
LEMMA ClaimStep ==
    ASSUME IndInv, NEW preferred \in ClaimClass, Claim(preferred)
    PROVE  IndInv'
<1>1. PICK class \in ClaimClass : \E h \in DueIn(class) :
        /\ job' = [job EXCEPT ![h] = Claimed(@)]
        /\ leases' = leases \cup {[hash |-> h, gen |-> Claimed(job[h]).gen]}
        /\ UNCHANGED <<firstSeen, hint, swarm, uncatalogued, now, cursors>>
  BY DEF Claim
<1>2. PICK h \in DueIn(class) :
        /\ job' = [job EXCEPT ![h] = Claimed(job[h])]
        /\ leases' = leases \cup {[hash |-> h, gen |-> Claimed(job[h]).gen]}
        /\ UNCHANGED <<firstSeen, hint, swarm, uncatalogued, now, cursors>>
  BY <1>1
<1>3. h \in Hashes /\ job[h].state \in {"pending", "retry_wait"}
  BY DEF DueIn, Due
<1>4. TypeOK /\ job \in [Hashes -> JobRow] /\ now \in Time /\ leases \subseteq Lease
  BY DEF IndInv, TypeOK
<1>5. /\ Claimed(job[h]) \in JobRow /\ Claimed(job[h]).state = "running"
      /\ Claimed(job[h]).attempts = job[h].attempts
      /\ Claimed(job[h]).gen = job[h].gen + 1
      /\ job[h].gen \in Nat
  BY <1>3, <1>4, ClaimedRow DEF JobRow
<1>6. job'[h] = Claimed(job[h]) /\ \A g \in Hashes \ {h} : job'[g] = job[g]
  BY <1>2, <1>3, <1>4
<1>7. /\ firstSeen' = firstSeen /\ hint' = hint /\ swarm' = swarm
      /\ uncatalogued' = uncatalogued /\ now' = now /\ cursor' = cursor
      /\ recentCursor' = recentCursor
  BY <1>2 DEF cursors
<1>8. \A g \in Hashes : HasMetadata(g)' <=> HasMetadata(g)
  BY <1>7 DEF HasMetadata
<1>9. TypeOK'
  <2>1. job' \in [Hashes -> JobRow]
    BY <1>2, <1>3, <1>4, <1>5
  <2>2. leases' \subseteq Lease
    BY <1>2, <1>3, <1>4, <1>5 DEF Lease
  <2> QED
    BY <1>4, <1>7, <2>1, <2>2 DEF TypeOK
<1>10. SucceededIffMetadata'
  BY <1>3, <1>5, <1>6, <1>8 DEF SucceededIffMetadata, IndInv
<1>11. DormantIffExhausted'
  <2>1. job[h].attempts < MaxAttempts
    BY <1>3 DEF DormantIffExhausted, IndInv, ActiveStates
  <2> QED
    BY <1>5, <1>6, <2>1 DEF DormantIffExhausted, IndInv, ActiveStates
<1>12. RunningIsOwned'
  <2>1. [hash |-> h, gen |-> job'[h].gen] \in leases' /\ leases \subseteq leases'
    BY <1>2, <1>6
  <2>2. firstSeen'[h] # Never
    BY <1>3, <1>7 DEF RunningIsOwned, IndInv
  <2>3. \A g \in Hashes \ {h} :
          /\ job'[g].state # "none" => firstSeen'[g] # Never
          /\ job'[g].state = "running" => [hash |-> g, gen |-> job'[g].gen] \in leases'
    BY <1>6, <1>7, <2>1 DEF RunningIsOwned, IndInv
  <2> QED
    BY <2>1, <2>2, <2>3 DEF RunningIsOwned
<1>13. LeasesNumberedByRow'
  <2>1. ASSUME NEW l \in leases' PROVE l.gen <= job'[l.hash].gen
    <3>1. CASE l = [hash |-> h, gen |-> Claimed(job[h]).gen]
      BY <1>5, <1>6, <3>1
    <3>2. CASE l \in leases
      <4>1. l.hash \in Hashes /\ l.gen \in Nat /\ l.gen <= job[l.hash].gen
        BY <1>4, <3>2 DEF IndInv, LeasesNumberedByRow, Lease
      <4> QED
        BY <1>5, <1>6, <4>1
    <3> QED
      BY <1>2, <3>1, <3>2
  <2> QED
    BY <1>7, <2>1 DEF LeasesNumberedByRow, IndInv
<1>14. MetadataMatchesKey'
  BY <1>7 DEF MetadataMatchesKey, IndInv
<1> QED
  BY <1>9, <1>10, <1>11, <1>12, <1>13, <1>14 DEF IndInv

(* Only a current lease reschedules its row, and only a running row has a  *)
(* current lease.                                                          *)
LEMMA RetryStep ==
    ASSUME IndInv, NEW l \in leases, NEW failed \in BOOLEAN, RetryJob(l, failed)
    PROVE  IndInv'
<1> DEFINE h == l.hash
<1>1. PICK delay \in RetryDelays(AttemptsAfter(job[h], failed), failed) :
        job' = [job EXCEPT ![h] = Retried(job[h], failed, delay)]
  BY DEF RetryJob
<1>2. TypeOK /\ job \in [Hashes -> JobRow] /\ now \in Time /\ leases \subseteq Lease
  BY DEF IndInv, TypeOK
<1>3. h \in Hashes /\ job[h].state = "running"
  BY <1>2 DEF RetryJob, Current, Lease
<1> HIDE DEF h
<1>4. job[h].attempts < MaxAttempts
  BY <1>3 DEF IndInv, DormantIffExhausted, ActiveStates
<1> DEFINE row == Retried(job[h], failed, delay)
<1>5. /\ row \in JobRow /\ row.state \in {"retry_wait", "dormant"} /\ row.gen = job[h].gen
      /\ row.state = "dormant" => row.attempts = MaxAttempts
      /\ row.state = "retry_wait" => row.attempts < MaxAttempts
  BY <1>2, <1>3, <1>4, RetriedRow
<1>6. job'[h] = row /\ \A g \in Hashes \ {h} : job'[g] = job[g]
  BY <1>1, <1>2, <1>3
<1> HIDE DEF row
<1>7. /\ firstSeen' = firstSeen /\ hint' = hint /\ swarm' = swarm
      /\ uncatalogued' = uncatalogued /\ now' = now /\ cursor' = cursor
      /\ recentCursor' = recentCursor /\ leases' = leases
  BY DEF RetryJob, cursors
<1>8. \A g \in Hashes : HasMetadata(g)' <=> HasMetadata(g)
  BY <1>7 DEF HasMetadata
<1>9. TypeOK'
  <2>1. job' \in [Hashes -> JobRow]
    BY <1>1, <1>2, <1>3, <1>5 DEF row
  <2> QED
    BY <1>2, <1>7, <2>1 DEF TypeOK
<1>10. SucceededIffMetadata'
  BY <1>3, <1>5, <1>6, <1>8 DEF SucceededIffMetadata, IndInv
<1>11. DormantIffExhausted'
  BY <1>5, <1>6 DEF DormantIffExhausted, IndInv, ActiveStates
<1>12. RunningIsOwned'
  BY <1>3, <1>5, <1>6, <1>7 DEF RunningIsOwned, IndInv
<1>13. LeasesNumberedByRow'
  BY <1>2, <1>5, <1>6, <1>7 DEF LeasesNumberedByRow, IndInv, Lease
<1>14. MetadataMatchesKey'
  BY <1>7 DEF MetadataMatchesKey, IndInv
<1> QED
  BY <1>9, <1>10, <1>11, <1>12, <1>13, <1>14 DEF IndInv

(* Storing an info for its keys, with their rows settled, keeps the        *)
(* invariant: every key gains metadata and none keeps an unsettled row.    *)
LEMMA SaveKeeps ==
    ASSUME IndInv, NEW key \in Hashes, NEW info \in Infos, key \in Keys[info],
           NEW at \in Time, SaveTables(key, info, at),
           job' \in [Hashes -> JobRow],
           \A h \in Hashes \ SavedKeys(info, key) : job'[h] = job[h],
           \A h \in SavedKeys(info, key) :
              /\ job'[h].state \in {"none", "succeeded"}
              /\ job'[h].state = "none" <=> job[h].state = "none"
              /\ job'[h].gen >= job[h].gen,
           hint' \in [Hashes -> [Peers -> Time \cup {Never}]],
           now' = now, cursor' = cursor, recentCursor' = recentCursor, leases' = leases
    PROVE  IndInv'
<1> DEFINE K == SavedKeys(info, key)
<1>1. K \in SUBSET Hashes
  BY SavedRows
<1>2. /\ firstSeen' = Observed(K, at)
      /\ swarm' = swarm \cup (K \X {info})
      /\ uncatalogued' = uncatalogued \ (K \X {info})
  BY DEF SaveTables
<1>3. /\ \A h \in K : job'[h].state \in {"none", "succeeded"}
                      /\ (job'[h].state = "none" <=> job[h].state = "none")
                      /\ job'[h].gen >= job[h].gen
      /\ \A h \in Hashes \ K : job'[h] = job[h]
  OBVIOUS
<1> HIDE DEF K
<1>4. TypeOK /\ job \in [Hashes -> JobRow] /\ leases \subseteq Lease
  BY DEF IndInv, TypeOK
<1>5. /\ firstSeen' \in [Hashes -> Time \cup {Never}]
      /\ \A h \in Hashes : firstSeen[h] # Never => firstSeen'[h] # Never
  BY <1>1, <1>2, <1>4, ObservedTable
<1>6. \A h \in Hashes : HasMetadata(h)' <=> HasMetadata(h) \/ h \in K
  BY <1>2 DEF HasMetadata
<1>7. TypeOK'
  BY <1>1, <1>2, <1>4, <1>5 DEF TypeOK
<1>8. SucceededIffMetadata'
  BY <1>3, <1>6 DEF SucceededIffMetadata, IndInv
<1>9. DormantIffExhausted'
  BY <1>3 DEF DormantIffExhausted, IndInv, ActiveStates
<1>10. RunningIsOwned'
  BY <1>3, <1>5 DEF RunningIsOwned, IndInv
<1>11. LeasesNumberedByRow'
  <2>1. ASSUME NEW l \in leases PROVE l.gen <= job'[l.hash].gen
    <3>1. l.hash \in Hashes /\ l.gen \in Nat /\ l.gen <= job[l.hash].gen
      BY <1>4 DEF IndInv, LeasesNumberedByRow, Lease
    <3>2. job[l.hash].gen \in Nat /\ job'[l.hash].gen \in Nat
      BY <1>4, <3>1 DEF JobRow
    <3> QED
      BY <1>3, <3>1, <3>2
  <2>2. uncatalogued' \subseteq swarm'
    BY <1>2 DEF IndInv, LeasesNumberedByRow
  <2> QED
    BY <2>1, <2>2 DEF LeasesNumberedByRow
<1>12. MetadataMatchesKey'
  <2>1. K \subseteq Keys[info]
    BY DEF K, SavedKeys
  <2> QED
    BY <1>2, <2>1 DEF MetadataMatchesKey, IndInv
<1> QED
  BY <1>7, <1>8, <1>9, <1>10, <1>11, <1>12 DEF IndInv

(* complete_job stores verified metadata for the key of a current lease.   *)
LEMMA CompleteStep ==
    ASSUME IndInv, NEW l \in leases, NEW info \in Infos, CompleteJob(l, info)
    PROVE  IndInv'
<1> DEFINE h == l.hash
<1>1. TypeOK /\ job \in [Hashes -> JobRow] /\ now \in Time /\ leases \subseteq Lease
  BY DEF IndInv, TypeOK
<1>2. h \in Hashes /\ h \in Keys[info] /\ job[h].state = "running"
  BY <1>1 DEF CompleteJob, Current, Lease
<1>3. /\ SaveTables(h, info, now)
      /\ job' = [Saved(h, info, now) EXCEPT ![h] = Succeeded(job[h], now)]
      /\ hint' = NoHints(SavedKeys(info, h) \cup {h})
      /\ now' = now /\ cursor' = cursor /\ recentCursor' = recentCursor
      /\ leases' = leases
  BY DEF CompleteJob, cursors
<1> HIDE DEF h
<1>4. /\ SavedKeys(info, h) \in SUBSET Hashes
      /\ Saved(h, info, now) \in [Hashes -> JobRow]
      /\ \A g \in Hashes \ SavedKeys(info, h) : Saved(h, info, now)[g] = job[g]
      /\ \A g \in SavedKeys(info, h) \ {h} :
           /\ Saved(h, info, now)[g].state \in {"none", "succeeded"}
           /\ Saved(h, info, now)[g].state = "none" <=> job[g].state = "none"
           /\ Saved(h, info, now)[g].gen >= job[g].gen
      /\ h \in SavedKeys(info, h)
  BY <1>1, <1>2, SavedRows
<1>5. /\ Succeeded(job[h], now) \in JobRow
      /\ Succeeded(job[h], now).state = "succeeded"
      /\ Succeeded(job[h], now).gen = job[h].gen
      /\ job[h].gen \in Nat
  BY <1>1, <1>2, SucceededRow DEF JobRow
<1>6. /\ job' \in [Hashes -> JobRow]
      /\ job'[h] = Succeeded(job[h], now)
      /\ \A g \in Hashes \ {h} : job'[g] = Saved(h, info, now)[g]
  BY <1>2, <1>3, <1>4, <1>5
<1>7. \A g \in SavedKeys(info, h) :
        /\ job'[g].state \in {"none", "succeeded"}
        /\ job'[g].state = "none" <=> job[g].state = "none"
        /\ job'[g].gen >= job[g].gen
  BY <1>2, <1>4, <1>5, <1>6
<1>8. \A g \in Hashes \ SavedKeys(info, h) : job'[g] = job[g]
  BY <1>4, <1>6
<1>9. hint' \in [Hashes -> [Peers -> Time \cup {Never}]]
  BY <1>1, <1>2, <1>3, <1>4, HintTable
<1> QED
  BY <1>1, <1>2, <1>3, <1>6, <1>7, <1>8, <1>9, SaveKeeps

(* The catalogue backfill re-saves an inherited row and settles its alias. *)
LEMMA CatalogStep ==
    ASSUME IndInv, NEW r \in uncatalogued, CatalogBackfill(r[1], r[2])
    PROVE  IndInv'
<1>1. TypeOK /\ job \in [Hashes -> JobRow]
  BY DEF IndInv, TypeOK
<1>2. PICK key \in Hashes, info \in Infos : r = <<key, info>>
  BY <1>1 DEF TypeOK
<1>3. /\ SaveTables(key, info, 0)
      /\ job' = Saved(key, info, 0)
      /\ hint' = NoHints(SavedKeys(info, key) \ {key})
      /\ now' = now /\ cursor' = cursor /\ recentCursor' = recentCursor
      /\ leases' = leases
      /\ <<key, info>> \in uncatalogued
  BY <1>2 DEF CatalogBackfill, cursors
<1>4. 0 \in Time
  BY TimeAssumption
<1>5. HasMetadata(key)
  BY <1>3 DEF HasMetadata, IndInv, LeasesNumberedByRow
<1>6. job[key].state \in {"none", "succeeded"} /\ job[key].gen \in Nat
  BY <1>1, <1>5 DEF IndInv, SucceededIffMetadata, JobRow
<1>7. key \in Keys[info]
  BY <1>3 DEF IndInv, MetadataMatchesKey, LeasesNumberedByRow
<1>8. /\ SavedKeys(info, key) \in SUBSET Hashes
      /\ Saved(key, info, 0) \in [Hashes -> JobRow]
      /\ Saved(key, info, 0)[key] = job[key]
      /\ \A g \in Hashes \ SavedKeys(info, key) : Saved(key, info, 0)[g] = job[g]
      /\ \A g \in SavedKeys(info, key) \ {key} :
           /\ Saved(key, info, 0)[g].state \in {"none", "succeeded"}
           /\ Saved(key, info, 0)[g].state = "none" <=> job[g].state = "none"
           /\ Saved(key, info, 0)[g].gen >= job[g].gen
  BY <1>4, <1>7, SavedRows
<1>9. \A g \in SavedKeys(info, key) :
        /\ job'[g].state \in {"none", "succeeded"}
        /\ job'[g].state = "none" <=> job[g].state = "none"
        /\ job'[g].gen >= job[g].gen
  BY <1>3, <1>6, <1>8
<1>10. hint' \in [Hashes -> [Peers -> Time \cup {Never}]]
  BY <1>1, <1>3, <1>8, HintTable
<1> QED
  BY <1>3, <1>4, <1>7, <1>8, <1>9, <1>10, SaveKeeps

(* recover_jobs requeues the running rows and settles those with metadata. *)
LEMMA RestartStep ==
    ASSUME IndInv, NEW at \in Time, Restart(at)
    PROVE  IndInv'
<1>1. TypeOK /\ job \in [Hashes -> JobRow] /\ leases \subseteq Lease
  BY DEF IndInv, TypeOK
<1>2. /\ now' = at /\ cursor' = 0 /\ recentCursor' = NoCursor
      /\ firstSeen' = firstSeen /\ hint' = hint /\ swarm' = swarm
      /\ uncatalogued' = uncatalogued /\ leases' = leases
  BY DEF Restart
<1>3. \A h \in Hashes :
        /\ Recovered(job[h], at) \in JobRow
        /\ Recovered(job[h], at).state # "running"
        /\ job[h].state # "running" => Recovered(job[h], at) = job[h]
        /\ job[h].state = "running" => /\ Recovered(job[h], at).state = "pending"
                                       /\ Recovered(job[h], at).gen = job[h].gen + 1
        /\ Recovered(job[h], at).attempts = job[h].attempts
        /\ job[h].gen \in Nat
  BY <1>1, RecoveredRow DEF JobRow
<1>4. ASSUME NEW h \in Hashes
      PROVE  /\ job'[h] \in JobRow
             /\ job'[h].state # "running"
             /\ job'[h].gen >= job[h].gen
             /\ job'[h].state = "none" <=> job[h].state = "none"
             /\ job'[h].state = "succeeded" <=> job[h].state = "succeeded"
             /\ job'[h].state = "dormant" => job[h].state = "dormant"
             /\ job'[h].state \in ActiveStates => job[h].state \in ActiveStates
             /\ job'[h].state # "succeeded" => job'[h].attempts = job[h].attempts
  <2> DEFINE row == Recovered(job[h], at)
  <2>1. job'[h] = IF HasMetadata(h) /\ row.state # "none"
                  THEN Succeeded(row, row.updated) ELSE row
    BY DEF Restart
  <2>2. /\ Succeeded(row, row.updated) \in JobRow
        /\ Succeeded(row, row.updated).state = "succeeded"
        /\ Succeeded(row, row.updated).gen = row.gen
    <3>1. row \in JobRow /\ row.updated \in Time
      BY <1>3 DEF JobRow
    <3> HIDE DEF row
    <3> QED
      BY <3>1, SucceededRow
  <2>3. job[h].state # "none" => (job[h].state = "succeeded" <=> HasMetadata(h))
    BY DEF IndInv, SucceededIffMetadata
  <2>4. CASE job[h].state = "running"
    <3>1. row.state = "pending" /\ row.gen = job[h].gen + 1 /\ ~HasMetadata(h)
      BY <1>3, <2>3, <2>4
    <3>2. job'[h] = row
      BY <2>1, <3>1
    <3> QED
      BY <1>3, <2>4, <3>1, <3>2 DEF ActiveStates
  <2>5. CASE job[h].state # "running"
    <3>1. row = job[h]
      BY <1>3, <2>5
    <3>2. CASE HasMetadata(h) /\ row.state # "none"
      BY <1>3, <2>1, <2>2, <2>3, <3>1, <3>2 DEF ActiveStates
    <3>3. CASE ~(HasMetadata(h) /\ row.state # "none")
      <4>1. job'[h] = job[h]
        BY <2>1, <3>1, <3>3
      <4> QED
        BY <1>3, <2>5, <3>1, <4>1
    <3> QED
      BY <3>2, <3>3
  <2> QED
    BY <2>4, <2>5
<1>5. \A h \in Hashes : HasMetadata(h)' <=> HasMetadata(h)
  BY <1>2 DEF HasMetadata
<1>6. TypeOK'
  <2>1. job' \in [Hashes -> JobRow]
    <3>1. job' = [h \in Hashes |-> job'[h]]
      BY DEF Restart
    <3> QED
      BY <1>4, <3>1
  <2>2. NoCursor \in Cursor
    BY DEF NoCursor, Cursor
  <2> QED
    BY <1>1, <1>2, <2>1, <2>2 DEF TypeOK
<1>7. SucceededIffMetadata'
  BY <1>4, <1>5 DEF SucceededIffMetadata, IndInv
<1>8. DormantIffExhausted'
  BY <1>4 DEF DormantIffExhausted, IndInv, ActiveStates
<1>9. RunningIsOwned'
  BY <1>2, <1>4 DEF RunningIsOwned, IndInv
<1>10. LeasesNumberedByRow'
  <2>1. ASSUME NEW l \in leases PROVE l.gen <= job'[l.hash].gen
    <3>1. l.hash \in Hashes /\ l.gen \in Nat /\ l.gen <= job[l.hash].gen
      BY <1>1 DEF IndInv, LeasesNumberedByRow, Lease
    <3>2. job[l.hash].gen \in Nat /\ job'[l.hash].gen \in Nat
      BY <1>1, <1>4, <3>1 DEF JobRow
    <3> QED
      BY <1>4, <3>1, <3>2
  <2> QED
    BY <1>2, <2>1 DEF LeasesNumberedByRow, IndInv
<1>11. MetadataMatchesKey'
  BY <1>2 DEF MetadataMatchesKey, IndInv
<1> QED
  BY <1>6, <1>7, <1>8, <1>9, <1>10, <1>11 DEF IndInv

(* The clock and a stuttering step touch no table.                         *)
LEMMA IdleStep ==
    ASSUME IndInv, Tick \/ UNCHANGED vars
    PROVE  IndInv'
<1>1. /\ firstSeen' = firstSeen /\ job' = job /\ hint' = hint /\ swarm' = swarm
      /\ uncatalogued' = uncatalogued /\ cursor' = cursor
      /\ recentCursor' = recentCursor /\ leases' = leases
  BY DEF Tick, vars, tables, cursors
<1>2. now' \in Time
  BY TimeAssumption DEF Tick, vars, IndInv, TypeOK
<1>3. \A h \in Hashes : HasMetadata(h)' <=> HasMetadata(h)
  BY <1>1 DEF HasMetadata
<1> QED
  BY <1>1, <1>2, <1>3 DEF IndInv, TypeOK, SucceededIffMetadata, DormantIffExhausted,
     RunningIsOwned, LeasesNumberedByRow, MetadataMatchesKey

(* Every transaction of the store, and the clock, keeps the inductive      *)
(* invariant.                                                              *)
THEOREM NextIndInv == IndInv /\ [Next]_vars => IndInv'
<1> SUFFICES ASSUME IndInv, [Next]_vars PROVE IndInv'
  OBVIOUS
<1>1. CASE \E class \in ClaimClass : Claim(class)
  BY <1>1, ClaimStep
<1>2. CASE \E l \in leases, failed \in BOOLEAN : RetryJob(l, failed)
  BY <1>2, RetryStep
<1>3. CASE \E l \in leases, i \in Infos : CompleteJob(l, i)
  BY <1>3, CompleteStep
<1>4. CASE \E r \in uncatalogued : CatalogBackfill(r[1], r[2])
  BY <1>4, CatalogStep
<1>5. CASE \E at \in Time : Restart(at)
  BY <1>5, RestartStep
<1>6. CASE Tick \/ UNCHANGED vars
  BY <1>6, IdleStep
<1> QED
  BY <1>1, <1>2, <1>3, <1>4, <1>5, <1>6, AdmissionStep DEF Next

(* The inductive invariant holds throughout.                               *)
THEOREM Invariance == Spec => []IndInv
  BY InitIndInv, NextIndInv, PTL DEF Spec

(* Every table keeps its type: no path drives a failure count past its     *)
(* limit or leaves a cursor that is not a row.                             *)
THEOREM TypeCorrect == Spec => []TypeOK
<1>1. IndInv => TypeOK
  BY DEF IndInv
<1> QED
  BY <1>1, Invariance, PTL

(* A job is done exactly when its metadata is stored.                      *)
THEOREM SucceededMatchesMetadata == Spec => []SucceededIffMetadata
<1>1. IndInv => SucceededIffMetadata
  BY DEF IndInv
<1> QED
  BY <1>1, Invariance, PTL

(* A job sleeps exactly when its failures are spent.                       *)
THEOREM DormancyMatchesAttempts == Spec => []DormantIffExhausted
<1>1. IndInv => DormantIffExhausted
  BY DEF IndInv
<1> QED
  BY <1>1, Invariance, PTL

(* The three together, as the run of the lease checks them.                *)
THEOREM RowsStayConsistent == Spec => []RowsAreConsistent
<1>1. IndInv => RowsAreConsistent
  BY DEF IndInv, RowsAreConsistent
<1> QED
  BY <1>1, Invariance, PTL

-----------------------------------------------------------------------------
(* What a step may never do to a row.                                      *)

(* A row that runs after a step ran before it under the same number, or    *)
(* got a new number; a succeeded row stays succeeded.                      *)
LEMMA RowStep ==
    ASSUME IndInv, [Next]_vars, NEW h \in Hashes
    PROVE  /\ job'[h].state = "running"
                => job'[h] = job[h] \/ job'[h].gen > job[h].gen
           /\ job[h].state = "succeeded" => job'[h].state = "succeeded"
<1>1. /\ TypeOK /\ job \in [Hashes -> JobRow] /\ now \in Time /\ leases \subseteq Lease
      /\ job[h].gen \in Nat
  BY DEF IndInv, TypeOK, JobRow
<1>2. ASSUME NEW A, NEW at, job' = Admit(A, at),
             \A g \in A : job[g].state \in {"none", "dormant"}
      PROVE  /\ job'[h].state = "running" => job'[h] = job[h]
             /\ job[h].state = "succeeded" => job'[h].state = "succeeded"
  <2>1. CASE h \in A
    <3>1. job'[h].state = "pending" /\ job[h].state # "succeeded"
      BY <1>2, <2>1 DEF Admit, Enqueued
    <3> QED
      BY <3>1
  <2>2. CASE h \notin A
    BY <1>2, <2>2 DEF Admit
  <2> QED
    BY <2>1, <2>2
<1>3. CASE \E batch \in SUBSET Hashes \ {{}}, at \in 0..now : SaveHashes(batch, at)
  <2>1. PICK batch \in SUBSET Hashes \ {{}}, observedAt \in 0..now : SaveHashes(batch, observedAt)
    BY <1>3
  <2> DEFINE at == IF Freshness THEN now ELSE observedAt
  <2>2. PICK A \in SUBSET {g \in batch : Eligible(g, at)} : job' = Admit(A, at)
    BY <2>1 DEF SaveHashes
  <2>3. \A g \in A : job[g].state \in {"none", "dormant"}
    BY <2>2 DEF Eligible, RipeDormant
  <2> QED
    BY <1>2, <2>2, <2>3
<1>4. CASE \E g \in Hashes, p \in Peers, at \in 0..now : DiscoverPeer(g, p, at)
  <2>1. PICK g \in Hashes, p \in Peers, at \in 0..now : DiscoverPeer(g, p, at)
    BY <1>4
  <2>2. CASE available > 0 /\ Eligible(g, at)
    <3>1. job' = Admit({g}, at)
      BY <2>1, <2>2 DEF DiscoverPeer
    <3>2. \A k \in {g} : job[k].state \in {"none", "dormant"}
      BY <2>2 DEF Eligible, RipeDormant
    <3> QED
      BY <1>2, <3>1, <3>2
  <2>3. CASE ~(available > 0 /\ Eligible(g, at))
    <3>1. job' = job
      BY <2>1, <2>3 DEF DiscoverPeer
    <3> QED
      BY <3>1
  <2> QED
    BY <2>2, <2>3
<1>5. CASE BackfillPage
  <2>1. CASE HistoryQuota > 0
    <3>1. job' = Admit(HistoryAble \cap HistoryScanned, now)
      BY <1>5, <2>1 DEF BackfillPage
    <3>2. \A g \in HistoryAble \cap HistoryScanned : job[g].state \in {"none", "dormant"}
      BY DEF HistoryAble
    <3> QED
      BY <1>2, <3>1, <3>2
  <2>2. CASE ~(HistoryQuota > 0)
    BY <1>5, <2>2 DEF BackfillPage
  <2> QED
    BY <2>1, <2>2
<1>6. CASE BackfillRecentPage
  <2>1. job' = Admit(RecentAble \cap RecentScanned, now)
    BY <1>6 DEF BackfillRecentPage
  <2>2. \A g \in RecentAble \cap RecentScanned : job[g].state \in {"none", "dormant"}
    BY DEF RecentAble
  <2> QED
    BY <1>2, <2>1, <2>2
<1>7. CASE \E class \in ClaimClass : Claim(class)
  <2>1. PICK preferred \in ClaimClass : Claim(preferred)
    BY <1>7
  <2>2. PICK class \in ClaimClass : \E g \in DueIn(class) : job' = [job EXCEPT ![g] = Claimed(@)]
    BY <2>1 DEF Claim
  <2>3. PICK g \in DueIn(class) : job' = [job EXCEPT ![g] = Claimed(job[g])]
    BY <2>2
  <2>4. g \in Hashes /\ job[g].state # "succeeded"
    BY DEF DueIn, Due
  <2>5. Claimed(job[g]).gen = job[g].gen + 1 /\ job[g].gen \in Nat
    BY <1>1, <2>4, ClaimedRow DEF JobRow
  <2>6. job'[g] = Claimed(job[g]) /\ \A k \in Hashes \ {g} : job'[k] = job[k]
    BY <1>1, <2>3, <2>4
  <2> QED
    BY <2>4, <2>5, <2>6
<1>8. CASE \E l \in leases, failed \in BOOLEAN : RetryJob(l, failed)
  <2>1. PICK l \in leases, failed \in BOOLEAN : RetryJob(l, failed)
    BY <1>8
  <2>2. PICK delay \in RetryDelays(AttemptsAfter(job[l.hash], failed), failed) :
          job' = [job EXCEPT ![l.hash] = Retried(job[l.hash], failed, delay)]
    BY <2>1 DEF RetryJob
  <2>3. job[l.hash].state = "running" /\ l.hash \in Hashes
    BY <1>1, <2>1 DEF RetryJob, Current, Lease
  <2>4. Retried(job[l.hash], failed, delay).state # "running"
    BY DEF Retried
  <2>5. /\ job'[l.hash] = Retried(job[l.hash], failed, delay)
        /\ \A k \in Hashes \ {l.hash} : job'[k] = job[k]
    BY <1>1, <2>2, <2>3
  <2> QED
    BY <2>3, <2>4, <2>5
<1>9. CASE \E l \in leases, i \in Infos : CompleteJob(l, i)
  <2>1. PICK l \in leases, i \in Infos : CompleteJob(l, i)
    BY <1>9
  <2>2. l.hash \in Hashes /\ l.hash \in Keys[i] /\ job[l.hash].state = "running"
    BY <1>1, <2>1 DEF CompleteJob, Current, Lease
  <2>3. job' = [Saved(l.hash, i, now) EXCEPT ![l.hash] = Succeeded(job[l.hash], now)]
    BY <2>1 DEF CompleteJob
  <2>4. Saved(l.hash, i, now) \in [Hashes -> JobRow]
    BY <1>1, <2>2, SavedRows
  <2>5. CASE h = l.hash
    BY <2>2, <2>3, <2>4, <2>5 DEF Succeeded
  <2>6. CASE h # l.hash
    <3>1. job'[h] = Saved(l.hash, i, now)[h]
      BY <2>3, <2>4, <2>6
    <3>2. job'[h] = job[h] \/ job'[h] = AliasSettled(job[h], now)
      BY <3>1 DEF Saved
    <3> QED
      BY <3>2 DEF AliasSettled
  <2> QED
    BY <2>5, <2>6
<1>10. CASE \E r \in uncatalogued : CatalogBackfill(r[1], r[2])
  <2>1. PICK r \in uncatalogued : job' = Saved(r[1], r[2], 0)
    BY <1>10 DEF CatalogBackfill
  <2>2. job'[h] = job[h] \/ job'[h] = AliasSettled(job[h], 0)
    BY <2>1 DEF Saved
  <2> QED
    BY <2>2 DEF AliasSettled
<1>11. CASE \E at \in Time : Restart(at)
  <2>1. PICK at \in Time : Restart(at)
    BY <1>11
  <2> DEFINE row == Recovered(job[h], at)
  <2>2. job'[h] = IF HasMetadata(h) /\ row.state # "none"
                  THEN Succeeded(row, row.updated) ELSE row
    BY <2>1 DEF Restart
  <2>3. row.state # "running" /\ (job[h].state = "succeeded" => row = job[h])
    BY DEF Recovered
  <2> HIDE DEF row
  <2> QED
    BY <2>2, <2>3 DEF Succeeded
<1>12. CASE Tick \/ UNCHANGED vars
  BY <1>12 DEF Tick, vars, tables
<1> QED
  BY <1>3, <1>4, <1>5, <1>6, <1>7, <1>8, <1>9, <1>10, <1>11, <1>12 DEF Next

(* Fencing: whatever a retry, a restart, an alias or a later claim did to  *)
(* a row, the leases it outdated never write to it again.                  *)
THEOREM Fencing == Spec => LeaseNeverRevives
<1>1. IndInv /\ [Next]_vars => [\A l \in leases : Current(l)' => Current(l)]_vars
  <2> SUFFICES ASSUME IndInv, [Next]_vars, NEW l \in leases, Current(l)'
               PROVE  Current(l)
    OBVIOUS
  <2>1. l.hash \in Hashes /\ l.gen \in Nat /\ l.gen <= job[l.hash].gen
        /\ job[l.hash].gen \in Nat
    BY DEF IndInv, TypeOK, LeasesNumberedByRow, Lease, JobRow
  <2>2. job'[l.hash].state = "running" /\ job'[l.hash].gen = l.gen
    BY DEF Current
  <2>3. job'[l.hash] = job[l.hash]
    BY <2>1, <2>2, RowStep
  <2> QED
    BY <2>2, <2>3 DEF Current
<1> QED
  BY <1>1, Invariance, PTL DEF Spec, LeaseNeverRevives

(* Success is final.                                                       *)
THEOREM SuccessIsFinal == Spec => SucceededIsFinal
<1>1. IndInv /\ [Next]_vars =>
        [\A h \in Hashes : job[h].state = "succeeded" => job'[h].state = "succeeded"]_vars
  BY RowStep
<1> QED
  BY <1>1, Invariance, PTL DEF Spec, SucceededIsFinal

-----------------------------------------------------------------------------
(* The limit on active rows: a counting argument about scanned prefixes.   *)

(* A non-empty set of naturals has a least member.                         *)
LEMMA SmallestOf ==
    ASSUME NEW N \in SUBSET Nat, N # {}
    PROVE  \E n \in N : \A k \in N : n <= k
<1>1. PICK n \in N : \A k \in N : ~(<<k, n>> \in OpToRel(<, Nat))
  BY NatLessThanWellFounded, WFMin
<1>2. ASSUME NEW k \in N, k < n PROVE FALSE
  <2>1. <<k, n>> \in Nat \X Nat /\ <<k, n>>[1] < <<k, n>>[2]
    BY <1>2
  <2>2. <<k, n>> \in OpToRel(<, Nat)
    BY <2>1, Zenon DEF OpToRel
  <2> QED
    BY <1>1, <2>2
<1> QED
  BY <1>2

(* If every member of A has fewer than q members of E before it, then A    *)
(* has at most q members: look at the last one.                            *)
LEMMA PrefixBound ==
    ASSUME NEW E, IsFiniteSet(E), NEW R, NEW A \in SUBSET E, NEW q \in Nat,
           \A a, b \in E : a = b \/ <<a, b>> \in R \/ <<b, a>> \in R,
           \A a \in E : <<a, a>> \notin R,
           \A a, b, c \in E : <<a, b>> \in R /\ <<b, c>> \in R => <<a, c>> \in R,
           \A r \in A : Cardinality({e \in E : <<e, r>> \in R}) < q
    PROVE  Cardinality(A) <= q
<1>1. IsFiniteSet(A) /\ Cardinality(A) \in Nat
  BY FS_Subset, FS_CardinalityType
<1>2. CASE A = {}
  BY <1>2, FS_EmptySet
<1>3. CASE A # {}
  <2> DEFINE after(r) == {e \in A : <<r, e>> \in R}
             before(r) == {e \in E : <<e, r>> \in R}
  <2>1. \A r \in A : IsFiniteSet(after(r)) /\ Cardinality(after(r)) \in Nat
    <3>1. \A r \in A : after(r) \in SUBSET A
      OBVIOUS
    <3> HIDE DEF after
    <3> QED
      BY <1>1, <3>1, FS_Subset, FS_CardinalityType
  <2>2. PICK m \in A : \A r \in A : Cardinality(after(m)) <= Cardinality(after(r))
    <3> DEFINE N == {Cardinality(after(r)) : r \in A}
    <3> HIDE DEF after
    <3>1. N \in SUBSET Nat /\ N # {}
      BY <1>3, <2>1
    <3>2. PICK n \in N : \A k \in N : n <= k
      <4> HIDE DEF N
      <4> QED
        BY <3>1, SmallestOf
    <3> QED
      BY <3>2
  <2>3. \A e \in A : <<m, e>> \notin R
    <3> SUFFICES ASSUME NEW e \in A, <<m, e>> \in R PROVE FALSE
      OBVIOUS
    <3>1. after(e) \in SUBSET after(m) /\ e \in after(m) /\ e \notin after(e)
      OBVIOUS
    <3>2. Cardinality(after(e)) <= Cardinality(after(m)) /\ after(e) # after(m)
      <4> HIDE DEF after
      <4> QED
        BY <2>1, <3>1, FS_Subset
    <3>3. Cardinality(after(m)) = Cardinality(after(e)) => after(m) = after(e)
      <4> HIDE DEF after
      <4> QED
        BY <2>1, <3>1, FS_Subset
    <3>4. Cardinality(after(m)) <= Cardinality(after(e))
      BY <2>2
    <3> HIDE DEF after
    <3> QED
      BY <2>1, <3>2, <3>3, <3>4
  <2>4. A \ {m} \in SUBSET before(m)
    BY <2>3
  <2>5. before(m) \in SUBSET E
    OBVIOUS
  <2>6. Cardinality(before(m)) < q
    OBVIOUS
  <2> HIDE DEF before, after
  <2>7. IsFiniteSet(before(m)) /\ Cardinality(before(m)) \in Nat
    BY <2>5, FS_Subset, FS_CardinalityType
  <2>8. Cardinality(A \ {m}) <= Cardinality(before(m))
    BY <2>4, <2>7, FS_Subset
  <2>9. Cardinality(A \ {m}) = Cardinality(A) - 1
    BY <1>1, FS_RemoveElement
  <2> QED
    BY <1>1, <2>6, <2>7, <2>8, <2>9
<1> QED
  BY <1>2, <1>3

(* Min of two naturals is the lesser of them.                              *)
LEMMA MinOfTwo ==
    ASSUME NEW a \in Int, NEW b \in Int
    PROVE  Min({a, b}) \in {a, b} /\ Min({a, b}) <= a /\ Min({a, b}) <= b
<1>1. \E x \in {a, b} : \A y \in {a, b} : x =< y
  <2>1. CASE a <= b
    BY <2>1
  <2>2. CASE b <= a
    BY <2>2
  <2> QED
    BY <2>1, <2>2
<1>2. Min({a, b}) \in {a, b} /\ \A y \in {a, b} : Min({a, b}) =< y
  BY <1>1 DEF Min
<1> QED
  BY <1>2

(* The quotas of the two scans never exceed the free slots.                *)
LEMMA Quotas ==
    /\ Cardinality(Active) \in Nat /\ IsFiniteSet(Active)
    /\ available \in Nat
    /\ Cardinality(Active) <= MaxActive => Cardinality(Active) + available = MaxActive
    /\ HistoryQuota \in Nat /\ HistoryQuota <= available
    /\ RecentQuota(now) \in Nat /\ RecentQuota(now) <= available
<1>1. Cardinality(Active) \in Nat /\ IsFiniteSet(Active)
  <2>1. Active \in SUBSET Hashes
    BY DEF Active
  <2> QED
    BY <2>1, HashAssumption, FS_Subset, FS_CardinalityType
<1>2. /\ available \in Nat
      /\ Cardinality(Active) <= MaxActive => Cardinality(Active) + available = MaxActive
  BY <1>1, LimitAssumption DEF available, SatSub
<1>3. HistoryQuota \in Nat /\ HistoryQuota <= available
  <2>1. Reserve \in Nat
    <3>1. RecentLimit \in Nat /\ MaxActive - 1 \in Nat
      BY LimitAssumption
    <3>2. Min({RecentLimit, MaxActive - 1}) \in {RecentLimit, MaxActive - 1}
      BY <3>1, MinOfTwo
    <3> QED
      BY <3>1, <3>2 DEF Reserve
  <2> HIDE DEF Reserve
  <2> QED
    BY <1>2, <2>1 DEF HistoryQuota, SatSub
<1>4. RecentQuota(now) \in Nat /\ RecentQuota(now) <= available
  <2> DEFINE w == Cardinality(FirstAttemptWaiting(now))
  <2>1. w \in Nat
    <3>1. FirstAttemptWaiting(now) \in SUBSET Hashes
      BY DEF FirstAttemptWaiting
    <3> QED
      BY <3>1, HashAssumption, FS_Subset, FS_CardinalityType
  <2> HIDE DEF w
  <2>2. SatSub(RecentLimit, w) \in Nat
    BY <2>1, LimitAssumption DEF SatSub
  <2>3. RecentQuota(now) = Min({available, SatSub(RecentLimit, w)})
    BY DEF RecentQuota, w
  <2>4. /\ Min({available, SatSub(RecentLimit, w)}) \in {available, SatSub(RecentLimit, w)}
        /\ Min({available, SatSub(RecentLimit, w)}) <= available
    BY <1>2, <2>2, MinOfTwo
  <2> QED
    BY <1>2, <2>2, <2>3, <2>4
<1> QED
  BY <1>1, <1>2, <1>3, <1>4

(* What the scans admit fits in the free slots.                            *)
LEMMA HistoryFits ==
    ASSUME TypeOK
    PROVE  Cardinality(HistoryAble \cap HistoryScanned) <= HistoryQuota
<1> DEFINE R == {ss \in Hashes \X Hashes : ss[1] < ss[2]}
<1>1. HistoryAble \in SUBSET Hashes
  BY DEF HistoryAble, HistoryPage, PageOf
<1>2. IsFiniteSet(HistoryAble)
  BY <1>1, HashAssumption, FS_Subset
<1>3. \A a, b \in Hashes : <<a, b>> \in R <=> a < b
  OBVIOUS
<1>4. \A r \in HistoryAble \cap HistoryScanned :
        Cardinality({e \in HistoryAble : <<e, r>> \in R}) < HistoryQuota
  <2> SUFFICES ASSUME NEW r \in HistoryAble \cap HistoryScanned
               PROVE  Cardinality({e \in HistoryAble : <<e, r>> \in R}) < HistoryQuota
    OBVIOUS
  <2>1. {e \in HistoryAble : <<e, r>> \in R} = {e \in HistoryAble : ByHash(e, r)}
    BY <1>1, <1>3 DEF ByHash
  <2>2. Cardinality({e \in HistoryAble : ByHash(e, r)}) < HistoryQuota
    BY DEF HistoryScanned, ScannedWithin
  <2> QED
    BY <2>1, <2>2
<1>5. \A a \in Hashes : a \in Nat
  BY HashAssumption
<1>6. /\ \A a, b \in HistoryAble : a = b \/ <<a, b>> \in R \/ <<b, a>> \in R
      /\ \A a \in HistoryAble : <<a, a>> \notin R
      /\ \A a, b, c \in HistoryAble : <<a, b>> \in R /\ <<b, c>> \in R => <<a, c>> \in R
  BY <1>1, <1>3, <1>5
<1> HIDE DEF R
<1> QED
  BY <1>2, <1>4, <1>6, Quotas, PrefixBound

(* The same for the scan of the recent window.                             *)
LEMMA RecentFits ==
    ASSUME TypeOK
    PROVE  Cardinality(RecentAble \cap RecentScanned) <= RecentQuota(now)
<1> DEFINE R == {ss \in Hashes \X Hashes : ByFirstSeen(ss[1], ss[2])}
<1>1. RecentAble \in SUBSET Hashes
  BY DEF RecentAble, RecentPage, PageOf
<1>2. IsFiniteSet(RecentAble)
  BY <1>1, HashAssumption, FS_Subset
<1>3. \A a, b \in Hashes : <<a, b>> \in R <=> ByFirstSeen(a, b)
  OBVIOUS
<1>4. \A r \in RecentAble \cap RecentScanned :
        Cardinality({e \in RecentAble : <<e, r>> \in R}) < RecentQuota(now)
  <2> SUFFICES ASSUME NEW r \in RecentAble \cap RecentScanned
               PROVE  Cardinality({e \in RecentAble : <<e, r>> \in R}) < RecentQuota(now)
    OBVIOUS
  <2>1. {e \in RecentAble : <<e, r>> \in R} = {e \in RecentAble : ByFirstSeen(e, r)}
    BY <1>1, <1>3
  <2>2. Cardinality({e \in RecentAble : ByFirstSeen(e, r)}) < RecentQuota(now)
    BY DEF RecentScanned, ScannedWithin
  <2> QED
    BY <2>1, <2>2
<1>5. \A a \in Hashes : a \in Nat /\ firstSeen[a] \in Int
  BY HashAssumption, TimeAssumption DEF TypeOK
<1> HIDE DEF R
<1>6. /\ \A a, b \in RecentAble : a = b \/ <<a, b>> \in R \/ <<b, a>> \in R
      /\ \A a \in RecentAble : <<a, a>> \notin R
      /\ \A a, b, c \in RecentAble : <<a, b>> \in R /\ <<b, c>> \in R => <<a, c>> \in R
  BY <1>1, <1>3, <1>5 DEF ByFirstSeen
<1> QED
  BY <1>2, <1>4, <1>6, Quotas, PrefixBound

(* Admitting no more rows than there are free slots respects the limit.    *)
LEMMA AdmitFits ==
    ASSUME ActiveWithinLimit, NEW A \in SUBSET Hashes, NEW at, job' = Admit(A, at),
           Cardinality(A) <= available
    PROVE  ActiveWithinLimit'
<1>1. Active' \in SUBSET (Active \cup A)
  BY DEF Active, Admit
<1>2. IsFiniteSet(A) /\ Cardinality(A) \in Nat
  BY HashAssumption, FS_Subset, FS_CardinalityType
<1>3. /\ IsFiniteSet(Active) /\ Cardinality(Active) \in Nat /\ available \in Nat
      /\ Cardinality(Active) + available = MaxActive
  BY Quotas DEF ActiveWithinLimit
<1>4. /\ IsFiniteSet(Active \cup A)
      /\ Cardinality(Active \cup A) =
           Cardinality(Active) + Cardinality(A) - Cardinality(Active \cap A)
  BY <1>2, <1>3, FS_Union
<1>5. Cardinality(Active \cap A) \in Nat
  BY <1>3, FS_Subset, FS_CardinalityType
<1>6. Cardinality(Active') <= Cardinality(Active \cup A) /\ Cardinality(Active') \in Nat
  BY <1>1, <1>4, FS_Subset, FS_CardinalityType
<1> QED
  BY <1>2, <1>3, <1>4, <1>5, <1>6, LimitAssumption DEF ActiveWithinLimit

(* No other step makes a row active.                                       *)
LEMMA OthersActivateNothing ==
    ASSUME IndInv, NEW h \in Hashes, job'[h].state \in ActiveStates,
           \/ \E class \in ClaimClass : Claim(class)
           \/ \E l \in leases, failed \in BOOLEAN : RetryJob(l, failed)
           \/ \E l \in leases, i \in Infos : CompleteJob(l, i)
           \/ \E r \in uncatalogued : CatalogBackfill(r[1], r[2])
           \/ \E at \in Time : Restart(at)
           \/ Tick \/ UNCHANGED vars
    PROVE  job[h].state \in ActiveStates
<1>1. job \in [Hashes -> JobRow] /\ leases \subseteq Lease /\ now \in Time
  BY DEF IndInv, TypeOK
<1>2. CASE \E class \in ClaimClass : Claim(class)
  <2>1. PICK preferred \in ClaimClass : Claim(preferred)
    BY <1>2
  <2>2. PICK class \in ClaimClass : \E g \in DueIn(class) : job' = [job EXCEPT ![g] = Claimed(@)]
    BY <2>1 DEF Claim
  <2>3. PICK g \in DueIn(class) : job' = [job EXCEPT ![g] = Claimed(job[g])]
    BY <2>2
  <2>4. g \in Hashes /\ job[g].state \in ActiveStates
    BY DEF DueIn, Due, ActiveStates
  <2>5. h # g => job'[h] = job[h]
    BY <1>1, <2>3, <2>4
  <2> QED
    BY <2>4, <2>5
<1>3. CASE \E l \in leases, failed \in BOOLEAN : RetryJob(l, failed)
  <2>1. PICK l \in leases, failed \in BOOLEAN : RetryJob(l, failed)
    BY <1>3
  <2>2. PICK delay \in RetryDelays(AttemptsAfter(job[l.hash], failed), failed) :
          job' = [job EXCEPT ![l.hash] = Retried(job[l.hash], failed, delay)]
    BY <2>1 DEF RetryJob
  <2>3. job[l.hash].state \in ActiveStates /\ l.hash \in Hashes
    BY <1>1, <2>1 DEF RetryJob, Current, Lease, ActiveStates
  <2>4. h # l.hash => job'[h] = job[h]
    BY <1>1, <2>2, <2>3
  <2> QED
    BY <2>3, <2>4
<1>4. CASE \E l \in leases, i \in Infos : CompleteJob(l, i)
  <2>1. PICK l \in leases, i \in Infos : CompleteJob(l, i)
    BY <1>4
  <2>2. /\ l.hash \in Hashes /\ l.hash \in Keys[i]
        /\ job[l.hash].state \in ActiveStates
    BY <1>1, <2>1 DEF CompleteJob, Current, Lease, ActiveStates
  <2>3. job' = [Saved(l.hash, i, now) EXCEPT ![l.hash] = Succeeded(job[l.hash], now)]
    BY <2>1 DEF CompleteJob
  <2>4. Saved(l.hash, i, now) \in [Hashes -> JobRow]
    BY <1>1, <2>2, SavedRows
  <2>5. h # l.hash => job'[h] = Saved(l.hash, i, now)[h]
    BY <2>3, <2>4
  <2>6. h # l.hash => job'[h] = job[h] \/ job'[h] = AliasSettled(job[h], now)
    BY <2>5 DEF Saved
  <2> QED
    BY <2>2, <2>6 DEF AliasSettled, ActiveStates
<1>5. CASE \E r \in uncatalogued : CatalogBackfill(r[1], r[2])
  <2>1. PICK r \in uncatalogued : job' = Saved(r[1], r[2], 0)
    BY <1>5 DEF CatalogBackfill
  <2>2. job'[h] = job[h] \/ job'[h] = AliasSettled(job[h], 0)
    BY <2>1 DEF Saved
  <2> QED
    BY <2>2 DEF AliasSettled, ActiveStates
<1>6. CASE \E at \in Time : Restart(at)
  <2>1. PICK at \in Time : Restart(at)
    BY <1>6
  <2>2. job'[h].state = "succeeded" \/ job'[h] = Recovered(job[h], at)
    BY <2>1 DEF Restart, Succeeded
  <2> QED
    BY <2>2 DEF Recovered, ActiveStates
<1>7. CASE Tick \/ UNCHANGED vars
  BY <1>7 DEF Tick, vars, tables
<1> QED
  BY <1>2, <1>3, <1>4, <1>5, <1>6, <1>7

(* Every admission path respects the limit, and nothing else adds to it.   *)
LEMMA LimitStep ==
    ASSUME IndInv, ActiveWithinLimit, [Next]_vars
    PROVE  ActiveWithinLimit'
<1>1. TypeOK
  BY DEF IndInv
<1>2. CASE \E batch \in SUBSET Hashes \ {{}}, at \in 0..now : SaveHashes(batch, at)
  <2>1. PICK batch \in SUBSET Hashes \ {{}}, observedAt \in 0..now : SaveHashes(batch, observedAt)
    BY <1>2
  <2> DEFINE at == IF Freshness THEN now ELSE observedAt
  <2>2. PICK A \in SUBSET Hashes : Cardinality(A) <= available /\ job' = Admit(A, at)
    BY <2>1 DEF SaveHashes
  <2> QED
    BY <2>2, AdmitFits
<1>3. CASE \E h \in Hashes, p \in Peers, at \in 0..now : DiscoverPeer(h, p, at)
  <2>1. PICK h \in Hashes, p \in Peers, at \in 0..now : DiscoverPeer(h, p, at)
    BY <1>3
  <2>2. CASE available > 0 /\ Eligible(h, at)
    <3>1. job' = Admit({h}, at) /\ {h} \in SUBSET Hashes
      BY <2>1, <2>2 DEF DiscoverPeer
    <3>2. Cardinality({h}) <= available
      <4>1. Cardinality({h}) = 1
        BY FS_Singleton, Zenon
      <4>2. available \in Nat /\ available > 0
        BY <2>2, Quotas
      <4> QED
        BY <4>1, <4>2
    <3> QED
      BY <3>1, <3>2, AdmitFits
  <2>3. CASE ~(available > 0 /\ Eligible(h, at))
    <3>1. job' = job
      BY <2>1, <2>3 DEF DiscoverPeer
    <3> QED
      BY <3>1 DEF ActiveWithinLimit, Active
  <2> QED
    BY <2>2, <2>3
<1>4. CASE BackfillPage
  <2>1. CASE HistoryQuota > 0
    <3> DEFINE A == HistoryAble \cap HistoryScanned
    <3>1. job' = Admit(A, now)
      BY <1>4, <2>1 DEF BackfillPage
    <3>2. A \in SUBSET Hashes
      BY DEF HistoryAble, HistoryPage, PageOf
    <3>3. Cardinality(A) \in Nat
      BY <3>2, HashAssumption, FS_Subset, FS_CardinalityType
    <3>4. Cardinality(A) <= HistoryQuota
      BY <1>1, HistoryFits
    <3> HIDE DEF A
    <3>5. Cardinality(A) <= available
      BY <3>3, <3>4, Quotas
    <3> QED
      BY <3>1, <3>2, <3>5, AdmitFits
  <2>2. CASE ~(HistoryQuota > 0)
    <3>1. job' = job
      BY <1>4, <2>2 DEF BackfillPage
    <3> QED
      BY <3>1 DEF ActiveWithinLimit, Active
  <2> QED
    BY <2>1, <2>2
<1>5. CASE BackfillRecentPage
  <2> DEFINE A == RecentAble \cap RecentScanned
  <2>1. job' = Admit(A, now)
    BY <1>5 DEF BackfillRecentPage
  <2>2. A \in SUBSET Hashes
    BY DEF RecentAble, RecentPage, PageOf
  <2>3. Cardinality(A) \in Nat
    BY <2>2, HashAssumption, FS_Subset, FS_CardinalityType
  <2>4. Cardinality(A) <= RecentQuota(now)
    BY <1>1, RecentFits
  <2> HIDE DEF A
  <2>5. Cardinality(A) <= available
    BY <2>3, <2>4, Quotas
  <2> QED
    BY <2>1, <2>2, <2>5, AdmitFits
<1>6. CASE \/ \E class \in ClaimClass : Claim(class)
           \/ \E l \in leases, failed \in BOOLEAN : RetryJob(l, failed)
           \/ \E l \in leases, i \in Infos : CompleteJob(l, i)
           \/ \E r \in uncatalogued : CatalogBackfill(r[1], r[2])
           \/ \E at \in Time : Restart(at)
           \/ Tick \/ UNCHANGED vars
  <2>1. \A h \in Hashes : job'[h].state \in ActiveStates => job[h].state \in ActiveStates
    BY <1>6, OthersActivateNothing
  <2>2. Active' \in SUBSET Active
    BY <2>1 DEF Active
  <2>3. Cardinality(Active') <= Cardinality(Active) /\ Cardinality(Active') \in Nat
        /\ Cardinality(Active) \in Nat
    BY <2>2, Quotas, FS_Subset, FS_CardinalityType
  <2> QED
    BY <2>3, LimitAssumption DEF ActiveWithinLimit
<1> QED
  BY <1>2, <1>3, <1>4, <1>5, <1>6 DEF Next

(* However announces, samples and the two scans compete for the slots,     *)
(* the active rows stay within fetch_limit.                                *)
THEOREM LimitHolds == Spec => []ActiveWithinLimit
<1>1. Init => ActiveWithinLimit
  <2> SUFFICES ASSUME Init PROVE ActiveWithinLimit
    OBVIOUS
  <2>1. Active = {}
    BY DEF Init, Active, NoJob, ActiveStates
  <2> QED
    BY <2>1, FS_EmptySet, LimitAssumption DEF ActiveWithinLimit
<1>2. IndInv /\ ActiveWithinLimit /\ [Next]_vars => ActiveWithinLimit'
  BY LimitStep
<1> QED
  BY <1>1, <1>2, Invariance, PTL DEF Spec

-----------------------------------------------------------------------------
(* The failure count: how one step moves a row's attempts.                 *)

(* A step leaves a row alone, returns it without adding a failure, claims  *)
(* it under a fresh lease, or charges one failure to the lease it ran      *)
(* under.                                                                  *)
LEMMA AttemptsStep ==
    ASSUME IndInv, [Next]_vars, NEW h \in Hashes
    PROVE  \/ job'[h] = job[h] /\ leases \subseteq leases'
           \/ /\ job'[h].state # "running" /\ job'[h].attempts <= job[h].attempts
              /\ leases' = leases
           \/ /\ job[h].state = "running" /\ job'[h].state # "running"
              /\ job'[h].attempts <= job[h].attempts + 1
              /\ leases' = leases
           \/ /\ job'[h].state = "running" /\ job'[h].attempts = job[h].attempts
              /\ leases' = leases \cup {[hash |-> h, gen |-> job[h].gen + 1]}
<1>1. /\ TypeOK /\ job \in [Hashes -> JobRow] /\ now \in Time /\ leases \subseteq Lease
      /\ job[h].attempts \in Nat /\ job[h].gen \in Nat
  BY LimitAssumption DEF IndInv, TypeOK, JobRow
<1>2. ASSUME NEW A, NEW at, job' = Admit(A, at), leases' = leases
      PROVE  \/ job'[h] = job[h] /\ leases \subseteq leases'
             \/ /\ job'[h].state # "running" /\ job'[h].attempts <= job[h].attempts
                /\ leases' = leases
  <2>1. CASE h \in A
    <3>1. job'[h].state = "pending" /\ job'[h].attempts = 0
      BY <1>2, <2>1 DEF Admit, Enqueued
    <3> QED
      BY <1>1, <1>2, <3>1
  <2>2. CASE h \notin A
    BY <1>2, <2>2 DEF Admit
  <2> QED
    BY <2>1, <2>2
<1>3. CASE \E batch \in SUBSET Hashes \ {{}}, at \in 0..now : SaveHashes(batch, at)
  <2>1. PICK A, at : job' = Admit(A, at) /\ leases' = leases
    BY <1>3 DEF SaveHashes
  <2> QED
    BY <1>2, <2>1
<1>4. CASE \E g \in Hashes, p \in Peers, at \in 0..now : DiscoverPeer(g, p, at)
  <2>1. PICK g \in Hashes, p \in Peers, at \in 0..now : DiscoverPeer(g, p, at)
    BY <1>4
  <2>2. (job' = job \/ job' = Admit({g}, at)) /\ leases' = leases
    BY <2>1 DEF DiscoverPeer
  <2> QED
    BY <1>2, <2>2
<1>5. CASE BackfillPage
  <2>1. (job' = job \/ job' = Admit(HistoryAble \cap HistoryScanned, now)) /\ leases' = leases
    BY <1>5 DEF BackfillPage
  <2> QED
    BY <1>2, <2>1
<1>6. CASE BackfillRecentPage
  <2>1. job' = Admit(RecentAble \cap RecentScanned, now) /\ leases' = leases
    BY <1>6 DEF BackfillRecentPage
  <2> QED
    BY <1>2, <2>1
<1>7. CASE \E class \in ClaimClass : Claim(class)
  <2>1. PICK preferred \in ClaimClass : Claim(preferred)
    BY <1>7
  <2>2. PICK class \in ClaimClass : \E g \in DueIn(class) :
          /\ job' = [job EXCEPT ![g] = Claimed(@)]
          /\ leases' = leases \cup {[hash |-> g, gen |-> Claimed(job[g]).gen]}
    BY <2>1 DEF Claim
  <2>3. PICK g \in DueIn(class) :
          /\ job' = [job EXCEPT ![g] = Claimed(job[g])]
          /\ leases' = leases \cup {[hash |-> g, gen |-> Claimed(job[g]).gen]}
    BY <2>2
  <2>4. g \in Hashes
    BY DEF DueIn, Due
  <2>5. /\ Claimed(job[g]).gen = job[g].gen + 1 /\ Claimed(job[g]).state = "running"
        /\ Claimed(job[g]).attempts = job[g].attempts
    BY <1>1, <2>4, ClaimedRow
  <2>6. job'[g] = Claimed(job[g]) /\ \A k \in Hashes \ {g} : job'[k] = job[k]
    BY <1>1, <2>3, <2>4
  <2>7. CASE h = g
    BY <2>3, <2>5, <2>6, <2>7
  <2>8. CASE h # g
    BY <2>3, <2>6, <2>8
  <2> QED
    BY <2>7, <2>8
<1>8. CASE \E l \in leases, failed \in BOOLEAN : RetryJob(l, failed)
  <2>1. PICK l \in leases, failed \in BOOLEAN : RetryJob(l, failed)
    BY <1>8
  <2>2. PICK delay \in RetryDelays(AttemptsAfter(job[l.hash], failed), failed) :
          job' = [job EXCEPT ![l.hash] = Retried(job[l.hash], failed, delay)]
    BY <2>1 DEF RetryJob
  <2>3. job[l.hash].state = "running" /\ l.hash \in Hashes /\ leases' = leases
    BY <1>1, <2>1 DEF RetryJob, Current, Lease
  <2>4. /\ job'[l.hash] = Retried(job[l.hash], failed, delay)
        /\ \A k \in Hashes \ {l.hash} : job'[k] = job[k]
    BY <1>1, <2>2, <2>3
  <2>5. CASE h = l.hash
    <3>1. job'[h].state # "running" /\ job'[h].attempts = AttemptsAfter(job[h], failed)
      BY <2>4, <2>5 DEF Retried
    <3>2. AttemptsAfter(job[h], failed) <= job[h].attempts + 1
      BY <1>1 DEF AttemptsAfter
    <3> QED
      BY <2>3, <2>5, <3>1, <3>2
  <2>6. CASE h # l.hash
    BY <2>3, <2>4, <2>6
  <2> QED
    BY <2>5, <2>6
<1>9. ASSUME NEW at, job'[h] = job[h] \/ job'[h] = AliasSettled(job[h], at), leases' = leases
      PROVE  \/ job'[h] = job[h] /\ leases \subseteq leases'
             \/ /\ job'[h].state # "running" /\ job'[h].attempts <= job[h].attempts
                /\ leases' = leases
  <2>1. \/ AliasSettled(job[h], at) = job[h]
        \/ /\ AliasSettled(job[h], at).state = "succeeded"
           /\ AliasSettled(job[h], at).attempts = job[h].attempts
    BY DEF AliasSettled
  <2> QED
    BY <1>1, <1>9, <2>1
<1>10. CASE \E l \in leases, i \in Infos : CompleteJob(l, i)
  <2>1. PICK l \in leases, i \in Infos : CompleteJob(l, i)
    BY <1>10
  <2>2. l.hash \in Hashes /\ l.hash \in Keys[i] /\ leases' = leases
    BY <1>1, <2>1 DEF CompleteJob, Lease
  <2>3. job' = [Saved(l.hash, i, now) EXCEPT ![l.hash] = Succeeded(job[l.hash], now)]
    BY <2>1 DEF CompleteJob
  <2>4. Saved(l.hash, i, now) \in [Hashes -> JobRow]
    BY <1>1, <2>2, SavedRows
  <2>5. CASE h = l.hash
    <3>1. job'[h].state = "succeeded" /\ job'[h].attempts = job[h].attempts
      BY <2>2, <2>3, <2>4, <2>5 DEF Succeeded
    <3> QED
      BY <1>1, <2>2, <3>1
  <2>6. CASE h # l.hash
    <3>1. job'[h] = Saved(l.hash, i, now)[h]
      BY <2>3, <2>4, <2>6
    <3>2. job'[h] = job[h] \/ job'[h] = AliasSettled(job[h], now)
      BY <3>1 DEF Saved
    <3> QED
      BY <1>9, <2>2, <3>2
  <2> QED
    BY <2>5, <2>6
<1>11. CASE \E r \in uncatalogued : CatalogBackfill(r[1], r[2])
  <2>1. PICK r \in uncatalogued : job' = Saved(r[1], r[2], 0) /\ leases' = leases
    BY <1>11 DEF CatalogBackfill
  <2>2. job'[h] = job[h] \/ job'[h] = AliasSettled(job[h], 0)
    BY <2>1 DEF Saved
  <2> QED
    BY <1>9, <2>1, <2>2
<1>12. CASE \E at \in Time : Restart(at)
  <2>1. PICK at \in Time : Restart(at)
    BY <1>12
  <2> DEFINE row == Recovered(job[h], at)
  <2>2. job'[h] = IF HasMetadata(h) /\ row.state # "none"
                  THEN Succeeded(row, row.updated) ELSE row
    BY <2>1 DEF Restart
  <2>3. row.state # "running" /\ row.attempts = job[h].attempts
    BY <1>1, <2>1, RecoveredRow
  <2>4. leases' = leases
    BY <2>1 DEF Restart
  <2> HIDE DEF row
  <2>5. job'[h].state # "running" /\ job'[h].attempts = job[h].attempts
    BY <2>2, <2>3 DEF Succeeded
  <2> QED
    BY <1>1, <2>4, <2>5
<1>13. CASE Tick \/ UNCHANGED vars
  BY <1>13 DEF Tick, vars, tables
<1> QED
  BY <1>3, <1>4, <1>5, <1>6, <1>7, <1>8, <1>10, <1>11, <1>12, <1>13 DEF Next

(* Only a claim records a lease, one at a time.                            *)
LEMMA LeasesStep ==
    ASSUME [Next]_vars
    PROVE  leases' = leases \/ \E l : leases' = leases \cup {l}
<1>1. CASE \E class \in ClaimClass : Claim(class)
  BY <1>1 DEF Claim
<1>2. CASE ~\E class \in ClaimClass : Claim(class)
  BY <1>2 DEF Next, SaveHashes, DiscoverPeer, BackfillPage, BackfillRecentPage,
     RetryJob, CompleteJob, CatalogBackfill, Restart, Tick, vars
<1> QED
  BY <1>1, <1>2

(* Each claim adds one failure to a row's budget and each failure spends   *)
(* the one of the lease it is reported under.                              *)
LEMMA BudgetStep ==
    ASSUME IndInv, FailureBudget, [Next]_vars
    PROVE  FailureBudget'
<1> DEFINE of(L, h) == {l \in L : l.hash = h}
<1>1. IsFiniteSet(leases')
  <2>1. IsFiniteSet(leases)
    BY DEF FailureBudget
  <2>2. CASE leases' = leases
    BY <2>1, <2>2
  <2>3. ASSUME NEW l, leases' = leases \cup {l} PROVE IsFiniteSet(leases')
    BY <2>1, <2>3, FS_AddElement
  <2> QED
    BY <2>2, <2>3, LeasesStep
<1>2. ASSUME NEW h \in Hashes
      PROVE  /\ job'[h].attempts <= Cardinality(of(leases', h))
             /\ job'[h].state = "running" => job'[h].attempts < Cardinality(of(leases', h))
  <2> DEFINE n == Cardinality(of(leases, h))
             m == Cardinality(of(leases', h))
  <2>1. /\ IsFiniteSet(of(leases, h)) /\ n \in Nat
        /\ IsFiniteSet(of(leases', h)) /\ m \in Nat
    <3>1. IsFiniteSet(leases) /\ of(leases, h) \in SUBSET leases /\ of(leases', h) \in SUBSET leases'
      BY DEF FailureBudget
    <3> HIDE DEF of
    <3> QED
      BY <1>1, <3>1, FS_Subset, FS_CardinalityType
  <2>2. /\ job[h].attempts <= n
        /\ job[h].state = "running" => job[h].attempts < n
    BY DEF FailureBudget
  <2>3. /\ job[h].attempts \in Nat /\ job'[h].attempts \in Nat /\ job[h].gen \in Nat
    <3>1. IndInv'
      BY NextIndInv
    <3>2. job \in [Hashes -> JobRow] /\ job' \in [Hashes -> JobRow]
      BY <3>1 DEF IndInv, TypeOK
    <3> QED
      BY <3>2, LimitAssumption DEF JobRow
  <2>4. CASE job'[h] = job[h] /\ leases \subseteq leases'
    <3>1. of(leases, h) \in SUBSET of(leases', h)
      BY <2>4
    <3> HIDE DEF of
    <3>2. n <= m
      BY <2>1, <3>1, FS_Subset
    <3> HIDE DEF n, m
    <3> QED
      BY <2>1, <2>2, <2>3, <2>4, <3>2 DEF n, m
  <2>5. CASE /\ job'[h].state # "running" /\ job'[h].attempts <= job[h].attempts
             /\ leases' = leases
    <3>1. m = n
      BY <2>5
    <3> HIDE DEF n, m
    <3>2. job'[h].attempts <= m
      BY <2>1, <2>2, <2>3, <2>5, <3>1
    <3> QED
      BY <2>5, <3>2 DEF m
  <2>6. CASE /\ job[h].state = "running" /\ job'[h].state # "running"
             /\ job'[h].attempts <= job[h].attempts + 1
             /\ leases' = leases
    <3>1. m = n
      BY <2>6
    <3> HIDE DEF n, m
    <3>2. job'[h].attempts <= m
      BY <2>1, <2>2, <2>3, <2>6, <3>1
    <3> QED
      BY <2>6, <3>2 DEF m
  <2>7. CASE /\ job'[h].state = "running" /\ job'[h].attempts = job[h].attempts
             /\ leases' = leases \cup {[hash |-> h, gen |-> job[h].gen + 1]}
    <3> DEFINE l == [hash |-> h, gen |-> job[h].gen + 1]
    <3>1. l \notin of(leases, h)
      BY <2>3 DEF IndInv, LeasesNumberedByRow
    <3>2. of(leases', h) = of(leases, h) \cup {l}
      BY <2>7
    <3> HIDE DEF of, l
    <3>3. m = n + 1
      BY <2>1, <3>1, <3>2, FS_AddElement
    <3> HIDE DEF n, m
    <3>4. job'[h].attempts < m
      BY <2>1, <2>2, <2>3, <2>7, <3>3
    <3> QED
      BY <2>1, <2>3, <3>4 DEF m
  <2> QED
    BY <2>4, <2>5, <2>6, <2>7, AttemptsStep
<1> QED
  BY <1>1, <1>2 DEF FailureBudget

(* However late, often or out of turn retry_job arrives, a hash is charged *)
(* at most one failure for each lease that was handed out for it.          *)
THEOREM FailuresAreLeased == Spec => []OneFailurePerLease
<1>1. Init => FailureBudget
  <2> SUFFICES ASSUME Init PROVE FailureBudget
    OBVIOUS
  <2>1. \A h \in Hashes : job[h].attempts = 0 /\ job[h].state = "none"
    BY DEF Init, NoJob
  <2>2. IsFiniteSet(leases) /\ \A h : {l \in leases : l.hash = h} = {}
    BY FS_EmptySet DEF Init
  <2>3. \A h : Cardinality({l \in leases : l.hash = h}) = 0
    BY <2>2, FS_EmptySet
  <2> QED
    BY <2>1, <2>2, <2>3 DEF FailureBudget
<1>2. IndInv /\ FailureBudget /\ [Next]_vars => FailureBudget'
  BY BudgetStep
<1>3. FailureBudget => OneFailurePerLease
  BY DEF FailureBudget, OneFailurePerLease
<1> QED
  BY <1>1, <1>2, <1>3, Invariance, PTL DEF Spec

-----------------------------------------------------------------------------
(* What the scans and the hint table leave room for.                       *)

(* Admission makes at most the admitted rows active.                       *)
LEMMA AdmitCounts ==
    ASSUME NEW A \in SUBSET Hashes, NEW at, job' = Admit(A, at)
    PROVE  /\ Cardinality(A) \in Nat
           /\ Cardinality(Active') \in Nat
           /\ Cardinality(Active') <= Cardinality(Active) + Cardinality(A)
<1>1. Active' \in SUBSET (Active \cup A)
  BY DEF Active, Admit
<1>2. IsFiniteSet(A) /\ Cardinality(A) \in Nat
  BY HashAssumption, FS_Subset, FS_CardinalityType
<1>3. IsFiniteSet(Active) /\ Cardinality(Active) \in Nat
  BY Quotas
<1>4. /\ IsFiniteSet(Active \cup A)
      /\ Cardinality(Active \cup A) =
           Cardinality(Active) + Cardinality(A) - Cardinality(Active \cap A)
  BY <1>2, <1>3, FS_Union
<1>5. Cardinality(Active \cap A) \in Nat
  BY <1>3, FS_Subset, FS_CardinalityType
<1>6. Cardinality(Active') <= Cardinality(Active \cup A) /\ Cardinality(Active') \in Nat
  BY <1>1, <1>4, FS_Subset, FS_CardinalityType
<1> QED
  BY <1>2, <1>3, <1>4, <1>5, <1>6

(* A history page only takes what its quota, net of the reserve, allows.   *)
LEMMA HistoryStep ==
    ASSUME IndInv, ActiveWithinLimit, Freshness, Active' # Active, BackfillPage
    PROVE  Cardinality(Active') <= MaxActive - Reserve
<1> DEFINE A == HistoryAble \cap HistoryScanned
<1>1. HistoryQuota > 0
  <2> SUFFICES ASSUME ~(HistoryQuota > 0) PROVE FALSE
    OBVIOUS
  <2>1. job' = job
    BY DEF BackfillPage
  <2> QED
    BY <2>1 DEF Active
<1>2. job' = Admit(A, now)
  BY <1>1 DEF BackfillPage
<1>3. A \in SUBSET Hashes
  BY DEF HistoryAble, HistoryPage, PageOf
<1>4. Cardinality(A) <= HistoryQuota
  BY HistoryFits DEF IndInv
<1>5. Reserve \in Nat
  <2>1. RecentLimit \in Nat /\ MaxActive - 1 \in Nat
    BY LimitAssumption
  <2>2. Min({RecentLimit, MaxActive - 1}) \in {RecentLimit, MaxActive - 1}
    BY <2>1, MinOfTwo
  <2> QED
    BY <2>1, <2>2 DEF Reserve
<1>6. /\ available \in Nat /\ Cardinality(Active) \in Nat
      /\ Cardinality(Active) + available = MaxActive
  BY Quotas DEF ActiveWithinLimit
<1> HIDE DEF A, Reserve, available
<1>7. HistoryQuota = available - Reserve
  BY <1>1, <1>5, <1>6 DEF HistoryQuota, SatSub
<1>8. /\ Cardinality(A) \in Nat /\ Cardinality(Active') \in Nat
      /\ Cardinality(Active') <= Cardinality(Active) + Cardinality(A)
  BY <1>2, <1>3, AdmitCounts
<1> QED
  BY <1>4, <1>5, <1>6, <1>7, <1>8, LimitAssumption

(* A recent page adds to the buffer only what its quota allows.            *)
LEMMA RecentStep ==
    ASSUME IndInv, BackfillRecentPage
    PROVE  Cardinality(FirstAttemptWaiting(now)') <= RecentLimit
<1> DEFINE A == RecentAble \cap RecentScanned
           W == FirstAttemptWaiting(now)
           V == FirstAttemptWaiting(now)'
<1>1. job' = Admit(A, now) /\ RecentQuota(now) > 0
  BY DEF BackfillRecentPage
<1>2. A \in SUBSET Hashes
  BY DEF RecentAble, RecentPage, PageOf
<1>3. Cardinality(A) <= RecentQuota(now)
  BY RecentFits DEF IndInv
<1>4. firstSeen' = firstSeen /\ hint' = hint /\ now' = now
  BY DEF BackfillRecentPage
<1>5. V \in SUBSET (W \cup A)
  <2>1. \A h \in Hashes \ A : job'[h] = job[h]
    BY <1>1 DEF Admit
  <2>2. \A h \in Hashes : /\ IsRecent(h, now)' <=> IsRecent(h, now)
                          /\ HasFreshHint(h, now)' <=> HasFreshHint(h, now)
    BY <1>4 DEF IsRecent, HasFreshHint
  <2> HIDE DEF A
  <2> QED
    BY <2>1, <2>2 DEF FirstAttemptWaiting
<1>6. W \in SUBSET Hashes
  BY DEF FirstAttemptWaiting
<1> HIDE DEF A, W, V
<1>7. /\ IsFiniteSet(A) /\ Cardinality(A) \in Nat
      /\ IsFiniteSet(W) /\ Cardinality(W) \in Nat
  BY <1>2, <1>6, HashAssumption, FS_Subset, FS_CardinalityType
<1>8. /\ IsFiniteSet(W \cup A)
      /\ Cardinality(W \cup A) = Cardinality(W) + Cardinality(A) - Cardinality(W \cap A)
  BY <1>7, FS_Union
<1>9. Cardinality(W \cap A) \in Nat
  BY <1>7, FS_Subset, FS_CardinalityType
<1>10. Cardinality(V) <= Cardinality(W \cup A) /\ Cardinality(V) \in Nat
  BY <1>5, <1>8, FS_Subset, FS_CardinalityType
<1>11. Cardinality(W) + RecentQuota(now) <= RecentLimit
  <2>1. SatSub(RecentLimit, Cardinality(W)) \in Nat
    BY <1>7, LimitAssumption DEF SatSub
  <2>2. available \in Nat
    BY Quotas
  <2>3. RecentQuota(now) = Min({available, SatSub(RecentLimit, Cardinality(W))})
    BY DEF RecentQuota, W
  <2>4. Min({available, SatSub(RecentLimit, Cardinality(W))}) <= SatSub(RecentLimit, Cardinality(W))
    BY <2>1, <2>2, MinOfTwo
  <2>5. RecentQuota(now) \in Nat
    BY Quotas
  <2>6. SatSub(RecentLimit, Cardinality(W)) > 0 => SatSub(RecentLimit, Cardinality(W)) = RecentLimit - Cardinality(W)
    BY <1>7, LimitAssumption DEF SatSub
  <2> HIDE DEF RecentQuota, SatSub, available
  <2> QED
    BY <1>1, <1>7, <2>1, <2>3, <2>4, <2>5, <2>6, LimitAssumption
<1>12. RecentQuota(now) \in Nat
  BY Quotas
<1>13. Cardinality(V) <= RecentLimit
  BY <1>3, <1>7, <1>8, <1>9, <1>10, <1>11, <1>12, LimitAssumption
<1> QED
  BY <1>13 DEF V

(* Neither scan starves what has not been tried yet: history stops short   *)
(* of the reserve and the recent scan stops at the buffer's limit, at      *)
(* whatever occupancy and clock they run.                                  *)
THEOREM RoomIsLeft == Spec => ScansLeaveRoom
<1>1. IndInv /\ ActiveWithinLimit /\ [Next]_vars =>
        [Freshness /\ Active' # Active /\ BackfillPage
          => Cardinality(Active') <= MaxActive - Reserve]_vars
  BY HistoryStep
<1>2. IndInv /\ [Next]_vars =>
        [Active' # Active /\ BackfillRecentPage
          => Cardinality(FirstAttemptWaiting(now)') <= RecentLimit]_vars
  BY RecentStep
<1> QED
  BY <1>1, <1>2, Invariance, LimitHolds, PTL
     DEF Spec, ScansLeaveRoom, HistoryLeavesReserve, RecentBufferHolds

(* Of the hints of one hash, what the limit evicts is not newer than what  *)
(* it keeps: the newer of two has fewer hints before it.                   *)
LEMMA EvictsOldest ==
    ASSUME NEW hs \in [Peers -> Time \cup {Never}], NEW p \in Peers, NEW q \in Peers,
           hs[p] # Never, KeepMostRecent(hs)[p] = Never, KeepMostRecent(hs)[q] # Never
    PROVE  KeepMostRecent(hs)[q] = hs[q] /\ hs[p] <= hs[q]
<1> DEFINE before(x) == {r \in Peers : hs[r] # Never /\ Precedes(hs, r, x)}
<1>1. \A x \in Peers : KeepMostRecent(hs)[x] = IF Cardinality(before(x)) < MaxHints THEN hs[x] ELSE Never
  BY DEF KeepMostRecent
<1>2. \A x \in Peers : hs[x] \in Int
  BY TimeAssumption
<1>3. \A x \in Peers : IsFiniteSet(before(x)) /\ Cardinality(before(x)) \in Nat
  <2>1. \A x \in Peers : before(x) \in SUBSET Peers
    OBVIOUS
  <2> HIDE DEF before
  <2> QED
    BY <2>1, PeerAssumption, FS_Subset, FS_CardinalityType
<1>4. Cardinality(before(q)) < MaxHints /\ KeepMostRecent(hs)[q] = hs[q]
  <2> HIDE DEF before
  <2> QED
    BY <1>1
<1>5. ASSUME hs[p] > hs[q] PROVE FALSE
  <2>1. before(p) \in SUBSET before(q)
    BY <1>2, <1>5 DEF Precedes
  <2> HIDE DEF before
  <2>2. Cardinality(before(p)) <= Cardinality(before(q))
    BY <1>3, <2>1, FS_Subset
  <2>3. Cardinality(before(p)) < MaxHints
    BY <1>3, <1>4, <2>2, LimitAssumption
  <2> QED
    BY <1>1, <2>3
<1> QED
  BY <1>2, <1>4, <1>5

(* An announce with the table full drops only hints that are no newer than *)
(* those it keeps, the sweep drops only expired ones, and a settled hash   *)
(* loses all of them at once.                                              *)
THEOREM NewestHintsSurvive == Spec => NewestHintsKept
<1>1. IndInv /\ [Next]_vars =>
        [\A h \in Hashes, p \in Peers, q \in Peers :
          (/\ hint[h][p] # Never /\ hint'[h][p] = Never
           /\ hint'[h][q] # Never)
          => hint[h][p] <= hint'[h][q]]_vars
  <2> SUFFICES ASSUME IndInv, [Next]_vars, NEW h \in Hashes, NEW p \in Peers, NEW q \in Peers,
                      hint[h][p] # Never, hint'[h][p] = Never, hint'[h][q] # Never
               PROVE  hint[h][p] <= hint'[h][q]
    OBVIOUS
  <2>1. /\ hint \in [Hashes -> [Peers -> Time \cup {Never}]] /\ now \in Time
        /\ hint[h] \in [Peers -> Time \cup {Never}]
        /\ hint[h][p] \in Int /\ hint[h][q] \in Int
    BY TimeAssumption DEF IndInv, TypeOK
  <2>2. CASE \E g \in Hashes, r \in Peers, at \in 0..now : DiscoverPeer(g, r, at)
    <3>1. PICK g \in Hashes, r \in Peers, at \in 0..now : DiscoverPeer(g, r, at)
      BY <2>2
    <3>2. hint' = [hint EXCEPT ![g] = KeepMostRecent(Announced(hint[g], r, at))]
      BY <3>1 DEF DiscoverPeer
    <3> DEFINE hs == Announced(hint[h], r, at)
    <3>3. h = g /\ hint'[h] = KeepMostRecent(hs)
      BY <2>1, <3>2
    <3>4. /\ hs \in [Peers -> Time \cup {Never}]
          /\ hs[p] \in Int /\ hint[h][p] <= hs[p] /\ hs[q] \in Int
          /\ hs[p] # Never
      BY <2>1, TimeAssumption DEF Announced
    <3> HIDE DEF hs
    <3>5. KeepMostRecent(hs)[q] = hs[q] /\ hs[p] <= hs[q]
      BY <3>3, <3>4, EvictsOldest
    <3> QED
      BY <2>1, <3>3, <3>4, <3>5
  <2>3. CASE BackfillPage
    <3>1. hint' = CleanupExpired
      BY <2>3 DEF BackfillPage
    <3>2. hint[h][p] < now - HintTtl /\ ~(hint[h][q] < now - HintTtl) /\ hint'[h][q] = hint[h][q]
      BY <3>1 DEF CleanupExpired
    <3> QED
      BY <2>1, <3>2, TimeAssumption
  <2>4. ASSUME NEW H, hint' = NoHints(H) PROVE FALSE
    BY <2>4 DEF NoHints
  <2>5. CASE \/ \E l \in leases, i \in Infos : CompleteJob(l, i)
             \/ \E r \in uncatalogued : CatalogBackfill(r[1], r[2])
    <3>1. \E H : hint' = NoHints(H)
      BY <2>5 DEF CompleteJob, CatalogBackfill
    <3> QED
      BY <2>4, <3>1
  <2>6. ASSUME hint' = hint PROVE FALSE
    BY <2>6
  <2>7. CASE \/ \E batch \in SUBSET Hashes \ {{}}, at \in 0..now : SaveHashes(batch, at)
             \/ BackfillRecentPage
             \/ \E class \in ClaimClass : Claim(class)
             \/ \E l \in leases, failed \in BOOLEAN : RetryJob(l, failed)
             \/ \E at \in Time : Restart(at)
             \/ Tick \/ UNCHANGED vars
    <3>1. hint' = hint
      BY <2>7 DEF SaveHashes, BackfillRecentPage, Claim, RetryJob, Restart, Tick, vars, tables
    <3> QED
      BY <2>6, <3>1
  <2> QED
    BY <2>2, <2>3, <2>5, <2>7 DEF Next
<1> QED
  BY <1>1, Invariance, PTL DEF Spec, NewestHintsKept

-----------------------------------------------------------------------------
(* FetchJobs implements JobLease: every transaction of the store issues,   *)
(* releases, finishes or absorbs, or changes nothing the workers see.      *)

(* An empty or inherited database maps to an initial state of the promise. *)
LEMMA InitPromise == Init => Promise!Init
<1> SUFFICES ASSUME Init PROVE Promise!Init
  OBVIOUS
<1>1. ownerOf = [h \in Hashes |-> 0]
  BY DEF Init, ownerOf, NoJob
<1>2. stored \in SUBSET Hashes /\ leases = {}
  BY DEF Init, stored
<1> QED
  BY <1>1, <1>2 DEF Promise!Init

(* Queueing rows that are absent or asleep is invisible to the workers.    *)
LEMMA AdmitInvisible ==
    ASSUME IndInv, NEW A \in SUBSET Hashes, NEW at, job' = Admit(A, at),
           \A h \in A : job[h].state \in {"none", "dormant"},
           swarm' = swarm, leases' = leases
    PROVE  UNCHANGED Promise!vars
<1>1. ownerOf' = ownerOf
  <2>1. \A h \in Hashes : job'[h] = IF h \in A THEN Enqueued(job[h], at) ELSE job[h]
    BY DEF Admit
  <2>2. \A h \in A : Enqueued(job[h], at).state # "running" /\ job[h].state # "running"
    BY DEF Enqueued
  <2> QED
    BY <2>1, <2>2 DEF ownerOf
<1>2. stored' = stored
  BY DEF stored, HasMetadata
<1> QED
  BY <1>1, <1>2 DEF Promise!vars

(* The four admission paths stutter.                                       *)
LEMMA AdmissionStutters ==
    ASSUME IndInv,
           \/ \E batch \in SUBSET Hashes \ {{}}, at \in 0..now : SaveHashes(batch, at)
           \/ \E h \in Hashes, p \in Peers, at \in 0..now : DiscoverPeer(h, p, at)
           \/ BackfillPage
           \/ BackfillRecentPage
    PROVE  UNCHANGED Promise!vars
<1>1. CASE \E batch \in SUBSET Hashes \ {{}}, at \in 0..now : SaveHashes(batch, at)
  <2>1. PICK batch \in SUBSET Hashes \ {{}}, observedAt \in 0..now : SaveHashes(batch, observedAt)
    BY <1>1
  <2> DEFINE at == IF Freshness THEN now ELSE observedAt
  <2>2. PICK A \in SUBSET {g \in batch : Eligible(g, at)} : job' = Admit(A, at)
    BY <2>1 DEF SaveHashes
  <2>3. \A g \in A : job[g].state \in {"none", "dormant"}
    BY <2>2 DEF Eligible, RipeDormant
  <2>4. A \in SUBSET Hashes /\ swarm' = swarm /\ leases' = leases
    BY <2>1, <2>2 DEF SaveHashes
  <2> QED
    BY <2>2, <2>3, <2>4, AdmitInvisible
<1>2. CASE \E h \in Hashes, p \in Peers, at \in 0..now : DiscoverPeer(h, p, at)
  <2>1. PICK h \in Hashes, p \in Peers, at \in 0..now : DiscoverPeer(h, p, at)
    BY <1>2
  <2> DEFINE A == IF available > 0 /\ Eligible(h, at) THEN {h} ELSE {}
  <2>2. A \in SUBSET Hashes
    OBVIOUS
  <2>3. job' = Admit(A, at) /\ swarm' = swarm /\ leases' = leases
    BY <2>1 DEF DiscoverPeer, Admit, IndInv, TypeOK
  <2>4. \A g \in A : job[g].state \in {"none", "dormant"}
    BY DEF Eligible, RipeDormant
  <2> HIDE DEF A
  <2> QED
    BY <2>2, <2>3, <2>4, AdmitInvisible
<1>3. CASE BackfillPage
  <2> DEFINE A == IF HistoryQuota > 0 THEN HistoryAble \cap HistoryScanned ELSE {}
  <2>1. A \in SUBSET Hashes
    BY DEF HistoryAble, HistoryPage, PageOf
  <2>2. job' = Admit(A, now) /\ swarm' = swarm /\ leases' = leases
    BY <1>3 DEF BackfillPage, Admit, IndInv, TypeOK
  <2>3. \A h \in A : job[h].state \in {"none", "dormant"}
    BY DEF HistoryAble
  <2> HIDE DEF A
  <2> QED
    BY <2>1, <2>2, <2>3, AdmitInvisible
<1>4. CASE BackfillRecentPage
  <2> DEFINE A == RecentAble \cap RecentScanned
  <2>1. A \in SUBSET Hashes
    BY DEF RecentAble, RecentPage, PageOf
  <2>2. job' = Admit(A, now) /\ swarm' = swarm /\ leases' = leases
    BY <1>4 DEF BackfillRecentPage
  <2>3. \A h \in A : job[h].state \in {"none", "dormant"}
    BY DEF RecentAble
  <2> HIDE DEF A
  <2> QED
    BY <2>1, <2>2, <2>3, AdmitInvisible
<1> QED
  BY <1>1, <1>2, <1>3, <1>4

(* A claim issues a generation above every lease of its hash.              *)
LEMMA ClaimIssues ==
    ASSUME IndInv, NEW preferred \in ClaimClass, Claim(preferred)
    PROVE  Promise!Next
<1>1. PICK class \in ClaimClass : \E h \in DueIn(class) :
        /\ job[h].gen < MaxGen
        /\ job' = [job EXCEPT ![h] = Claimed(@)]
        /\ leases' = leases \cup {[hash |-> h, gen |-> Claimed(job[h]).gen]}
        /\ swarm' = swarm
  BY DEF Claim
<1>2. PICK h \in DueIn(class) :
        /\ job[h].gen < MaxGen
        /\ job' = [job EXCEPT ![h] = Claimed(job[h])]
        /\ leases' = leases \cup {[hash |-> h, gen |-> Claimed(job[h]).gen]}
        /\ swarm' = swarm
  BY <1>1
<1>3. h \in Hashes /\ job[h].state \in {"pending", "retry_wait"}
  BY DEF DueIn, Due
<1>4. job \in [Hashes -> JobRow] /\ job[h].gen \in Nat
  BY <1>3 DEF IndInv, TypeOK, JobRow
<1> DEFINE g == job[h].gen + 1
<1>5. Claimed(job[h]).state = "running" /\ Claimed(job[h]).gen = g /\ g \in 1..MaxGen
  BY <1>2, <1>4, TimeAssumption DEF Claimed
<1>6. ownerOf[h] = 0 /\ h \notin stored
  BY <1>3 DEF ownerOf, stored, IndInv, SucceededIffMetadata
<1>7. \A l \in leases : l.hash = h => l.gen < g
  <2>1. \A l \in leases : l.hash \in Hashes /\ l.gen \in Nat /\ l.gen <= job[l.hash].gen
    BY DEF IndInv, TypeOK, LeasesNumberedByRow, Lease
  <2> QED
    BY <1>4, <2>1
<1>8. ownerOf' = [ownerOf EXCEPT ![h] = g]
  <2>1. job'[h] = Claimed(job[h]) /\ \A k \in Hashes \ {h} : job'[k] = job[k]
    BY <1>2, <1>3, <1>4
  <2> QED
    BY <1>3, <1>5, <2>1 DEF ownerOf
<1>9. stored' = stored
  BY <1>2 DEF stored, HasMetadata
<1>10. leases' = leases \cup {[hash |-> h, gen |-> g]}
  BY <1>2, <1>5
<1> HIDE DEF g
<1>11. Promise!Issue(h, g)
  BY <1>6, <1>7, <1>8, <1>9, <1>10 DEF Promise!Issue
<1> QED
  BY <1>3, <1>5, <1>11 DEF Promise!Next

(* A retry releases the hash of its lease.                                 *)
LEMMA RetryReleases ==
    ASSUME IndInv, NEW l \in leases, NEW failed \in BOOLEAN, RetryJob(l, failed)
    PROVE  Promise!Next
<1>1. PICK delay \in RetryDelays(AttemptsAfter(job[l.hash], failed), failed) :
        job' = [job EXCEPT ![l.hash] = Retried(job[l.hash], failed, delay)]
  BY DEF RetryJob
<1>2. job \in [Hashes -> JobRow] /\ l.hash \in Hashes /\ swarm' = swarm /\ leases' = leases
  BY DEF IndInv, TypeOK, Lease, RetryJob
<1>3. /\ job'[l.hash].state # "running"
      /\ \A h \in Hashes \ {l.hash} : job'[h] = job[h]
  BY <1>1, <1>2 DEF Retried
<1>4. ownerOf' = [h \in Hashes |-> IF h \in {l.hash} THEN 0 ELSE ownerOf[h]]
  BY <1>3 DEF ownerOf
<1>5. stored' = stored
  BY <1>2 DEF stored, HasMetadata
<1>6. Promise!Release({l.hash})
  BY <1>2, <1>4, <1>5 DEF Promise!Release
<1> QED
  BY <1>2, <1>6 DEF Promise!Next

(* Saving an info settles its keys and nothing else.                       *)
LEMMA SaveSettles ==
    ASSUME IndInv, NEW key \in Hashes, NEW i \in Infos, key \in Keys[i], NEW at,
           SaveTables(key, i, at), leases' = leases,
           job'[key].state # "running",
           \A h \in Hashes \ {key} : job'[h] = Saved(key, i, at)[h]
    PROVE  /\ SavedKeys(i, key) \in SUBSET Hashes /\ key \in SavedKeys(i, key)
           /\ Promise!Settle(SavedKeys(i, key))
<1> DEFINE K == SavedKeys(i, key)
<1>1. K \in SUBSET Hashes /\ key \in K
  BY InfoAssumption DEF SavedKeys
<1>2. stored' = stored \cup K
  <2>1. swarm' = swarm \cup (K \X {i})
    BY DEF SaveTables
  <2> HIDE DEF K
  <2> QED
    BY <1>1, <2>1 DEF stored, HasMetadata
<1>3. \A h \in Hashes : job'[h].state = "running" => h \notin K /\ job'[h] = job[h]
  <2> SUFFICES ASSUME NEW h \in Hashes, job'[h].state = "running"
               PROVE  h \notin K /\ job'[h] = job[h]
    OBVIOUS
  <2>1. h # key /\ job'[h] = Saved(key, i, at)[h]
    OBVIOUS
  <2>2. Saved(key, i, at)[h] = IF h \in K \ {key} THEN AliasSettled(job[h], at) ELSE job[h]
    BY DEF Saved
  <2>3. AliasSettled(job[h], at).state # "running"
    BY DEF AliasSettled
  <2> HIDE DEF K
  <2> QED
    BY <2>1, <2>2, <2>3
<1>4. \A h \in Hashes \ K : job'[h] = job[h]
  BY <1>1 DEF Saved
<1> HIDE DEF K
<1>5. ownerOf' = [h \in Hashes |-> IF h \in K THEN 0 ELSE ownerOf[h]]
  BY <1>1, <1>3, <1>4 DEF ownerOf
<1>6. Promise!Settle(K)
  BY <1>2, <1>5 DEF Promise!Settle
<1> QED
  BY <1>1, <1>6 DEF K

(* A completion is the work of the current owner.                          *)
LEMMA CompleteFinishes ==
    ASSUME IndInv, NEW l \in leases, NEW i \in Infos, CompleteJob(l, i)
    PROVE  Promise!Next
<1>1. /\ job \in [Hashes -> JobRow] /\ now \in Time
      /\ l.hash \in Hashes /\ l.hash \in Keys[i] /\ leases' = leases
      /\ SaveTables(l.hash, i, now)
      /\ job' = [Saved(l.hash, i, now) EXCEPT ![l.hash] = Succeeded(job[l.hash], now)]
      /\ ownerOf[l.hash] = l.gen
  BY DEF IndInv, TypeOK, Lease, CompleteJob, Current, ownerOf
<1>2. Saved(l.hash, i, now) \in [Hashes -> JobRow]
  BY <1>1, SavedRows
<1>3. /\ job'[l.hash] = Succeeded(job[l.hash], now)
      /\ \A h \in Hashes \ {l.hash} : job'[h] = Saved(l.hash, i, now)[h]
  BY <1>1, <1>2
<1>4. job'[l.hash].state # "running"
  BY <1>3 DEF Succeeded
<1>5. /\ SavedKeys(i, l.hash) \in SUBSET Hashes /\ l.hash \in SavedKeys(i, l.hash)
      /\ Promise!Settle(SavedKeys(i, l.hash))
  BY <1>1, <1>3, <1>4, SaveSettles
<1>6. Promise!Finish(l, SavedKeys(i, l.hash))
  BY <1>1, <1>5 DEF Promise!Finish
<1> QED
  BY <1>5, <1>6 DEF Promise!Next

(* The catalogue backfill absorbs the other identity of a stored torrent.  *)
LEMMA CatalogAbsorbs ==
    ASSUME IndInv, NEW r \in uncatalogued, CatalogBackfill(r[1], r[2])
    PROVE  Promise!Next
<1> DEFINE k == r[1]
           i == r[2]
<1>1. r \in swarm /\ r \in Hashes \X Infos /\ r[1] \in Keys[r[2]]
  BY DEF IndInv, LeasesNumberedByRow, MetadataMatchesKey, TypeOK
<1>2. k \in Hashes /\ i \in Infos /\ k \in Keys[i] /\ <<k, i>> \in swarm
  BY <1>1
<1>3. job' = Saved(k, i, 0) /\ SaveTables(k, i, 0) /\ leases' = leases
  BY DEF CatalogBackfill
<1> HIDE DEF k, i
<1>4. k \in stored /\ HasMetadata(k)
  BY <1>2 DEF stored, HasMetadata
<1>5. job'[k] = job[k]
  BY <1>2, <1>3 DEF Saved
<1>6. job'[k].state # "running"
  BY <1>2, <1>4, <1>5 DEF IndInv, SucceededIffMetadata
<1>7. \A h \in Hashes \ {k} : job'[h] = Saved(k, i, 0)[h]
  BY <1>3
<1>8. /\ SavedKeys(i, k) \in SUBSET Hashes /\ k \in SavedKeys(i, k)
      /\ Promise!Settle(SavedKeys(i, k))
  BY <1>2, <1>3, <1>6, <1>7, SaveSettles
<1>9. Promise!Absorb(k, SavedKeys(i, k))
  BY <1>4, <1>8 DEF Promise!Absorb
<1> QED
  BY <1>2, <1>8, <1>9 DEF Promise!Next

(* A restart releases every hash.                                          *)
LEMMA RestartReleases ==
    ASSUME IndInv, NEW at \in Time, Restart(at)
    PROVE  Promise!Next
<1>1. swarm' = swarm /\ leases' = leases
  BY DEF Restart
<1>2. \A h \in Hashes : job'[h].state # "running"
  <2> TAKE h \in Hashes
  <2>1. job'[h].state = "succeeded" \/ job'[h] = Recovered(job[h], at)
    BY DEF Restart, Succeeded
  <2> QED
    BY <2>1 DEF Recovered
<1>3. ownerOf' = [h \in Hashes |-> IF h \in Hashes THEN 0 ELSE ownerOf[h]]
  BY <1>2 DEF ownerOf
<1>4. stored' = stored
  BY <1>1 DEF stored, HasMetadata
<1>5. Promise!Release(Hashes)
  BY <1>1, <1>3, <1>4 DEF Promise!Release
<1> QED
  BY <1>5 DEF Promise!Next

(* Every step of the store is a step of the promise or a stutter.          *)
LEMMA StepKeepsPromise ==
    ASSUME IndInv, [Next]_vars
    PROVE  [Promise!Next]_(Promise!vars)
<1>1. CASE \/ \E batch \in SUBSET Hashes \ {{}}, at \in 0..now : SaveHashes(batch, at)
           \/ \E h \in Hashes, p \in Peers, at \in 0..now : DiscoverPeer(h, p, at)
           \/ BackfillPage
           \/ BackfillRecentPage
  BY <1>1, AdmissionStutters
<1>2. CASE \E class \in ClaimClass : Claim(class)
  BY <1>2, ClaimIssues
<1>3. CASE \E l \in leases, failed \in BOOLEAN : RetryJob(l, failed)
  BY <1>3, RetryReleases
<1>4. CASE \E l \in leases, i \in Infos : CompleteJob(l, i)
  BY <1>4, CompleteFinishes
<1>5. CASE \E r \in uncatalogued : CatalogBackfill(r[1], r[2])
  BY <1>5, CatalogAbsorbs
<1>6. CASE \E at \in Time : Restart(at)
  BY <1>6, RestartReleases
<1>7. CASE Tick \/ UNCHANGED vars
  <2>1. job' = job /\ swarm' = swarm /\ leases' = leases
    BY <1>7 DEF Tick, vars, tables
  <2>2. ownerOf' = ownerOf /\ stored' = stored
    BY <2>1 DEF ownerOf, stored, HasMetadata
  <2> QED
    BY <2>1, <2>2 DEF Promise!vars
<1> QED
  BY <1>1, <1>2, <1>3, <1>4, <1>5, <1>6, <1>7 DEF Next

(* The job store implements JobLease, for any number of hashes, infos and  *)
(* peers and any limits: its SQL transactions never hand a hash to two     *)
(* workers, never reuse a generation and never finish without the lease.   *)
THEOREM StoreKeepsPromise == Spec => KeepsPromise
<1>1. IndInv /\ [Next]_vars => [Promise!Next]_(Promise!vars)
  BY StepKeepsPromise
<1> QED
  BY <1>1, InitPromise, Invariance, PTL DEF Spec, KeepsPromise, Promise!Spec
=============================================================================
