----------------------------- MODULE FetchJobs -----------------------------
(***************************************************************************)
(* The persistent metadata fetch jobs of the collector: the SQLite tables  *)
(* infohashes, fetch_jobs, peer_hints and swarm_metadata, and every        *)
(* transaction that collection/jobs, collection/records and                *)
(* collection/metadata_store run on them.                                  *)
(*                                                                         *)
(* One SQLite thread runs the transactions one after the other, so each    *)
(* action below is one whole transaction.  The interleaving that matters   *)
(* is between transactions: a worker holds a claim (hash, generation),     *)
(* called a lease here, over many of them, and its result may arrive late, *)
(* twice, after a restart, or after another worker settled the same        *)
(* torrent under its other identity.  `leases' remembers every lease ever  *)
(* handed out, and any of them may be presented at any later moment.       *)
(***************************************************************************)
EXTENDS Integers, FiniteSets, FiniteSetsExt

CONSTANTS
    Hashes,         \* swarm keys, positive naturals: SQL orders them as BLOBs
    Peers,          \* peer addresses, naturals for the (ip, port) order
    LegalPeers,     \* the addresses that legal_peer() accepts
    Infos,          \* verified metadata byte strings
    Keys,           \* Keys[i]: the swarm keys that i hashes to (v1 and v2)
    ValidHybrids,   \* the infos whose two layouts agree (metainfo::identities)
    LegacyRows,     \* rows that an upgraded database may already hold
    MaxActive,      \* fetch_limit
    RecentLimit,    \* RecentAdmission.limit; 0 is capacity mode
    RecentMs, HintTtl, DormantDelay, LocalRetry,
    Backoff,        \* Backoff[n]: the delays that may follow the n-th failure
    MaxAttempts,    \* MAX_FAILED_ATTEMPTS
    MaxHints,       \* MAX_PEER_HINTS
    PageSize,       \* rows of one backfill page
    MaxTime,        \* bound of the clock
    MaxGen          \* bound of the generation counter

ASSUME HashAssumption == Hashes \subseteq Nat \ {0} /\ IsFiniteSet(Hashes)
ASSUME PeerAssumption == Peers \subseteq Nat /\ IsFiniteSet(Peers)
                         /\ LegalPeers \subseteq Peers
ASSUME InfoAssumption == /\ Keys \in [Infos -> SUBSET Hashes]
                         /\ ValidHybrids \subseteq Infos
                         /\ LegacyRows \subseteq Hashes \X Infos
                         /\ \A r \in LegacyRows : r[1] \in Keys[r[2]]
ASSUME LimitAssumption == /\ MaxActive \in Nat \ {0}
                          /\ RecentLimit \in 0..MaxActive
                          /\ MaxAttempts \in Nat \ {0}
                          /\ MaxHints \in Nat \ {0}
                          /\ PageSize \in Nat \ {0}
ASSUME TimeAssumption == /\ RecentMs \in Nat /\ HintTtl \in Nat
                         /\ DormantDelay \in Nat /\ LocalRetry \in Nat
                         /\ \A n \in 1..MaxAttempts : Backoff[n] \subseteq Nat
                         /\ MaxTime \in Nat /\ MaxGen \in Nat

VARIABLES
    firstSeen,      \* infohashes.first_seen, or Never
    job,            \* fetch_jobs rows; state "none" when there is no row
    hint,           \* peer_hints.observed_at per hash and peer, or Never
    swarm,          \* swarm_metadata: which hash has which metadata
    uncatalogued,   \* metadata rows that the catalogue backfill must re-save
    now,            \* UTC milliseconds, shrunk
    cursor,         \* backfill_cursor of run_inner; 0 is None
    recentCursor,   \* recent_cursor of run_inner; NoCursor is None
    leases          \* every claim handed to a worker so far

tables == <<firstSeen, job, hint, swarm, uncatalogued>>
cursors == <<cursor, recentCursor>>
vars == <<firstSeen, job, hint, swarm, uncatalogued, now, cursor, recentCursor,
          leases>>

Never == -1
NoCursor == [at |-> Never, hash |-> 0]
States == {"none", "pending", "running", "retry_wait", "dormant", "succeeded"}
ActiveStates == {"pending", "running", "retry_wait"}
ClaimClass == {"Hint", "Recent", "Retry", "History"}
Time == 0..MaxTime
NoJob == [state |-> "none", attempts |-> 0, due |-> 0, updated |-> 0, gen |-> 0]
Lease == [hash : Hashes, gen : Nat]
Cursor == [at : Time \cup {Never}, hash : Hashes \cup {0}]

SatSub(a, b) == IF a > b THEN a - b ELSE 0

-----------------------------------------------------------------------------
(* Queries shared by the transactions.                                     *)

HasMetadata(h) == \E i \in Infos : <<h, i>> \in swarm

Active == {h \in Hashes : job[h].state \in ActiveStates}

(* The free slots of fetch_limit, saturating at zero.                      *)
available == SatSub(MaxActive, Cardinality(Active))

(* first_seen BETWEEN at - RECENT_MS AND at; both bounds matter because a   *)
(* restart may set the wall clock back.                                    *)
IsRecent(h, at) == firstSeen[h] # Never /\ at - RecentMs <= firstSeen[h] /\ firstSeen[h] <= at

HasFreshHint(h, at) ==
    \E p \in LegalPeers : hint[h][p] # Never /\ hint[h][p] >= at - HintTtl

(* Q, the recent first attempts that wait without a usable hint.           *)
FirstAttemptWaiting(at) ==
    {h \in Hashes : /\ IsRecent(h, at)
                    /\ job[h].gen = 0
                    /\ job[h].state \in {"pending", "retry_wait"}
                    /\ ~HasFreshHint(h, at)}

Freshness == RecentLimit # 0

(* The slots that history may never take, and what is left of each quota.  *)
Reserve == Min({RecentLimit, MaxActive - 1})
HistoryQuotaWithoutReserve == available
HistoryQuota == IF Freshness THEN SatSub(available, Reserve) ELSE available
RecentQuotaOfTotal(at) == available
RecentQuota(at) ==
    Min({available, SatSub(RecentLimit, Cardinality(FirstAttemptWaiting(at)))})

(* The rows that enqueue inserts or revives.                               *)
RipeDormant(h, at) ==
    job[h].state = "dormant" /\ job[h].updated <= at - DormantDelay
Eligible(h, at) ==
    ~HasMetadata(h) /\ (job[h].state = "none" \/ RipeDormant(h, at))

EnqueuedKeepsAttempts(row, at) ==
    [state |-> "pending", attempts |-> row.attempts, due |-> at, updated |-> at, gen |-> row.gen]
Enqueued(row, at) ==
    [state |-> "pending", attempts |-> 0, due |-> at, updated |-> at, gen |-> row.gen]

Admit(A, at) ==
    [h \in Hashes |-> IF h \in A THEN Enqueued(job[h], at) ELSE job[h]]

(* records::upsert_hash on every hash of H.                                *)
Observed(H, at) ==
    [h \in Hashes |->
        IF h \in H /\ (firstSeen[h] = Never \/ at < firstSeen[h])
        THEN at ELSE firstSeen[h]]

-----------------------------------------------------------------------------
Init ==
    /\ swarm \in SUBSET LegacyRows
    /\ firstSeen = [h \in Hashes |-> IF HasMetadata(h) THEN 0 ELSE Never]
    /\ job = [h \in Hashes |-> NoJob]
    /\ hint = [h \in Hashes |-> [p \in Peers |-> Never]]
    /\ uncatalogued = swarm
    /\ now = 0
    /\ cursor = 0
    /\ recentCursor = NoCursor
    /\ leases = {}

(* save_hashes_at: one segment of a sample batch, in an order the sampler  *)
(* chose.  Capacity mode admits while slots last, at the observation time; *)
(* freshness mode only revives dormant rows, at the processing time.       *)
SaveHashes(batch, observedAt) ==
    LET at == IF Freshness THEN now ELSE observedAt
        able == {h \in batch : Eligible(h, at)
                               /\ (Freshness => job[h].state = "dormant")}
    IN  /\ firstSeen' = Observed(batch, observedAt)
        /\ \E A \in SUBSET able :
              /\ Cardinality(A) <= available
              /\ A = able \/ Cardinality(A) = available
              /\ job' = Admit(A, at)
        /\ UNCHANGED <<hint, swarm, uncatalogued, now, cursors, leases>>

(* The MAX_PEER_HINTS most recently observed of a hash's hints.            *)
Precedes(hs, p, q) == hs[p] > hs[q] \/ (hs[p] = hs[q] /\ p < q)
KeepOldest(hs) ==
    [p \in Peers |->
        IF Cardinality({q \in Peers : hs[q] # Never /\ Precedes(hs, p, q)}) < MaxHints
        THEN hs[p] ELSE Never]
KeepMostRecent(hs) ==
    [p \in Peers |->
        IF Cardinality({q \in Peers : hs[q] # Never /\ Precedes(hs, q, p)}) < MaxHints
        THEN hs[p] ELSE Never]

(* The hint upsert keeps the later of the two observations.                *)
Announced(hs, p, at) == [hs EXCEPT ![p] = IF at > hs[p] THEN at ELSE hs[p]]

(* discover_peer: an announce for hash h from peer p, observed earlier.    *)
(* With no free slot only an active job may still gain a hint.             *)
DiscoverUnbounded(h, p, observedAt) ==
    /\ firstSeen' = Observed({h}, observedAt)
    /\ job' = IF Eligible(h, observedAt) THEN Admit({h}, observedAt) ELSE job
    /\ hint' = [hint EXCEPT ![h] =
                    KeepMostRecent(Announced(hint[h], p, observedAt))]
    /\ UNCHANGED <<swarm, uncatalogued, now, cursors, leases>>
DiscoverPeer(h, p, observedAt) ==
    /\ available > 0 \/ h \in Active
    /\ firstSeen' = Observed({h}, observedAt)
    /\ job' = IF available > 0 /\ Eligible(h, observedAt)
              THEN Admit({h}, observedAt) ELSE job
    /\ hint' = [hint EXCEPT ![h] =
                    KeepMostRecent(Announced(hint[h], p, observedAt))]
    /\ UNCHANGED <<swarm, uncatalogued, now, cursors, leases>>

-----------------------------------------------------------------------------
(* Backfill.  A page is scanned in order until the quota is used up, so a  *)
(* row is scanned when fewer than `quota' eligible rows lie before it.     *)

ScannedWithin(able, quota, before(_, _), r) ==
    Cardinality({e \in able : before(e, r)}) < quota

ByHash(a, b) == a < b
ByFirstSeen(a, b) ==
    firstSeen[a] < firstSeen[b] \/ (firstSeen[a] = firstSeen[b] /\ a < b)

(* The first PageSize rows of S.                                           *)
PageOf(S, before(_, _)) ==
    {h \in S : Cardinality({g \in S : before(g, h)}) < PageSize}
IsLast(h, S, before(_, _)) == h \in S /\ \A g \in S : g = h \/ before(g, h)

(* Where each scan goes on: behind its last row, or over again when the    *)
(* page was empty.                                                         *)
NextCursorStuck(c, scanned) ==
    IF scanned = {} THEN c = cursor ELSE IsLast(c, scanned, ByHash)
NextCursor(c, scanned) ==
    IF scanned = {} THEN c = 0 ELSE IsLast(c, scanned, ByHash)
NextRecentCursor(c, scanned) ==
    IF scanned = {} THEN c = NoCursor
    ELSE IsLast(c.hash, scanned, ByFirstSeen) /\ c.at = firstSeen[c.hash]

(* hints::cleanup_expired; one batch holds every hint of an instance.      *)
CleanupExpired ==
    [h \in Hashes |-> [p \in Peers |->
        IF hint[h][p] < now - HintTtl THEN Never ELSE hint[h][p]]]

(* backfill_page: the history scan by hash.  Without room it keeps the     *)
(* cursor; in freshness mode it passes over recent rows.                   *)
HistoryPage == PageOf({h \in Hashes : firstSeen[h] # Never /\ h > cursor}, ByHash)
HistoryAble == {h \in HistoryPage : /\ job[h].state = "none"
                                    /\ ~HasMetadata(h)
                                    /\ ~(Freshness /\ IsRecent(h, now))}
HistoryScanned ==
    {r \in HistoryPage : ScannedWithin(HistoryAble, HistoryQuota, ByHash, r)}

BackfillPage ==
    /\ IF HistoryQuota > 0
       THEN /\ job' = Admit(HistoryAble \cap HistoryScanned, now)
            /\ \E c \in Hashes \cup {0} :
                  NextCursor(c, HistoryScanned) /\ cursor' = c
       ELSE UNCHANGED <<job, cursor>>
    /\ hint' = CleanupExpired
    /\ UNCHANGED <<firstSeen, swarm, uncatalogued, now, recentCursor, leases>>

(* backfill_recent_page: the scan of the recent window by (first_seen,     *)
(* hash), in freshness mode only; a cursor that fell out of the window     *)
(* restarts at its lower bound.                                            *)
RecentStart ==
    IF recentCursor # NoCursor /\ recentCursor.at >= now - RecentMs
    THEN recentCursor ELSE [at |-> now - RecentMs, hash |-> 0]
RecentPage ==
    PageOf({h \in Hashes :
              /\ firstSeen[h] # Never
              /\ firstSeen[h] <= now
              /\ \/ firstSeen[h] > RecentStart.at
                 \/ firstSeen[h] = RecentStart.at /\ h > RecentStart.hash},
           ByFirstSeen)
RecentAble == {h \in RecentPage : job[h].state = "none" /\ ~HasMetadata(h)}
RecentScanned ==
    {r \in RecentPage : ScannedWithin(RecentAble, RecentQuota(now), ByFirstSeen, r)}

BackfillRecentPage ==
    /\ Freshness
    /\ RecentQuota(now) > 0
    /\ job' = Admit(RecentAble \cap RecentScanned, now)
    /\ \E c \in Cursor : NextRecentCursor(c, RecentScanned) /\ recentCursor' = c
    /\ UNCHANGED <<firstSeen, hint, swarm, uncatalogued, now, cursor, leases>>

-----------------------------------------------------------------------------
(* Claiming.                                                               *)

Due == {h \in Hashes : job[h].state \in {"pending", "retry_wait"} /\ job[h].due <= now}

ClassOf(h) ==
    IF job[h].gen > 0 THEN "Retry"
    ELSE IF HasFreshHint(h, now) THEN "Hint"
    ELSE IF IsRecent(h, now) THEN "Recent" ELSE "History"

DueIn(class) == {h \in Due : ClassOf(h) = class}

EarlierDue(g, h) == job[g].due < job[h].due \/ (job[g].due = job[h].due /\ g < h)

(* policy::order_for: the preferred class, then the borrow order.          *)
BorrowRank(class) ==
    CASE class = "Hint" -> 1 [] class = "Recent" -> 2
      [] class = "History" -> 3 [] class = "Retry" -> 4
ComesBefore(preferred, c, d) ==
    c # d /\ (c = preferred \/ (d # preferred /\ BorrowRank(c) < BorrowRank(d)))

ClaimedSameGeneration(row) ==
    [state |-> "running", attempts |-> row.attempts, due |-> row.due,
     updated |-> now, gen |-> row.gen]
Claimed(row) ==
    [state |-> "running", attempts |-> row.attempts, due |-> row.due,
     updated |-> now, gen |-> row.gen + 1]

(* claim_order: the first due row of the first class that has one.         *)
Claim(preferred) ==
    \E class \in ClaimClass : \E h \in DueIn(class) :
        /\ \A c \in ClaimClass : ComesBefore(preferred, c, class) => DueIn(c) = {}
        /\ \A g \in DueIn(class) : g = h \/ EarlierDue(h, g)
        /\ job[h].gen < MaxGen
        /\ job' = [job EXCEPT ![h] = Claimed(@)]
        /\ leases' = leases \cup {[hash |-> h, gen |-> Claimed(job[h]).gen]}
        /\ UNCHANGED <<firstSeen, hint, swarm, uncatalogued, now, cursors>>

-----------------------------------------------------------------------------
(* Results.  A lease is current while the row still runs its generation.   *)

CurrentByGeneration(l) == job[l.hash].gen = l.gen
Current(l) == job[l.hash].state = "running" /\ job[l.hash].gen = l.gen

RetryDelays(attempts, failed) == IF failed THEN Backoff[attempts] ELSE {LocalRetry}

(* retry_transition, for one of the delays that the jitter allows.         *)
AttemptsAfter(row, failed) == IF failed THEN row.attempts + 1 ELSE row.attempts
RetriedUncapped(row, failed, delay) ==
    [state |-> "retry_wait", attempts |-> AttemptsAfter(row, failed),
     due |-> now + delay, updated |-> now, gen |-> row.gen]
Retried(row, failed, delay) ==
    [state |-> IF AttemptsAfter(row, failed) >= MaxAttempts THEN "dormant" ELSE "retry_wait",
     attempts |-> AttemptsAfter(row, failed),
     due |-> now + delay, updated |-> now, gen |-> row.gen]

RetryJobIgnoringState(l, failed) ==
    /\ CurrentByGeneration(l)
    /\ \E delay \in RetryDelays(AttemptsAfter(job[l.hash], failed), failed) :
          job' = [job EXCEPT ![l.hash] = Retried(job[l.hash], failed, delay)]
    /\ UNCHANGED <<firstSeen, hint, swarm, uncatalogued, now, cursors, leases>>

(* retry_job; a lease that is not current changes nothing (Stale).         *)
RetryJob(l, failed) ==
    /\ Current(l)
    /\ \E delay \in RetryDelays(AttemptsAfter(job[l.hash], failed), failed) :
          job' = [job EXCEPT ![l.hash] = Retried(job[l.hash], failed, delay)]
    /\ UNCHANGED <<firstSeen, hint, swarm, uncatalogued, now, cursors, leases>>

(* metainfo::identities: a valid hybrid is filed under both its keys, any  *)
(* other info only under the key it was fetched with.                      *)
SavedKeys(info, key) == IF info \in ValidHybrids THEN Keys[info] ELSE {key}

Succeeded(row, at) ==
    [state |-> "succeeded", attempts |-> row.attempts, due |-> row.due,
     updated |-> at, gen |-> row.gen]

(* metadata_store::save on the job of another identity of the same info.   *)
AliasUntouched(row, at) == row
AliasSettled(row, at) ==
    IF row.state \in {"none", "succeeded"} THEN row
    ELSE [state |-> "succeeded", attempts |-> row.attempts, due |-> row.due,
          updated |-> IF at > row.updated THEN at ELSE row.updated, gen |-> row.gen + 1]

Saved(key, info, at) ==
    [h \in Hashes |-> IF h \in SavedKeys(info, key) \ {key}
                      THEN AliasSettled(job[h], at) ELSE job[h]]
SaveTables(key, info, at) ==
    /\ firstSeen' = Observed(SavedKeys(info, key), at)
    /\ swarm' = swarm \cup (SavedKeys(info, key) \X {info})
    /\ uncatalogued' = uncatalogued \ (SavedKeys(info, key) \X {info})

NoHints(H) ==
    [h \in Hashes |-> IF h \in H THEN [p \in Peers |-> Never] ELSE hint[h]]

(* complete_job: metadata, job rows and hints in one transaction.          *)
CompleteJob(l, info) ==
    /\ l.hash \in Keys[info]
    /\ Current(l)
    /\ SaveTables(l.hash, info, now)
    /\ job' = [Saved(l.hash, info, now) EXCEPT
                  ![l.hash] = Succeeded(job[l.hash], now)]
    /\ hint' = NoHints(SavedKeys(info, l.hash) \cup {l.hash})
    /\ UNCHANGED <<now, cursors, leases>>

(* catalog::backfill_one: re-save an inherited row, which files a valid    *)
(* hybrid under its second key as well.                                    *)
CatalogBackfill(key, info) ==
    /\ <<key, info>> \in uncatalogued
    /\ SaveTables(key, info, 0)
    /\ job' = Saved(key, info, 0)
    /\ hint' = NoHints(SavedKeys(info, key) \ {key})
    /\ UNCHANGED <<now, cursors, leases>>

-----------------------------------------------------------------------------
(* A new process: the clock is anchored anew, the cursors are lost, and    *)
(* recover_jobs returns the running rows before anything else runs.        *)
Recovered(row, at) ==
    IF row.state = "running"
    THEN [state |-> "pending", attempts |-> row.attempts, due |-> at,
          updated |-> at, gen |-> row.gen + 1]
    ELSE row
Restart(at) ==
    /\ \A h \in Hashes : job[h].state = "running" => job[h].gen < MaxGen
    /\ now' = at
    /\ job' = [h \in Hashes |->
                  LET row == Recovered(job[h], at)
                  IN  IF HasMetadata(h) /\ row.state # "none"
                      THEN Succeeded(row, row.updated) ELSE row]
    /\ cursor' = 0
    /\ recentCursor' = NoCursor
    /\ UNCHANGED <<firstSeen, hint, swarm, uncatalogued, leases>>

Tick ==
    /\ now < MaxTime
    /\ now' = now + 1
    /\ UNCHANGED <<tables, cursors, leases>>

Next ==
    \/ \E batch \in SUBSET Hashes \ {{}}, at \in 0..now : SaveHashes(batch, at)
    \/ \E h \in Hashes, p \in Peers, at \in 0..now : DiscoverPeer(h, p, at)
    \/ BackfillPage
    \/ BackfillRecentPage
    \/ \E class \in ClaimClass : Claim(class)
    \/ \E l \in leases, failed \in BOOLEAN : RetryJob(l, failed)
    \/ \E l \in leases, i \in Infos : CompleteJob(l, i)
    \/ \E r \in uncatalogued : CatalogBackfill(r[1], r[2])
    \/ \E at \in Time : Restart(at)
    \/ Tick

Spec == Init /\ [][Next]_vars

-----------------------------------------------------------------------------
(* Properties.                                                             *)

JobRow == [state : States, attempts : 0..MaxAttempts, due : Nat,
           updated : Time, gen : Nat]

(* The tables, cursors and leases keep the shape of their columns.         *)
TypeOK ==
    /\ firstSeen \in [Hashes -> Time \cup {Never}]
    /\ job \in [Hashes -> JobRow]
    /\ hint \in [Hashes -> [Peers -> Time \cup {Never}]]
    /\ swarm \subseteq Hashes \X Infos
    /\ uncatalogued \subseteq Hashes \X Infos
    /\ now \in Time
    /\ cursor \in Hashes \cup {0}
    /\ recentCursor \in Cursor
    /\ leases \subseteq Lease

(* A job row says succeeded exactly when swarm_metadata has a row for its  *)
(* hash: a torrent saved under one identity also settles the job of the    *)
(* other, and no admission path queues a hash whose metadata is stored.    *)
SucceededIffMetadata ==
    \A h \in Hashes :
        job[h].state # "none" => (job[h].state = "succeeded" <=> HasMetadata(h))

(* The active rows never exceed fetch_limit, whichever of the announce,    *)
(* sample, recent and history paths admitted them.                         *)
ActiveWithinLimit == Cardinality(Active) <= MaxActive

(* A row that may still be claimed has failures to spend, and a row sleeps *)
(* only when it spent them all: a revived row starts counting from zero.   *)
DormantIffExhausted ==
    \A h \in Hashes :
        /\ job[h].state \in ActiveStates => job[h].attempts < MaxAttempts
        /\ job[h].state = "dormant" => job[h].attempts = MaxAttempts

(* The three together, over late, repeated and crossing results of two     *)
(* keys of one torrent.                                                    *)
RowsAreConsistent == TypeOK /\ SucceededIffMetadata /\ DormantIffExhausted

(* Every job row has its infohashes row, without which claim_order's JOIN  *)
(* would never return it, and a row that was claimed keeps its lease on    *)
(* record: the rows in state running are exactly owned rows.               *)
RunningIsOwned ==
    \A h \in Hashes :
        /\ job[h].state # "none" => firstSeen[h] # Never
        /\ job[h].state = "running" => [hash |-> h, gen |-> job[h].gen] \in leases

(* What is stored for a key hashes to that key, also when it was filed      *)
(* there as the other identity of a hybrid.                                *)
MetadataMatchesKey == \A r \in swarm : r[1] \in Keys[r[2]]

(* Every lease was numbered by its row: no generation is still to come     *)
(* that some worker already holds.  What the catalogue still has to        *)
(* re-save is stored.                                                      *)
LeasesNumberedByRow ==
    /\ \A l \in leases : l.gen <= job[l.hash].gen
    /\ uncatalogued \subseteq swarm

(* The inductive invariant behind the theorems of FetchJobsProofs.         *)
IndInv ==
    /\ TypeOK
    /\ SucceededIffMetadata
    /\ DormantIffExhausted
    /\ RunningIsOwned
    /\ MetadataMatchesKey
    /\ LeasesNumberedByRow

(* No lease is charged with two remote failures: a late or repeated        *)
(* retry_job of a settled lease must not bring a hash closer to dormancy.  *)
OneFailurePerLease ==
    \A h \in Hashes :
        job[h].attempts <= Cardinality({l \in leases : l.hash = h})

(* The same while it runs: a running row still has the failure of its own  *)
(* lease to spend.                                                         *)
FailureBudget ==
    /\ IsFiniteSet(leases)
    /\ \A h \in Hashes :
          LET held == Cardinality({l \in leases : l.hash = h})
          IN  /\ job[h].attempts <= held
              /\ job[h].state = "running" => job[h].attempts < held

(* A lease that stopped being current stays so forever: a worker that lost *)
(* its claim to a retry, a restart or an alias can never write again.      *)
LeaseNeverRevives ==
    [][\A l \in leases : Current(l)' => Current(l)]_vars

(* A job that succeeded is never queued, run or put to sleep again.        *)
SucceededIsFinal ==
    [][\A h \in Hashes :
        job[h].state = "succeeded" => job'[h].state = "succeeded"]_vars

(* A history page that admits anything leaves the reserve for first        *)
(* attempts free (freshness mode).                                         *)
HistoryLeavesReserve ==
    [][Freshness /\ Active' # Active /\ BackfillPage
        => Cardinality(Active') <= MaxActive - Reserve]_vars

(* A recent page never fills the first-attempt buffer beyond its limit.    *)
RecentBufferHolds ==
    [][Active' # Active /\ BackfillRecentPage
        => Cardinality(FirstAttemptWaiting(now)') <= RecentLimit]_vars

(* Both scans leave room for what has not been tried yet.                  *)
ScansLeaveRoom == HistoryLeavesReserve /\ RecentBufferHolds

(* An announce evicts the oldest hints: what it drops was not seen later   *)
(* than anything it keeps.                                                 *)
NewestHintsKept ==
    [][\A h \in Hashes, p \in Peers, q \in Peers :
        (/\ hint[h][p] # Never /\ hint'[h][p] = Never
         /\ hint'[h][q] # Never)
        => hint[h][p] <= hint'[h][q]]_vars

(* Every discovered hash is admitted in the end, wherever the scans stand  *)
(* when it is discovered: behind the cursor, in the recent window, or      *)
(* ageing out of it.                                                       *)
Waiting(h) == firstSeen[h] # Never /\ job[h].state = "none" /\ ~HasMetadata(h)
WaitingIsAdmitted == \A h \in Hashes : Waiting(h) ~> ~Waiting(h)

(* run_inner awaits both scans on every tick of its one-second interval,   *)
(* and the process is not restarted forever, which would reset the cursors *)
(* each time.                                                              *)
FairSpec ==
    /\ Spec
    /\ WF_vars(BackfillPage) /\ WF_vars(BackfillRecentPage) /\ WF_vars(Tick)
    /\ <>[][\A at \in Time : ~Restart(at)]_vars

-----------------------------------------------------------------------------
(* The owner of a hash is the generation of its running row.               *)
ownerOf == [h \in Hashes |-> IF job[h].state = "running" THEN job[h].gen ELSE 0]
stored == {h \in Hashes : HasMetadata(h)}
Promise == INSTANCE JobLease WITH Generations <- 1..MaxGen,
                                  owner <- ownerOf, issued <- leases, done <- stored

(* The store keeps the promise of JobLease: claims, retries, completions,  *)
(* aliases and restarts, in any order, hand out only fresh generations of  *)
(* hashes without metadata, and only a current lease finishes a hash.      *)
KeepsPromise == Promise!Spec

=============================================================================
