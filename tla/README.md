# bt-sniffer: TLA+ models and proofs

bt-sniffer listens to the BitTorrent DHT, collects info-hashes by sampling
nodes (BEP 51) and by receiving announces, fetches the metadata of each torrent
from its peers, and stores everything in SQLite. This directory holds TLA+
models of the parts of the program that carry its state, TLC configurations
that check them, and proofs for TLAPS. `PROJECT.json` maps every definition to
the source lines it stands for.

    tlc -workers 2 -config Collector.cfg MCCollector      # one run
    tlapm FetchJobsProofs.tla                             # one proof module

## 1. Inventory

Paths are relative to `src/src/`.

| Component | State | Operations | Talks to |
|---|---|---|---|
| Fetch job store: `collection/jobs`, `records.rs`, `store.rs` | `infohashes`, `fetch_jobs` (state, attempts, due time, generation), `peer_hints` | save a sampled batch, accept an announce, two backfill scans, claim, complete, retry, defer, recover at start | storage thread; called by the collector and the sample consumers |
| Metadata store: `collection/metadata_store.rs`, `metainfo.rs` | `metadata`, `swarm_metadata`, catalogue rows | save verified metadata under one or two identities, re-save old rows | job store, in the same transaction |
| Claim policy: `collection/jobs/policy` | the turn in an eight-slot rotation | order the four classes of due jobs, advance | claim |
| Sampling backpressure: `collection/backpressure.rs` | three pause reasons, recovery start, paused time | update, account, log | collector tick; samplers |
| Collector: `collection/mod.rs`, `scheduler.rs`, `lifecycle.rs` | workers, claims, ingress channel, pause and cancel flags | select loop, pause, finish | workers, nodes, storage, session |
| Ingest: `collection/ingest` | batch and offset in it | save segments, retry at the end | sampler channel, storage |
| Storage thread: `storage/mod.rs` | bounded queue, byte semaphore, lock file | open, submit, execute, shutdown | every caller of the database |
| Session: `app/session` | fault watch cell, supervised tasks, stages of shutdown | publish, next_fault, task ends, shutdown | all long-lived tasks |
| Metadata worker: `collection/worker.rs`, `candidate_selector`, `tcp_limits.rs` | hints, candidates, stage of the job; a semaphore per address | one job under a deadline; a ticket per connection | lookup, peer sessions |
| Peer lookup: `collection/lookup.rs`, `dht/shortlist.rs` | shortlist per address family, peers found, bounded channel | iterative get_peers over both nodes | dispatchers, worker |
| Peer sessions: `collection/peer` | stage, requested and received pieces, deadlines | handshake, extension handshake, fetch, verify | TCP |
| DHT dispatcher: `dht/dispatcher` | commands, queue in front of the budget, pending queries, maintenance lookup, recovery of saved contacts, identity | event loop | sockets, all DHT tables |
| Transactions: `dht/transaction` | pending queries, wrapping 32-bit identifier | register, complete, cancel, expire | dispatcher |
| Sampler and cooldowns: `dht/dispatcher/sampler`, `dht/persistence/cooldown.rs` | reservation, ready request, settlements, generation | reserve, send, settle, abandon, restore | storage, dispatcher |
| Tokens, peer store: `dht/token`, `dht/peer_store` | two secrets; a map and two sorted indexes of peers; cached sample | rotate, issue, validate; announce, expire, look up, sample | dispatcher |
| Routing table: `dht/routing` | buckets of contacts with their status | observe answers, failures and queries; split, probe, replace; change of identifier | dispatcher |
| Traffic budget: `dht/traffic` | limiters, table of IPs, verification permits | probe and spend, admit what comes in, permits | dispatchers of all nodes |
| Identity: `dht/security.rs`, `dht/persistence/identity.rs` | row on disk, identity in memory, votes on the external address | load or create, vote, change | storage, dispatcher |
| Application and bootstrap: `app/mod.rs`, `app/bootstrap` | stage of the application; resolved addresses and pings of a round | open, run, shut down; resolve and ping until a neighbour is good | session, dispatchers |
| Observation and monitor: `observation`, `monitor`, `web/src/lib/observation` | bounded history, spans under way, connections and streams, the client's position | append, snapshot, stream, reconnect, close | every component, as producer |
| Catalogue reads, diagnostics, configuration, migrations, codecs, the rest of `web/` | | read, report, parse | |

What is hard here, and cannot easily be tested:

* One SQLite thread runs transactions one by one, but a *claim* lives over many
  of them. Results arrive late, twice, after a restart, or after another worker
  stored the same hybrid torrent under its other identity.
* A future may be dropped at every `await`. The storage call it waited for may
  have run, may still run, or never will.
* The collector reads a flag, awaits, and acts; in between, workers end, nodes
  announce, the session stops it or publishes a fault.
* The session learns of faults through a cell that holds only the latest one,
  inside a future that the application drops whenever another branch wins.
* Admission has several quotas (slots, reserve, recent buffer) that several
  paths fill, and cursors that must come round.
* Wall clocks move backwards.
* A node's loop starts queries that end much later, in the queue, at the
  network or by a deadline. Until then each is counted in several places (the
  recovery, the maintenance lookup, a probe's key, a verification permit), and
  all of them must hear of its end, whichever way it ends.
* Between such a query and its answer the tables it was made for go on changing.

`PROJECT.json` lists the hazards line by line with the properties that cover
them.

## 2. Modules

| Module | Models | EXTENDS / INSTANCE |
|---|---|---|
| `FetchJobs` | job store and metadata store | `JobLease` through the refinement mapping `Promise` |
| `JobLease` | what the job store promises its workers | |
| `FetchJobsProofs` | proofs about `FetchJobs`, the refinement included | `FetchJobs` |
| `ClaimPolicy` | rotation of the claim classes | |
| `Backpressure` | pause reasons and the tick that drives them | |
| `Collector` | collector task, its workers and the ingress | |
| `CollectorProofs` | proofs about the collector and what it decides with | `Collector`, `ClaimPolicy`, `Backpressure` |
| `StorageQueue` | storage thread and queue | |
| `SampleIngest` | consumer of one node's sampled batches | |
| `Worker` | one claimed job: hints, lookup, attempts, outcome | `Shortlist`, `Gather` |
| `Shortlist` | the rule that both iterative lookups share | |
| `Gather` | two loops that take some of a list | |
| `TcpLimits` | one connection per IP | |
| `QueueProofs` | proofs about everything that stands in a line | `StorageQueue`, `SampleIngest`, `TcpLimits` |
| `PeerSession` | one attempt with one peer | |
| `Session` | supervision and shutdown | |
| `SessionProofs` | proofs about both kinds of session, the bootstrap rounds and the job of a worker | `Session`, `PeerSession`, `Bootstrap`, `Worker` |
| `Bootstrap` | the application around the session, and the bootstrap tasks | `Gather` |
| `Queries`, `QueriesProofs` | a node's outgoing queries: callers, queue, transactions, answers, recovery | |
| `Maintenance` | the find_node lookup of a node | `Shortlist` |
| `Routing` | routing table, bucket probes, reverse pings | |
| `RoutingProofs` | proofs about the table and the lookup that fills it | `Routing`, `Maintenance` |
| `Tokens` | write tokens | |
| `PeerStore` | announced peers, their indexes and samples | |
| `Traffic` | the shared budget and the verification permits | |
| `Identity` | the node's identity on disk and in memory | |
| `TablesProofs` | proofs about what a node keeps for others and about itself, its budget and its monitor | `Tokens`, `PeerStore`, `Identity`, `Traffic`, `Monitor` |
| `Sampler`, `SamplerProofs` | sampler of one node with its durable cooldowns | |
| `Monitor` | history of events, its streams and a client | |
| `MCFetchJobs`, `MCCollector`, `MCSession`, `MCQueries`, `MCRouting` | constants of the TLC runs | the module after the prefix |
| `MCTables`, `MCComponents`, `MCProgress` | several components in one run, see 3 | their components |

### FetchJobs

An action is one transaction, including everything it writes. `job[h]` is the
row of `fetch_jobs` (state `"none"`: no row); `hint[h][p]` the time in
`peer_hints`; `swarm` the pairs of `swarm_metadata`. `cursor` and
`recentCursor` are the local variables of `run_inner`, lost by `Restart`. The
clock `now` moves in both directions. `leases` is a history variable: every
pair (hash, generation) that was ever handed to a worker; any of them may be
presented to `CompleteJob` or `RetryJob` at any later time, which
covers late and repeated calls and those that survive a restart. Metadata is
an element of `Infos`; `Keys` says what it hashes to and `ValidHybrids` whether
`metainfo::identities` accepts both identities. `LegacyRows` are rows of an
upgraded database whose second identity is not filed yet. Deferral counters and
observation events are left out.

### JobLease

Owner, leases, finished hashes: at most one owner; generations grow; only the
owner (or an upgrade that recognises a stored torrent) finishes; finished
hashes are not handed out. The mapping takes the generation of a running row as
the owner and `swarm`'s hashes as finished.

### ClaimPolicy

`due[c]` counts the due jobs of each class, which the store changes at will;
`passed[c]` is a history variable that counts claims since class `c` was last
served or empty.

### Backpressure

The code compares UTC readings; the module keeps their ages. `recent` and
`active` are the counts in the database. `calm` (age of the last high reading)
and `stopped` (how long the nodes really did not sample) are history variables
that the properties compare the code's own figures with. All ages saturate at
`Cap`.

### StorageQueue

Byte permits, place in the channel, execution and reply are separate steps, and
a caller may drop its future between any two. The thread may fail to open,
panic inside a command, or reach the shutdown barrier with commands behind it.
Each caller makes one call. A call of no bytes stands in the line for permits
like any other, though the semaphore grants it at once.

### Collector

`pc` is the await at which the collector stands. A database call succeeds,
fails without effect, or commits and loses its answer. `cycles % 5` and
`cycles % 60` are choices. The select draws its branches at random, so each
ready branch may win. `run_job` looks at the cancellation first, so a worker
that is busy when it is cancelled ends as a local failure. `Workers::next`
turns `Outcome::Control` into an error and the collector remembers the claim as
interrupted. `PublishFault` stands for the session's `publish`; the collector
subscribes at the end of `Collector::new` and so, on purpose, never hears of an
earlier fault. Clock errors are left out: the clock is anchored when the
collector is built, recovery has already used it, and it fails only beyond the
range of 64-bit milliseconds.

### SampleIngest

A batch of the sampler is saved in segments; a save succeeds, fails, or commits
unheard. After an error the shutdown runs the consumer again. An empty batch
does not fail: for it only the conversion of its time could, beyond the range
of 64-bit milliseconds.

### Session

`current` and `unread` are the watch cell. `BeginPause` and `EndPause` enclose
the await of `next_fault` on the nodes and `DropNextFault` is the loss of that
future. `stage` walks through `shutdown_inner`; `Deadline` may cut it at any
stage. Startup is its result, the set `Started`.

### Sampler

One node's sampler, the part of the dispatcher that carries its requests, and
`sampling_cooldowns`. A request goes from `reserving` (the database is asked)
to `ready`, to the dispatcher's queue, to `pending` (sent), and leaves a
settlement or a withdrawal in `settling`. `mem` is the sampler's own `ids` and
`ips`, `db` the table. All deadlines are kept as the time left, so a state has
no absolute clock; within a run memory and table follow one clock (`Clock` is
anchored once), and over a restart the wall clock moves by one of `Shifts`.
`mine` stands for the comparison of a reservation's generation with the
sampler's. A settlement is executed and heard in one step, or fails with or
without effect: nothing reads its rows in between, since no reservation starts
while one is owed. A reservation is executed and heard in two steps, because
stops, starts and changes of identity fall in between. Rows that are settled
lose their token, which nothing compares again. Which candidate is picked, send
spacing, rounds, the traffic budget and failure counts are abstracted: they
choose or delay a request. A token comes from the finite set `Leases`, and none is
given while all are in use (`TokenLeft`): the code draws 128 random bits. `quiet` is a history variable: how long, by the
answers, cancellations and crashes so far, a key must still be left alone.

### Worker, Shortlist, TcpLimits, PeerSession

`Worker` is `run_job` with the lookup it polls. The lookup has no task of its
own: it moves while `run_job` waits, and both selects look at it first, so the
module lets nothing else happen once the lookup has a result. `family[f]` is
the search of one address family (shortlist, queries, addresses already
asked); `peers`, `sent` and `limited` are what the searches share. What an
answer adds to `peers` also goes to the channel. A node is
its distance to the hash, so `Shortlist!closest_valid` is a set of numbers.
What an attempt comes to is a free choice here and the subject of
`PeerSession`.

`TcpLimits` keeps the table of weak semaphores: an entry is alive as long as
some ticket holds its semaphore, and `DropTicket` removes it with the last one.

In `PeerSession` the peer may send any frame at any time, truthful or not, and
the connection may break. Sizes are blocks; contents are the true block or
another one. The clock stops at a deadline until its timeout was taken, as the
code's `timeout_at` polls before it reads on. `honest` and `progress` are
history variables.

### Queries

One task runs the loop, as `pc` shows: an event, the change of identity if one
is due, the scan of the queue from `index`, one step of the recovery. A query
is named by who asks: a caller or a saved contact. It is in `commands`, in
`queued`, or in `pending` with its transaction. `next_counter` is the code's
wrapping counter, taken modulo `IdSpace`. `net` holds datagrams; the network
delivers one any number of times or never, and strays come from anywhere.
Deadlines, the budget and the validity of a matched answer are free choices.
`draw` numbers transactions so that `crossed` can record an answer that was
taken for another query's; `sent`, `crossed` and `judged` are history
variables. Sampling requests use the same queue and are in `Sampler`,
maintenance in `Maintenance`, probes and reverse pings in `Routing`. The answer
to a `get_peers` for an address that the policy or the family refuses is left
out: its only caller, the lookup of a job, has filtered such addresses before.

### Maintenance

The lookup is advanced after each event of the loop. Its queries end by an
answer, by a failure or unsent; a refusal by the traffic budget is `refused`,
an address the policy rejects `rejected`. The routing table is the set of
contacts it offers. `node` says where a candidate is and whether the table has
verified that; `Claims` are what the table and the answers may say, so that two
nodes may be claimed at one address and a claim be put right later. An answer
does three things in one step, as `complete_success` does: its query ends, the
nodes it names join the candidates or correct an untried one, and if there are
more than `max_candidates` (256) the untried ones that are farthest go (`Keep`).

### Routing

An identifier is the sequence of its bits and a range of identifiers the bits
they begin with, so that `contains` compares bit by bit like
`BucketPrefix::contains`. A contact's status is computed from failures and one bit of recency, as
`status` computes it from times; the code's order of probes (oldest first) is
left open. `probes` are queries under way and `bucket_probes` their keys, kept
apart because the code keeps them apart. Reverse pings likewise. A change of
identity rebuilds the table.

### Tokens, PeerStore, Traffic, Identity

`Tokens`: a token is the pair of sender and key. `PeerStore`: hashes and
addresses are numbers, because the sorted indexes order ties by them; a caller
with a good or a bad token is a free choice. `Traffic`: a limiter is the part
of its burst that is used up; an operation tests all limiters it needs and
then spends. `Identity`: an identifier is an address it fits and a draw. The
row is written before memory changes, the process may die in between, and the
wall clock may be earlier at the next start. Time goes on while the node waits
for its sampler and for the storage thread, and the pause counts from the moment
before these waits, as the code takes `now` there; without a snapshot of its
contacts (`SnapshotFails`) the node stays as it is. `clean` of `Traffic` may
come at any time, where the code looks once a second: entries are lost at least
as early as there. Time in all four is relative or
bounded, by `MaxTime` in `Tokens` and by `MaxClock` in `PeerStore`.

### Bootstrap

`app` is the stage of `run_prepared`; each node's task goes from the look at
the table (`"status"`) to resolving, pinging and the verdict of a round. An
answer of the node itself that its queue is full is not a failure of the seed.
Sleeps end at some time and have no length.

### Monitor

The history is bounded by count and bytes. A stream sends pages after the last
number it sent; a client begins with the snapshot, follows the stream, and
comes back with its position, possibly one of an earlier process. `got` and
`from` are history variables. A stream's wake-up by a new event is part of its
wake-up by the next snapshot, which is never more than a second away.

## 3. Runs

A module is checked alone or together with others in `MCTables`,
`MCComponents` and `MCProgress`. Components that share no state in the model
need no product: there, `part` is chosen once and says which component moves
while the others rest in their initial states, so the states of such a run are
the sum of the states of its components. A property of one component is
checked in all states of that component. Where components do share state they
are in one module: the workers' claims in `Collector`, the lookup in `Worker`,
callers and recovery in `Queries`, fault cell and tasks in `Session`. Modules
that are extended together have names of their own for initial state, next
step and specification (`StoreInit`, `StoreNext`, `StoreSpec`), and their
constants are in the `.cfg`.

| Run | Question | Bounds and why they are enough |
|---|---|---|
| `lease` | Do late, repeated and crossing results keep jobs, metadata and leases consistent (`RowsAreConsistent`, `OneFailurePerLease`), does the store implement `JobLease` (`KeepsPromise`), and do both scans leave the room they must (`ScansLeaveRoom`)? | Two keys, one torrent that has both and one that has one, an inherited row, two attempts until a row sleeps, three generations: two claims of one key and a third after the row is used up; two slots, one of them reserved; announces are left to `hints` |
| `hints` | Do announces, samples and backfill respect one slot (`ActiveWithinLimit`), and are the newest hints kept (`NewestHintsKept`)? | Two keys for one slot; two peers, one of them not dialable, for one hint; three instants, so hints expire and arrive out of order; an info whose layouts differ |
| `backfill` | Is every waiting hash admitted in the end (`WaitingIsAdmitted`)? | Pages of one row for three hashes, so both cursors wrap. Slots must remain free for this to hold, so no row is claimed (`MaxGen = 0`) and there are seven slots |
| `collector` | Are claims, fetched metadata and announces looked after however the collector ends (`NothingIsLost`), does it stop in order, get its workers back, and end (`StopsInOrder`, `PausedQuiesces`, `StopEnds`)? | The two keys of one torrent, of which one is announced, and two workers: both keys at work at once, each completing the other. For any number of keys and workers the first two are proved |
| `session` | Does the shutdown end without its deadline (`ShutdownEnds`)? | One node with collector, catalogue, snapshot writer and all other tasks, one storage error |
| `session_fatal` | Does a fatal fault end the session? **It does not**, see 5 | One node, one storage error |
| `queries` | Is every query in exactly one place (`EveryQueryHasItsPlace`), is what callers hear true (`AnswersAreTrue`), and does everything leave the books (`BooksAreCleared`)? | Two callers at one address and a contact at another; three transactions of which one is reserved, four identifiers, so that the counter comes round while queries are pending; a channel of one command; one change of identity |
| `queries_snapshot` | Are unverified contacts in the exit snapshot? **Not all**, see 5 | As `queries`, without fairness |
| `tables` | See the list below | Per component in `MCTables` and `Tables.cfg`: three bits of identifiers, buckets of two for four nodes of which three share a half, two probes at a time; tokens over three periods; three hashes and addresses for less room; four networks for three votes and a majority of two; three IPs for a table of two; a history of two events, pages of one, three events of which one weighs two |
| `routing_duplicate` | Is a node in the table once? **Not always**, see 5 | As the routing part of `tables` |
| `components` | See the list below | `MCComponents` and `Components.cfg`: three ids and addresses for two cooldown records of each kind, one id with two addresses and one address with two ids, delays of one and two, the wall clock moving by one either way; at most two due jobs per class; three blocks with a window of two, five frames; two remote nodes at one address and one of the other family, four hints of which one is repeated and one refused, three attempts; four attempts at two IPs; two interchangeable nodes (hence the symmetry) and two storage errors |
| `progress` | See the list below | `MCProgress` and `Progress.cfg`: four callers of which two do not fit together and one never fits, a queue of two; a limit of five jobs with one worker, which keeps all marks apart; batches of none, one less than a segment, a segment, and two and a half; four nodes of which a lookup remembers three, so that an answer names one too many while two are in flight, the nearest claimed at the address of the next until the table corrects it, two queries at a time and three in all, one refusal, and a retry delay that does not grow, as sleeps have no length in the model; two seeds that share an address and resolve to more than is taken, two pings at a time |

What the three compound runs check:

* `tables`: buckets partition the identifiers, hold what belongs to them and
  can always be probed again (`TableIsKept`), and only a bad contact ever makes
  room (`OnlyBadMakeRoom`); tokens live between one and two periods
  (`TokenLifetime`); map and indexes of the peer store agree (`IndexesAgree`),
  samples never name an expired hash (`SamplesAreCurrent`); the node is who the
  disk says and changes rarely (`IdentityIsKept`); a stranger is verified
  rarely and permits come back (`VerificationsAreRare`); a stream skips no
  event silently and shows no ended span (`StreamsAreFaithful`).
* `components`: no node is sampled early (`NoEarlySample`), the sampler never
  asks what the table refuses and settles everything at an orderly end
  (`MemoryAgreesWithTable`); no class of jobs is starved (`NoClassIsStarved`);
  peers are blamed and accepted for a reason and transfers do not stall
  (`PeersAreJudgedFairly`); a job ends for a reason and is charged fairly
  (`JobsEndForAReason`); one connection per IP (`OneConnectionPerIp`); storage
  faults are survivable and pause sampling (`FaultsAreContained`); an orderly
  end is complete (`OkIsComplete`).
* `progress`: permits, answers and confirmations of the storage thread are
  true (`StoreIsTruthful`) and nobody hangs on it, nor does its lock
  (`StoreLetsGo`); the pause follows the verdict, is accounted for and ends
  (`PauseIsJust`, `QuietResumes`); saved means saved and the consumer
  ends (`SamplesAreSaved`, `ConsumerEnds`); a maintenance lookup
  counts exactly its queries under way, whoever is cut off, asks no address
  twice, and ends (`LookupIsSound`); bootstrap rounds back off for a reason, go
  on, and a lost node ends the application (`RoundsAreHonest`,
  `BootstrapPerseveres`).

What these properties do not tell apart: a caller's place comes back at once by
`cancel_fetch_queries`, but `BooksAreCleared` would also hold if only the
deadlines gave it back. Likewise `StopsInOrder` sees that a paused collector
claims nothing; after a stop a tick may still claim, and what counts then is
that everything claimed is handed back.

`CHECK_DEADLOCK FALSE` appears where the component really stops: a closed
thread, an ended collector, session, consumer, job or application. In `Sampler`
a restart is always possible, so the check would say nothing.

Fairness, each with its reason in the code:

* `FetchJobs`: both scans run on every tick of the one-second interval, the
  clock advances, and the process is not restarted forever (a restart resets
  the cursors).
* `Backpressure`: the interval ticks and the loop serves it.
* `StorageQueue`: the runtime polls ready futures and the thread takes
  commands. Dropping, panicking and shutting down are not fair.
* `Collector`: every await returns, a worker has a deadline; strong fairness
  for the stop and worker branches, because `tokio::select!` starts at a random
  branch, so one that is ready again and again is taken.
* `SampleIngest`: the database answers and the consumer is polled; no save has to fail.
* `Session`: nodes run their commands, tasks that were told to stop do so, the
  supervisor is polled. The deadline is not relied upon.
* `Queries`: the loop runs on; strong fairness for the branches of its select,
  for the same reason as in `Collector`, and for the deadlines of queue and
  transactions, because time passes. Nothing is assumed of network, budget and
  callers.
* `Maintenance`: the loop turns, a node in service keeps having other events, a
  query ends at the latest by its timeout (`BooksAreCleared`), and transactions
  become free again, hence strong fairness of a full take.
* `Bootstrap`: the runtime polls each task and the application; a ping ends at
  the latest by its timeout.

In `MCProgress` the same fairness is stated for the part that moves.

## 4. Proofs

All theorems hold for every value of the constants that satisfies the named
assumptions of `FetchJobs` (`HashAssumption`, `PeerAssumption`,
`InfoAssumption`, `LimitAssumption`, `TimeAssumption`), of `ClaimPolicy`
(`DueAssumption`), of `Tokens` (`PeriodAssumption`), of `Collector`
(`JobAssumption`, `ConcurrencyAssumption`), of `StorageQueue`
(`CallerAssumption`, `CapacityAssumption`), of `Sampler`
(`ContactAssumption`, `DelayAssumption`, `LimitAssumption`), of `Queries`
(`AskerAssumption`, `LimitAssumption`: there are more identifiers than
transactions at a time), of `Routing` (`WidthAssumption`, `NodeAssumption`), of
`Maintenance` (`CandidateAssumption`: any claims about the candidates), of
`Session` (`NodeAssumption`, `ErrorAssumption`, `FaultAssumption`,
`StartedAssumption`: every node has a dispatcher), of `SampleIngest`
(`IngestAssumption`: a segment is not empty), of `Backpressure`
(`PressureAssumption`), of `TcpLimits` (`AttemptAssumption`), of `PeerStore`
(`StoreAssumption`: no limit is zero), of `Identity` (`IdentityAssumption`), of
`Traffic` (`TrafficAssumption`), of `Monitor` (`PageAssumption`: a page has room
for an event), of `PeerSession` (`PeerAssumption`), of `Bootstrap`
(`BootAssumption`: there is a host name) or of `Worker` (`JobAssumption`: the
channel is as long as the list of peers, both 32 in the code). Beyond types they
ask only for what the program's constants and configuration guarantee. TLC evaluates them in the runs of those
modules.

`FetchJobsProofs` shows that `IndInv` is inductive (`InitIndInv`,
`NextIndInv`, `Invariance`): types; a row has succeeded exactly when metadata
is stored; a row sleeps exactly when its attempts are used up; a running row
has a lease on record; what is filed under a key hashes to it; and no lease
has a generation above that of its row. None of the first five is inductive
alone. For instance, that a row with metadata has succeeded needs
`MetadataMatchesKey` when a hybrid settles its other identity, and fencing
needs `LeasesNumberedByRow`: without it a claim could number itself with a
generation that some worker still holds. One lemma covers the four admission
paths and one the two ways to save metadata. From `IndInv` follow

* `TypeCorrect`, `SucceededMatchesMetadata`, `DormancyMatchesAttempts`, and the
  three together as `RowsStayConsistent`;
* `Fencing`: a lease that is not current never becomes current again;
* `SuccessIsFinal`: a succeeded row stays so;
* `LimitHolds`: the active rows never exceed the limit, which also needs that
  every path counts the active rows before it adds any;
* `FailuresAreLeased`: a row counts no more failures than it handed out leases.
  This is not inductive, since a failure raises the count and hands out nothing;
  `FailureBudget` adds that a running row has counted one failure less;
* `RoomIsLeft`: the history scan leaves its reserve free, and a page of the
  recent scan keeps the buffer of rows not yet tried within its limit;
* `NewestHintsSurvive`: an announce drops no hint seen later than one it keeps.

The last part proves `StoreKeepsPromise`: `FetchJobs` implements
`JobLease`. Admissions, hints and clocks map to stuttering, claims to `Issue`,
retries, deferrals and restarts to `Release`, completions to `Finish`, the
catalogue's second look to `Absorb`.

`CollectorProofs` shows that its `IndInv` is inductive. `NoOrphan` and
`FetchedIsStored` are not: a worker's result passes through the collector's
hand, where it is neither a task nor a row. `ClaimsAccounted` therefore follows
a claim from the row to the worker, into the hand or the list of interrupted
claims and back, and says also that whoever answers for a claim has a row that
is running or was settled by its other identity, since a result for any other
row would be stale and its metadata lost. `HandMatchesPc` says at which await
the hand is full, `ReapedInOrder` that `finish` waits for all workers before it
hands claims back, `DistrustIsRecorded` that the database is given up only
after one of its errors, `FlagsFollowPause` how the three flags go together.
From it follow

* `NoClaimIsLost`, `NoMetadataIsLost`, `NoAnnounceIsLost`, together
  `CollectorLosesNothing`: without a failed database call, claims, verified
  metadata and accepted announces survive every way to end;
* `IngressIsPauseOnly`: the ingress closes with the storage pause only;
* `CancelledClaimsNothing` and `EndChargesNobody`, through `RowsMove`, which
  says how each step may change a row; the three together are
  `CollectorStopsInOrder`.

Two more parts are about what the collector decides with. `PatienceHolds` has
the stronger invariant that `passed[c]` is at most the number of slots back to
the last one that prefers `c`. `PauseIsJustified` (with
`PauseIsFollowed` and `RecoveryIsCalm`) rests on `PressureInv`: a pause that is on was seen by `account` (`PauseIsSeen`), so that
its start is not missed, and the code's recovery start is never older than the
last high reading (`WaitIsCalm`), which is why lifting the backlog after
`Recovery` means that it was calm for that long. Ages saturate at `Cap`, and the
proofs hold for every `Cap`.

`QueueProofs` proves `StoreTellsTheTruth`: no permit is lost or returned
twice, an answered call ran exactly once and a refused one never, and a
confirmed shutdown left nothing ahead of it undone and the lock free. Permits
are conserved only if a command is never in two lines at once, and an answer is
true only if the thread answers the caller that waits, so the inductive
invariant (`EveryCommandHasItsPlace`) places every command:
`NobodyStandsTwice`, `CallersStandWhereTheyWait` (a caller's state names the
line it stands in), `OwnerStandsBehind` (what is still undone ahead of a
barrier is in the queue before it), `ThreadLives` (only a thread in
service has a queue). The permits held are a fold over a set, and what a
fold computes is out of reach of induction here; `SizeIsUnits` goes around it:
a payload is a set of units, the units of disjoint sets add up by cardinality,
and a smallest set on which the fold differs from the number of units
contradicts one step of the fold.

The same lemmas about lines serve two more components. `NoSampleIsLost`: every
batch that was sent is done with, in the channel, or at work
(`EveryBatchHasItsPlace`), and the offset of the one at work covers only what is
in the database (`OffsetIsConfirmed`), so neither an unanswered save nor the
second run can skip a segment. `ConnectionsAreLimited`: whoever has a ticket
holds its semaphore or stands in its line, once (`LinesAreRight`), the table has
exactly the IPs with a ticket (`TableIsRight`), and no semaphore serves two of
them (`SemaphoresHaveOneIp`); a semaphore whose last ticket is dropped and the
new one for the same IP are therefore never held at once.

`TablesProofs` proves `TokensLive`: for every period and every pattern of
requests a token is good for at least one period and less than two, and for
its own address only. `TokenLifetime` speaks of elapsed time and is not
inductive; `TokensInv` places every token in the period of its key: the epoch
lies on the grid of the periods, the current key belongs to the period of the
epoch, the previous one to the period before it, and a token under an older key
was handed out more than a period before the epoch. `Grid` says what the modulus in
`rotate` does to the epoch and `Rotated` that a rotation keeps the placement.

In the same module, `StoreIsConsistent` shows that the peer store's map and its
two indexes agree and keep their limits. `Agree` says this of any store, so each
part of `announce` (renewal, the three evictions, the insertion) and `expire`
has a lemma of its own and the action is their composition; besides `Limits`
they carry the room that the evictions leave for the insertion. The
index of hashes files a hash under its latest deadline; `Latest` is a maximum
over a finite set of naturals, which exists by well-founded induction.
`SamplesStayCurrent` follows: a hash that the index takes for active has an
active peer, and within an interval the cached sample is only ever thinned out.
`IdentitySurvives` ties three clocks together (`PauseIsWaited`): the row on disk
never looks older than it is, though the wall clock is set back, a running node
waits at least for the rest of the pause, and a change is only under way when
the pause is over. `StrangersAreSpared` does the same
for the entries of the traffic budget, which are dropped and come back empty:
`HoldsPause` says that the pause an entry holds and the time since the last
verification make up the whole pause, and that an IP without an entry has waited
all of it. `Outstanding` has one element for each permit, so that its size moves
by one with each permit given or returned, and a query that tests three limits
before it spends overdraws none.

`StreamsStayFaithful` rests on two facts. The history is a run of consecutive
numbers up to the last one (`IsHistory`), whatever the limits evict, because the
evicted part is a prefix (`Evicted`). And a stream that may go on stands at its
client's position, or at the end of the events that are on the wire to it
(`StreamFollows`); a stream with the cursor of another process can only be reset.
So a page that is not refused begins right after the position and has no gap
(`PageIsNext`), and a connection lost with a page on the wire loses nothing: the
client still has its old cursor.

`SessionProofs` proves `FaultsStayContained` and `SuccessIsComplete` from
`SessionInv`. A fatal fault comes from a panic, an error of the collector, a
lost database thread, or a task that ended unasked; `CausesKnown` keeps the
first three until they are published, and `EndsExplained` the reasons for which
a task may end, above all that a consumer of samples ends only when its node has
stopped sampling, which a storage error explains. `PauseReaches` says that while
the pause is awaited every node that still samples has its command, so no node
samples once the fault counts as read. `StagesInOrder` is what each stage of the
shutdown relies on. Which of the faults in a queue is kept is a scan; the model
states its result, the first fatal fault or else the last (`Published`).
`JudgementIsFair` rests on `PeerInv`: a piece is asked for once and is then
awaited or there, never both, so the counter of pieces is the number of those
that are there and a full counter means that none is missing; and some deadline is always at
most two piece timeouts after the last progress, which bounds silence, since the
clock does not pass a deadline.

Two loops of the program go through a list and take some of it: the filter of
hints, and the collection of addresses or peers without repetition up to a limit
(`Gather`). Each is a recursive function, and a least counterexample among the
naturals (`LeastNatural`) shows that it exists and what it returns:
`KeptHolds`, `CollectedExtends`. `RoundsStayHonest` needs the second, since a round
pings its list in order (`RoundInOrder`) and pings nobody twice because nobody
is on the list twice. `JobsEndJustly` needs both. Its invariant `JobInv` says
that nobody is forgotten (`NoneForgotten`): every usable address that was hinted
at or found is selected or still on one of three lists, so when the lists are
empty and the lookup is over all were tried. That an answer never overflows the
channel needs that the channel holds only peers that count among those found
(`ChannelHasRoom`). `FaultStops` says that a fault leaves the job nothing but to
report it, and `StagesAgree` that who dialled has failed, is still at it, or is
done, which makes the charge fair.

`SamplerProofs` proves `NothingIsSampledEarly` and `TableNeverRefuses` from one
inductive invariant, `SamplerInv` (`TableAndMemoryKeepStep`). Neither property
is inductive: whether a key may be asked is decided in memory, and what memory
knew is lost in a crash. Its parts are

* `WorkIsApart`: no two pieces of work share an id or an address, and a
  reservation is asked for only while no request is ready;
* `RowsAreHeld`: who works by a token has the pending row of both its keys,
  tables keep within their capacity, and a pending row lasts `Long`. The last is
  needed by a restart, which turns pending rows into protection;
* `QuietIsRecorded`: whatever must be left alone has a pending row or one that
  lasts long enough, and a settlement still owed will not shorten it;
* `MemoryIsComplete`: without a storage error, memory knows at least what the
  table holds, so that the table has no reason to refuse;
* `StopsAreClean`: what is left to do outside the normal course of the loop.

A withdrawal, a settlement, a stop and a fault all take some work out of the
loop's hands, so the proof says once what that does: `Leaves`, `Protects` and
`Remembers` name what such a step keeps, and the lemmas `Resolved`, `Quieted`
and `Remembered` derive the first two parts, the third and the fourth from
them.

`QueriesProofs` proves `QueriesAreInOnePlace` and `CallersHearTheTruth` from
`QueriesInv` (`BooksKeepStep`): a query is in one place only
(`NobodyAsksTwice`), both tables have one entry for each identifier and for the
same query (`TablesAgree`), callers are accounted for (`CallersAreAccounted`:
who waits is in one of the places, and something was sent for a caller exactly
from the table on), and no contact waits for its verification while it is
being verified (`RecoveryIsCounted`). That an answer never reaches another
query needs `AnswersAreFresh`: an answer under way to an identifier in use was
drawn together with it. A draw skips the identifiers in use, and answers older
than a turn of the counter are gone, so nothing under way fits a new
identifier (`WithinATurn`). Most steps only let queries leave: `Departed` says
once what such a step keeps.

`RoutingProofs` proves `TheTableIsKept` and `BadMakeRoom`, for identifiers of
any width and buckets of any size, from `RoutingInv` (`RoutingIsInOrder`).
`TableIsSound` counts the ranges of an identifier; the invariant says instead
that the ranges are prefixes no longer than an identifier, that each identifier
has one, and that two ranges with a common identifier are the same (`IsTable`).
A split keeps this because a half without identifiers does not exist
(`Inhabited`) and each identifier of a range goes to exactly one half
(`Halves`). `Shared` says that a half's share of a bucket has exactly its
contacts, `SplitsEnough` that the loop of `insert_verified` ends: the tables
after 0, 1, 2, ... splits form a chain (`ChainExists`), each with a home
bucket one bit narrower than the one before, and at full width no split is
due. Both rest on least counterexamples among the naturals. A step may
change table and probes several times, so `Good` is kept by each of
`start_query`, `start_bucket_probe`, `handle_insert_outcome` and
`Reconsidered`. For eviction the proof follows the identifiers that have a
contact that is not bad (`Lives`): no insertion takes one away, and a failure
only that of its own contact. `ProbeFailed` does both in one step; there
`TriedAgain` gives that no probe starts when a contact was replaced, so the
failed probe is really over.

`LookupsStayCounted` is about the maintenance lookup, whose `in_flight` is a
counter beside the states of the candidates. `Orderly` is what each operation on a
lookup keeps: `Counted` (the counter is the number of candidates in flight, and
within the limit), `Noted` (the addresses tried are as many as the queries
started, and those in flight are at different ones, so that a deferred query
takes back its own mark) and at most `max_candidates` candidates. `TakeNextIsSound`,
`FinishIsSound`, `DeferIsSound` and `ExtendedIsSound` say so, and `TakeNext`
applies three of them in a row. The last one needs the bound: before an answer
there are at most `max_candidates`, and whoever joins is untried, so those that
were tried are no more than are kept (`TriedAreKept`), and the cut takes none of
them. That the limits hold needs `NearestAreFew`: the nearest n of a set are at
most n, since none is further than the one with the most nearer ones.

Only model-checked: everything about liveness and fairness, which is out of
reach of the proof system's backends (`StoreLetsGo`, `ConsumerEnds`,
`QuietResumes`, `ShutdownEnds`, `StopEnds`, `PausedQuiesces`, `BooksAreCleared`,
`WaitingIsAdmitted`, `LookupEnds` in `LookupIsSound`, `BootstrapPerseveres`). Every
safety property that a passing run checks is stated by a theorem.

## 5. Findings

`session_fatal`: `next_fault` (`app/session/supervision.rs`) clones a storage
fault, awaits the pause of every node, then calls `borrow_and_update` and
returns the clone. A fatal fault published during that await is marked as read
without being returned. `publish` keeps the first fatal fault, so nothing
notifies the session again, and it goes on without its collector, against the
comment on `SessionFault` (`faults.rs:16`) and `docs/architecture/lifecycle.md:23`.

`queries_snapshot`: when a node stops, `clear_queries`
(`dispatcher/runtime/outbound.rs`) ends every queued query through
`finish_start_error`, which forgets a saved contact whose verification was
never sent. The exit snapshot lacks it, and `save_contacts` deletes the stored
contacts before it inserts the snapshot, against the comment on
`saved_contacts` (`dispatcher/recovery.rs:124`). A verification that times out
in the queue is lost in the same way.

`routing_duplicate`: a candidate waits for the probe of a questionable contact,
answers another query, and enters the bucket when a place is free; the probe
fails, and `reconsider_candidate` (`dht/routing/mod.rs:297`) inserts it again
without looking. A node is then in the table twice, against the test at
`dht/routing/tests.rs:43`.

## 6. Plan

Everything that carries protocol state is modelled. Worth adding: `Queries` with
`Maintenance` and `Routing` in one module, so that lookups, probes and callers
compete for the same transactions. Now each module leaves the others' part of
the capacity open.

## 7. Not modelled

KRPC and bencode codecs, SQL text and schema migrations, sockets, configuration
and logging have no protocol state of their own. Catalogue queries (the largest
single file), inspection, diagnostics, comparison reports and the presentation
part of the web interface only read or count: no step of the program depends on
them, and what could be said of them restates their SQL or their formatting.
