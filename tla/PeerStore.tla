----------------------------- MODULE PeerStore -----------------------------
(***************************************************************************)
(* The addresses that other nodes announced to this one, and what it tells *)
(* about them (dht/peer_store/mod.rs, dispatcher/peer_queries/mod.rs,      *)
(* dispatcher/sampling/mod.rs).  Beside the map from hashes to peers the   *)
(* store keeps two sorted indexes, one of all peers by deadline and one of *)
(* the hashes by their latest deadline, from which it takes what to evict. *)
(*                                                                         *)
(* Hashes and addresses are numbers, for the order of the sorted indexes.  *)
(* Whether the token of an announce is good is a free choice here; module  *)
(* Tokens says which tokens are.                                           *)
(***************************************************************************)
EXTENDS Naturals, FiniteSets

CONSTANTS
    Hashes, Endpoints,
    ttl, max_hashes, max_peers, max_peers_per_hash,
    ExpireBudget,       \* entries that one call of expire may remove
    SAMPLE_INTERVAL, MAX_SAMPLES,
    MaxClock            \* bound of the clock

ASSUME StoreAssumption ==
    /\ Hashes \subseteq Nat /\ IsFiniteSet(Hashes)
    /\ Endpoints \subseteq Nat /\ IsFiniteSet(Endpoints)
    /\ ttl \in Nat \ {0} /\ SAMPLE_INTERVAL \in Nat \ {0} /\ MaxClock \in Nat
    /\ max_hashes \in Nat \ {0} /\ max_peers \in Nat \ {0} /\ max_peers_per_hash \in Nat \ {0}

VARIABLES
    clock,
    store,              \* [peers, expiry, hashes]
    generated_at,       \* of the SampleCache; NoTime before the first sample
    cached,
    reply               \* to the last query

storeVars == <<clock, store, generated_at, cached, reply>>

NoTime == MaxClock + 1

StoreInit ==
    /\ clock = 0 /\ generated_at = NoTime /\ cached = {} /\ reply = "none"
    /\ store = [peers |-> [h \in {} |-> 0], expiry |-> {}, hashes |-> {}]

-----------------------------------------------------------------------------
(* The store.                                                              *)

MaxOf(S) == CHOOSE n \in S : \A m \in S : m <= n
Latest(group) == MaxOf({group[a] : a \in DOMAIN group})

(* The first entry of an index: tuples of numbers in lexicographic order.  *)
Before(s, t) == \E i \in DOMAIN s : s[i] < t[i] /\ \A j \in 1 .. i - 1 : s[j] = t[j]
FirstOf(S) == CHOOSE s \in S : \A t \in S \ {s} : Before(s, t)

With(f, x, v) == [y \in DOMAIN f \cup {x} |-> IF y = x THEN v ELSE f[y]]
Without(f, x) == [y \in DOMAIN f \ {x} |-> f[y]]

remove(s, h, a) ==
    IF h \notin DOMAIN s.peers THEN s
    ELSE LET group == s.peers[h]
             rest == Without(group, a)
         IN [peers |-> IF DOMAIN rest = {} THEN Without(s.peers, h) ELSE With(s.peers, h, rest),
             expiry |-> IF a \in DOMAIN group THEN s.expiry \ {<<group[a], h, a>>} ELSE s.expiry,
             hashes |-> (s.hashes \ {<<Latest(group), h>>})
                           \cup (IF DOMAIN rest = {} THEN {} ELSE {<<Latest(rest), h>>})]

(* A hash with all its peers.                                              *)
RemoveHash(s, h) ==
    [peers |-> Without(s.peers, h), expiry |-> {e \in s.expiry : e[2] # h},
     hashes |-> s.hashes \ {<<Latest(s.peers[h]), h>>}]

(* expire removes the oldest entries that are due, as many as it may.      *)
DueFirst(s) ==
    {e \in s.expiry : e[1] <= clock /\ Cardinality({d \in s.expiry : Before(d, e)}) < ExpireBudget}
expire(s) ==
    LET due == DueFirst(s)
        rest == [h \in DOMAIN s.peers |->
                   [a \in {a \in DOMAIN s.peers[h] : <<s.peers[h][a], h, a>> \notin due} |->
                      s.peers[h][a]]]
        left == {h \in DOMAIN s.peers : DOMAIN rest[h] # {}}
        touched == {e[2] : e \in due}
    IN [peers |-> [h \in left |-> rest[h]], expiry |-> s.expiry \ due,
        hashes |-> (s.hashes \ {<<Latest(s.peers[h]), h>> : h \in touched})
                      \cup {<<Latest(rest[h]), h>> : h \in touched \cap left}]

(* The four ways in which announce makes room, in their order.             *)
Renewed(s, h, a) ==
    IF h \in DOMAIN s.peers /\ a \in DOMAIN s.peers[h] THEN remove(s, h, a) ELSE s
HashEvicted(s, h) ==
    IF h \notin DOMAIN s.peers /\ Cardinality(DOMAIN s.peers) >= max_hashes
    THEN RemoveHash(s, FirstOf(s.hashes)[2]) ELSE s
PeerEvicted(s, h) ==
    IF h \in DOMAIN s.peers /\ Cardinality(DOMAIN s.peers[h]) >= max_peers_per_hash
    THEN remove(s, h, FirstOf({<<s.peers[h][a], a>> : a \in DOMAIN s.peers[h]})[2]) ELSE s
OldestEvicted(s) ==
    IF Cardinality(s.expiry) >= max_peers
    THEN remove(s, FirstOf(s.expiry)[2], FirstOf(s.expiry)[3]) ELSE s

LeavesOldLatest(s, h, a) ==
    LET group == IF h \in DOMAIN s.peers THEN s.peers[h] ELSE [x \in {} |-> 0]
        grown == With(group, a, clock + ttl)
    IN [peers |-> With(s.peers, h, grown), expiry |-> s.expiry \cup {<<clock + ttl, h, a>>},
        hashes |-> s.hashes \cup {<<Latest(grown), h>>}]
Insert(s, h, a) ==
    LET group == IF h \in DOMAIN s.peers THEN s.peers[h] ELSE [x \in {} |-> 0]
        grown == With(group, a, clock + ttl)
        old == IF DOMAIN group = {} THEN {} ELSE {<<Latest(group), h>>}
    IN [peers |-> With(s.peers, h, grown), expiry |-> s.expiry \cup {<<clock + ttl, h, a>>},
        hashes |-> (s.hashes \ old) \cup {<<Latest(grown), h>>}]

Active(s) == {e[2] : e \in {e \in s.hashes : e[1] > clock}}
contains_active_infohash(s, h) ==
    h \in DOMAIN s.peers /\ \E a \in DOMAIN s.peers[h] : s.peers[h][a] > clock

-----------------------------------------------------------------------------
(* The queries.                                                            *)

(* handle_announce_peer: refused for its fields, port, address or token,   *)
(* or stored before the acknowledgement goes out.                          *)
Refuse ==
    /\ reply' = "error"
    /\ UNCHANGED <<clock, store, generated_at, cached>>
announce(h, a) ==
    /\ \E s1 \in {Renewed(expire(store), h, a)} : \E s2 \in {HashEvicted(s1, h)} :
         \E s3 \in {PeerEvicted(s2, h)} : \E s4 \in {OldestEvicted(s3)} :
            store' = Insert(s4, h, a)
    /\ reply' = "stored"
    /\ UNCHANGED <<clock, generated_at, cached>>

(* handle_sample_infohashes: a new random sample once per interval, and    *)
(* what is left of it in between.                                          *)
KeepsCached ==
    /\ generated_at # NoTime /\ clock - generated_at < SAMPLE_INTERVAL
    /\ cached' = cached /\ UNCHANGED generated_at
Retained ==
    /\ generated_at # NoTime /\ clock - generated_at < SAMPLE_INTERVAL
    /\ cached' = {h \in cached : contains_active_infohash(store, h)} /\ UNCHANGED generated_at
Resampled(sample) ==
    /\ generated_at = NoTime \/ clock - generated_at >= SAMPLE_INTERVAL
    /\ sample \subseteq Active(store)
    /\ Cardinality(sample) = IF Cardinality(Active(store)) < MAX_SAMPLES
                             THEN Cardinality(Active(store)) ELSE MAX_SAMPLES
    /\ cached' = sample /\ generated_at' = clock
sample_infohashes ==
    /\ Retained \/ \E sample \in SUBSET Hashes : Resampled(sample)
    /\ reply' = "samples"
    /\ UNCHANGED <<clock, store>>

(* The event loop removes what is due, a batch at a time; time passes.     *)
Expire ==
    /\ store.expiry # {} /\ FirstOf(store.expiry)[1] <= clock
    /\ store' = expire(store) /\ UNCHANGED <<clock, generated_at, cached, reply>>
Tick ==
    /\ clock < MaxClock /\ clock' = clock + 1 /\ reply' = "none"
    /\ UNCHANGED <<store, generated_at, cached>>

StoreNext ==
    \/ \E h \in Hashes, a \in Endpoints : announce(h, a)
    \/ Refuse \/ sample_infohashes \/ Expire \/ Tick

StoreSpec == StoreInit /\ [][StoreNext]_storeVars

-----------------------------------------------------------------------------
(* Properties.                                                             *)

(* The map and its two indexes never disagree, whatever was renewed,       *)
(* evicted or expired in between: every peer is in the index of deadlines  *)
(* once, every hash in the other once, under its latest deadline, and no   *)
(* limit is exceeded.  An entry left behind in an index would make the     *)
(* next eviction remove nothing and the store grow without bound.          *)
IndexesAgree ==
    /\ store.expiry = UNION {{<<store.peers[h][a], h, a>> : a \in DOMAIN store.peers[h]} :
                                h \in DOMAIN store.peers}
    /\ store.hashes = {<<Latest(store.peers[h]), h>> : h \in DOMAIN store.peers}
    /\ Cardinality(DOMAIN store.peers) <= max_hashes /\ Cardinality(store.expiry) <= max_peers
    /\ \A h \in DOMAIN store.peers :
          Cardinality(DOMAIN store.peers[h]) \in 1 .. max_peers_per_hash

(* Nobody is told of a hash that has expired or was evicted, though the    *)
(* cleaning lags behind and a sample is kept for a whole interval; and     *)
(* within an interval no hash is added to the sample.                      *)
SamplesAreCurrent ==
    /\ [][reply' = "samples" => \A h \in cached' : contains_active_infohash(store, h)]_storeVars
    /\ [][generated_at' = generated_at => cached' \subseteq cached]_storeVars
=============================================================================
