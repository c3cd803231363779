------------------------------ MODULE Routing ------------------------------
(***************************************************************************)
(* The routing table of one DHT node and the pings that keep it true       *)
(* (routing/mod.rs, response/{routing,completion}.rs, query.rs).           *)
(*                                                                         *)
(* A contact enters when it answered.  A full bucket makes room by         *)
(* splitting around the local identifier, by replacing a bad contact, or   *)
(* by probing the questionable ones in turn while the newcomer waits.  A   *)
(* stranger that queries the node is asked back before it may enter.       *)
(* Between the start of such a ping and its end every other answer,        *)
(* failure and query goes on changing the same table.                      *)
(*                                                                         *)
(* Time is whether a contact was heard of in the last fifteen minutes; the *)
(* order in which questionable contacts are probed, oldest first in the    *)
(* code, is left open.  A ping may be refused by the queue when it starts, *)
(* or expire in the queue (module Queries); both end it unsent.            *)
(***************************************************************************)
EXTENDS Integers, Sequences, FiniteSets, SequencesExt

CONSTANTS
    Bits,             \* the width of an identifier, 160 in the code
    BUCKET_SIZE,      \* 8 in the code
    LocalIds,         \* the identities that the node may have
    Nodes,            \* the remote nodes, as [id, address]
    Strangers,        \* those of them that send queries
    Fading,           \* those that may fall silent or miss a query
    MaxProbes         \* bound: bucket probes at a time

(* An identifier is its bits, the first one first.                         *)
Ids == [1..Bits -> {0, 1}]
MAX_CONSECUTIVE_FAILURES == 2

ASSUME WidthAssumption == Bits \in Nat /\ BUCKET_SIZE \in Nat \ {0} /\ MaxProbes \in Nat
Addresses == {n.address : n \in Nodes}
Peers == [id : Ids, address : Addresses]
ASSUME NodeAssumption ==
    LocalIds \subseteq Ids /\ Strangers \cup Fading \subseteq Nodes /\ Nodes \subseteq Peers

VARIABLES
    local_id,
    buckets,          \* the contacts of each range of identifiers
    probes,           \* bucket probes in the queue or under way
    bucket_probes,    \* the keys of the probes, against a second one
    verifying,        \* reverse pings in the queue or under way
    verifications     \* the keys of the reverse pings

pings == <<verifying, verifications>>
vars == <<local_id, buckets, probes, bucket_probes, pings>>

-----------------------------------------------------------------------------
(* BucketPrefix: the bits that the identifiers of a range begin with.      *)

Root == <<>>
contains(r, id) == \A bit \in DOMAIN r : r[bit] = id[bit]
split(r) == {Append(r, value) : value \in {0, 1}}
bucket_index(b, id) == CHOOSE r \in DOMAIN b : contains(r, id)

(* NodeContact and its status.                                             *)
verified(n) == [id |-> n.id, address |-> n.address, fails |-> 0, stale |-> FALSE]
Whom(c) == [id |-> c.id, address |-> c.address]
BadAtOnce(c) ==
    IF c.fails > 0 THEN "bad" ELSE IF c.stale THEN "questionable" ELSE "good"
status(c) ==
    CASE c.fails >= MAX_CONSECUTIVE_FAILURES -> "bad"
      [] c.fails < MAX_CONSECUTIVE_FAILURES /\ c.stale -> "questionable"
      [] OTHER -> "good"
Having(nodes, what) == {i \in DOMAIN nodes : status(nodes[i]) = what}
First(S) == CHOOSE i \in S : \A j \in S : i <= j

(* Where the table holds a contact: the first match of its bucket.         *)
Matching(b, id) ==
    LET r == bucket_index(b, id)
    IN {<<r, i>> : i \in {j \in DOMAIN b[r] : b[r][j].id = id}}
Known(b, id) == Matching(b, id) # {}
contact(b, id) ==
    CHOOSE p \in Matching(b, id) : \A q \in Matching(b, id) : p[2] <= q[2]
Write(b, p, c) == [b EXCEPT ![p[1]][p[2]] = c]
At(b, p) == b[p[1]][p[2]]

-----------------------------------------------------------------------------
(* Insertion.                                                              *)

HomeKeepsAll(b) ==
    LET home == bucket_index(b, local_id)
        rest == DOMAIN b \ {home}
    IN [r \in rest \cup split(home) |->
          IF r \in rest THEN b[r]
          ELSE IF contains(r, local_id) THEN b[home] ELSE <<>>]
Increasing(S) ==
    CHOOSE f \in [1..Cardinality(S) -> S] : \A i, j \in DOMAIN f : i < j => f[i] < f[j]
Share(nodes, r) ==
    LET places == Increasing({i \in DOMAIN nodes : contains(r, nodes[i].id)})
    IN [i \in DOMAIN places |-> nodes[places[i]]]
split_bucket(b) ==
    LET home == bucket_index(b, local_id)
        rest == DOMAIN b \ {home}
    IN [r \in rest \cup split(home) |->
          IF r \in rest THEN b[r]
          ELSE Share(b[home], r)]

(* The loop of insert_verified goes on while the contact's bucket is the   *)
(* full bucket of the local identifier with good contacts only.            *)
MustSplit(b, id) ==
    LET r == bucket_index(b, id)
    IN /\ Len(b[r]) >= BUCKET_SIZE /\ Having(b[r], "good") = DOMAIN b[r]
       /\ contains(r, local_id) /\ Len(r) < Bits
SplitFor(b, id) ==
    LET after[n \in 0 .. Bits] == IF n = 0 THEN b ELSE split_bucket(after[n - 1])
        splits == 0 .. Bits - Len(bucket_index(b, local_id))
    IN after[First({n \in splits : ~MustSplit(after[n], id)})]

(* The table after the loop, and the incumbents if probes are required.    *)
insert_verified(b, n) ==
    LET t == SplitFor(b, n.id)
        r == bucket_index(t, n.id)
        bad == Having(t[r], "bad")
        room == Len(t[r]) < BUCKET_SIZE
    IN [buckets |->
          CASE room -> [t EXCEPT ![r] = Append(@, verified(n))]
            [] ~room /\ bad # {} -> [t EXCEPT ![r][First(bad)] = verified(n)]
            [] OTHER -> t,
        incumbents |->
          IF room \/ bad # {} THEN {<<>>}
          ELSE {[i \in DOMAIN s |-> Whom(t[r][s[i]])] :
                   s \in SetToSeqs(Having(t[r], "questionable"))},
        candidate |-> n]
reconsider_candidate(b, n) == insert_verified(b, n)

observe_response(b, n) ==
    IF n.id = local_id \/ Known(b, n.id)
    THEN [buckets |-> IF n.id = local_id THEN b ELSE Write(b, contact(b, n.id), verified(n)),
          incumbents |-> {<<>>}, candidate |-> n]
    ELSE insert_verified(b, n)

record_failure(b, id) ==
    IF ~Known(b, id) THEN b
    ELSE LET p == contact(b, id)
         IN Write(b, p, [At(b, p) EXCEPT !.fails =
                IF @ < MAX_CONSECUTIVE_FAILURES THEN @ + 1 ELSE @])

-----------------------------------------------------------------------------
(* Bucket probes.  A step of the dispatcher may start several, so these    *)
(* operators take the state s of table and probes to the states that may   *)
(* follow: with the ping in the queue, or refused and its key returned.    *)

State(b, P, K) == [buckets |-> b, probes |-> P, keys |-> K]
Become(s) == buckets' = s.buckets /\ probes' = s.probes /\ bucket_probes' = s.keys

start_query(s, p) ==
    {State(s.buckets, s.probes, s.keys \ {p.incumbent}),
     State(s.buckets, s.probes \cup {p}, s.keys)}

start_bucket_probe(s, incumbents, candidate) ==
    LET p == [incumbent |-> Head(incumbents), remaining |-> Tail(incumbents),
              candidate |-> candidate, attempt |-> 1]
    IN IF p.incumbent \in s.keys THEN {s}
       ELSE start_query([s EXCEPT !.keys = @ \cup {p.incumbent}], p)

handle_insert_outcome(s, outcome) ==
    UNION {IF i = <<>> THEN {s} ELSE start_bucket_probe(s, i, outcome.candidate) :
             i \in outcome.incumbents}
Reconsidered(s, candidate) ==
    LET outcome == reconsider_candidate(s.buckets, candidate)
    IN handle_insert_outcome([s EXCEPT !.buckets = outcome.buckets], outcome)

(* A query other than these pings is answered, or fails: observe_response  *)
(* and handle_insert_outcome, or record_expected_failure.                  *)
OtherAnswer(n) ==
    LET outcome == observe_response(buckets, n)
    IN /\ \E s \in handle_insert_outcome(State(outcome.buckets, probes, bucket_probes),
                                         outcome) : Become(s)
       /\ UNCHANGED <<local_id, pings>>
record_expected_failure(n) ==
    /\ buckets' = record_failure(buckets, n.id)
    /\ UNCHANGED <<local_id, probes, bucket_probes, pings>>

(* The probe is answered: the incumbent is heard of, the next one is       *)
(* probed or the candidate tried again, then the first outcome is handled. *)
ProbeAnswered(p) ==
    LET outcome == observe_response(buckets, p.incumbent)
        s == State(outcome.buckets, probes \ {p}, bucket_probes \ {p.incumbent})
        settled == IF p.remaining = <<>> THEN Reconsidered(s, p.candidate)
                   ELSE start_bucket_probe(s, p.remaining, p.candidate)
    IN /\ p \in probes
       /\ \E t \in settled : \E u \in handle_insert_outcome(t, outcome) : Become(u)
       /\ UNCHANGED <<local_id, pings>>

ProbeFailed(p) ==
    LET b == record_failure(buckets, p.incumbent.id)
        bad == /\ Known(b, p.incumbent.id)
               /\ status(At(b, contact(b, p.incumbent.id))) = "bad"
        s == State(b, probes \ {p}, bucket_probes)
        over == [s EXCEPT !.keys = @ \ {p.incumbent}]
    IN /\ p \in probes
       /\ \E t \in (CASE bad -> Reconsidered(over, p.candidate)
                      [] ~bad /\ p.attempt < 2 -> start_query(s, [p EXCEPT !.attempt = @ + 1])
                      [] OTHER -> {over}) : Become(t)
       /\ UNCHANGED <<local_id, pings>>

(* finish_start_error of a probe that was queued.                          *)
UnsentKeepsKey(p) ==
    /\ p \in probes /\ probes' = probes \ {p}
    /\ UNCHANGED <<local_id, buckets, bucket_probes, pings>>
ProbeUnsent(p) ==
    /\ p \in probes
    /\ probes' = probes \ {p} /\ bucket_probes' = bucket_probes \ {p.incumbent}
    /\ UNCHANGED <<local_id, buckets, pings>>

-----------------------------------------------------------------------------
(* Queries of others and reverse pings.                                    *)

schedule_verification(n) ==
    IF n \in verifications THEN UNCHANGED pings
    ELSE \/ verifying' = verifying \cup {n} /\ verifications' = verifications \cup {n}
         \/ UNCHANGED pings

observe_query(n) ==
    LET r == bucket_index(buckets, n.id)
        same == {i \in DOMAIN buckets[r] : Whom(buckets[r][i]) = n}
    IN /\ n.id # local_id
       /\ IF same # {}
          THEN /\ buckets' = [buckets EXCEPT ![r][First(same)].stale = FALSE]
               /\ UNCHANGED pings
          ELSE schedule_verification(n) /\ UNCHANGED buckets
       /\ UNCHANGED <<local_id, probes, bucket_probes>>

(* A query that is malformed, or whose answer does not go out, leaves the  *)
(* table alone; so does that of a read-only node.                          *)
handle_query(n) == observe_query(n)

VerificationEnds(n) ==
    /\ n \in verifying
    /\ verifying' = verifying \ {n} /\ verifications' = verifications \ {n}
VerificationAnswered(n) ==
    LET outcome == observe_response(buckets, n)
    IN /\ VerificationEnds(n)
       /\ \E s \in handle_insert_outcome(State(outcome.buckets, probes, bucket_probes),
                                         outcome) : Become(s)
       /\ UNCHANGED local_id
VerificationFailed(n) ==
    VerificationEnds(n) /\ UNCHANGED <<local_id, buckets, probes, bucket_probes>>

-----------------------------------------------------------------------------
(* Time and identity.                                                      *)

(* Fifteen minutes without an answer or a query of this contact, which     *)
(* matter while it is not bad.                                             *)
Age(r, i) ==
    /\ status(buckets[r][i]) = "good" /\ Whom(buckets[r][i]) \in Fading
    /\ buckets' = [buckets EXCEPT ![r][i].stale = TRUE]
    /\ UNCHANGED <<local_id, probes, bucket_probes, pings>>

(* clear_queries, then the new table of rotate_identity.                   *)
rotate_identity(id) ==
    /\ local_id' = id /\ buckets' = [r \in {Root} |-> <<>>]
    /\ probes' = {} /\ bucket_probes' = {} /\ verifying' = {} /\ verifications' = {}

Init ==
    /\ local_id \in LocalIds /\ buckets = [r \in {Root} |-> <<>>]
    /\ probes = {} /\ bucket_probes = {} /\ verifying = {} /\ verifications = {}

Bounded == Cardinality(probes') <= MaxProbes

Next ==
    \/ \E n \in Nodes : OtherAnswer(n) /\ Bounded
    \/ \E n \in Fading : record_expected_failure(n)
    \/ \E n \in Strangers : handle_query(n)
    \/ \E p \in probes : (ProbeAnswered(p) \/ ProbeFailed(p)) /\ Bounded
    \/ \E p \in probes : ProbeUnsent(p)
    \/ \E n \in verifying : VerificationAnswered(n) /\ Bounded
    \/ \E n \in verifying : VerificationFailed(n)
    \/ \E r \in DOMAIN buckets : \E i \in DOMAIN buckets[r] : Age(r, i)
    \/ \E id \in LocalIds : rotate_identity(id)

Spec == Init /\ [][Next]_vars

-----------------------------------------------------------------------------
(* Properties.                                                             *)

(* The ranges partition the identifiers, which bucket_index relies on to   *)
(* find one; no bucket is larger than BUCKET_SIZE, every contact lies in   *)
(* the bucket of its identifier through all splits, and none is the node   *)
(* itself.                                                                 *)
TableIsSound ==
    /\ \A id \in Ids : Cardinality({r \in DOMAIN buckets : contains(r, id)}) = 1
    /\ \A r \in DOMAIN buckets :
         /\ Len(buckets[r]) <= BUCKET_SIZE
         /\ \A c \in Range(buckets[r]) : contains(r, c.id) /\ c.id # local_id

(* Every key in bucket_probes and in verifications belongs to exactly one  *)
(* ping that is still to end.  A key that outlived its ping would keep the *)
(* contact from ever being probed or verified again.                       *)
KeysAreReturned ==
    /\ bucket_probes = {p.incumbent : p \in probes}
    /\ Cardinality(bucket_probes) = Cardinality(probes)
    /\ verifications = verifying

(* The table and the books of its pings are in order after every event.    *)
TableIsKept == TableIsSound /\ KeysAreReturned

(* What a step may never do: push out a contact that has not failed twice  *)
(* in a row since it last answered, this step's failure of its probe       *)
(* included.  Only a new identity empties the table.                       *)
JustFailed(c) == \E p \in probes \ probes' : p.incumbent.id = c.id
OnlyBadMakeRoom ==
    [][\A r \in DOMAIN buckets : \A c \in Range(buckets[r]) :
         \/ Known(buckets', c.id)
         \/ c.fails + (IF JustFailed(c) THEN 1 ELSE 0) >= MAX_CONSECUTIVE_FAILURES
         \/ buckets' = [q \in {Root} |-> <<>>]]_vars

(* Why the table stays in order: its ranges are prefixes, one for every    *)
(* identifier, each with the contacts of its range; no two probes have the *)
(* same incumbent, and none waits with the node itself for a candidate.    *)
Contacts == [id : Ids, address : Addresses, fails : 0..MAX_CONSECUTIVE_FAILURES,
             stale : BOOLEAN]
IsTable(b) ==
    /\ b \in [DOMAIN b -> Seq(Contacts)]
    /\ \A r \in DOMAIN b : r \in Seq({0, 1}) /\ Len(r) <= Bits
    /\ \A id \in Ids : \E r \in DOMAIN b : contains(r, id)
    /\ \A r, q \in DOMAIN b : \A id \in Ids : contains(r, id) /\ contains(q, id) => r = q
Tidy(b, me) ==
    \A r \in DOMAIN b :
        /\ Len(b[r]) <= BUCKET_SIZE
        /\ \A i \in DOMAIN b[r] : contains(r, b[r][i].id) /\ b[r][i].id # me
Sound(b, me) == IsTable(b) /\ Tidy(b, me)
Waiting(me) ==
    [incumbent : Peers, remaining : Seq(Peers), candidate : {n \in Peers : n.id # me},
     attempt : {1, 2}]
Booked(P, K) ==
    /\ IsFiniteSet(P) /\ K = {p.incumbent : p \in P}
    /\ \A p, q \in P : p.incumbent = q.incumbent => p = q
RoutingInv ==
    /\ local_id \in Ids /\ Sound(buckets, local_id)
    /\ Booked(probes, bucket_probes) /\ \A p \in probes : p \in Waiting(local_id)
    /\ verifying \in SUBSET Peers /\ verifications = verifying

(* One contact for one node: an answer of a node in the table updates it.  *)
OneContactPerNode ==
    \A r \in DOMAIN buckets : \A i, j \in DOMAIN buckets[r] :
        buckets[r][i].id = buckets[r][j].id => i = j
=============================================================================
