---------------------------- MODULE Maintenance ----------------------------
(***************************************************************************)
(* The iterative find_node lookup with which a DHT node fills and refreshes*)
(* its routing table (dispatcher/maintenance.rs and the maintenance        *)
(* branches of response/completion.rs and runtime/outbound.rs).            *)
(*                                                                         *)
(* The dispatcher advances the lookup after every event: an answer or      *)
(* failure of one of its queries, a query that leaves the queue unsent, a  *)
(* deadline, or anything else the node does.  The routing table is the set *)
(* of contacts it can offer; how many transactions are free and which of   *)
(* the addresses the policy refuses are free choices.                      *)
(***************************************************************************)
EXTENDS Shortlist

CONSTANTS
    Candidates,         \* remote nodes, by their distance to the target
    Places,             \* where nodes are
    Claims,             \* what an answer and the table may say of the nodes
    lookup_parallelism, shortlist_size, max_queries,
    max_candidates,     \* 256
    MaxDelay,           \* retry_max as doublings of retry_initial
    MaxRefusals         \* bound: queries that are refused locally

(* A node is known at an address, which the routing table has verified or  *)
(* some other node has claimed; two nodes may be claimed at one address.   *)
LookupContact == [address : Places, verified : BOOLEAN]

ASSUME CandidateAssumption ==
    /\ Candidates \subseteq Nat /\ IsFiniteSet(Candidates)
    /\ Claims \subseteq [Candidates -> LookupContact]
    /\ lookup_parallelism \in Nat /\ shortlist_size \in Nat /\ max_queries \in Nat
    /\ max_candidates \in Nat

VARIABLES
    pc,                 \* "select" for an event, "advance" after it
    kind,               \* LookupKind of the lookup, "none" without one
    states, node,       \* its candidates: their states, and where they are
    attempted,          \* attempted_addresses
    in_flight, queries_started, successful_responses,
    outstanding,        \* its queries in the queue or under way
    startup_complete,
    not_before,         \* whether not_before and the refresh deadline have come
    retry_delay,        \* doublings
    refusals            \* bound

lookup == <<kind, states, node, attempted, in_flight, queries_started, successful_responses>>
schedule == <<startup_complete, not_before, retry_delay>>
maintenanceVars == <<pc, lookup, outstanding, schedule, refusals>>

NoCandidates == [c \in {} |-> "none"]
LookupInit ==
    /\ pc = "select" /\ kind = "none"
    /\ states = NoCandidates /\ node = NoCandidates /\ attempted = {}
    /\ in_flight = 0 /\ queries_started = 0 /\ successful_responses = 0
    /\ outstanding = {} /\ startup_complete = FALSE /\ not_before = TRUE
    /\ retry_delay = 0 /\ refusals = 0

-----------------------------------------------------------------------------
(* The lookup as a record, for the operations that are done in one step.   *)

Now == [states |-> states, node |-> node, attempted |-> attempted,
        in_flight |-> in_flight, started |-> queries_started,
        responses |-> successful_responses]
Becomes(l) ==
    /\ states' = l.states /\ node' = l.node /\ attempted' = l.attempted
    /\ in_flight' = l.in_flight /\ queries_started' = l.started
    /\ successful_responses' = l.responses

InState(l, s) == {c \in DOMAIN l.states : l.states[c] = s}
Minus(a, b) == IF a > b THEN a - b ELSE 0
LeastOf(S) == CHOOSE n \in S : \A m \in S : n <= m

(* take_next: the candidates looked at, nearest first, of which those at   *)
(* an address already tried fail and the others are asked.                 *)
Looked(l, capacity) ==
    Nearest({c \in closest_valid(l.states, shortlist_size) : l.states[c] = "unqueried"},
            LeastOf({capacity, Minus(lookup_parallelism, l.in_flight),
                   Minus(max_queries, l.started)}))
Tried(l, looked, c) ==
    \/ l.node[c].address \in l.attempted
    \/ \E d \in looked : d < c /\ l.node[d].address = l.node[c].address
Asked(l, capacity) ==
    LET looked == Looked(l, capacity) IN {c \in looked : ~Tried(l, looked, c)}
take_next(l, capacity) ==
    LET taken == Asked(l, capacity) looked == Looked(l, capacity)
    IN [l EXCEPT
          !.states = [c \in DOMAIN @ |-> IF c \in taken THEN "in_flight"
                                         ELSE IF c \in looked THEN "failed" ELSE @[c]],
          !.attempted = @ \cup {l.node[c].address : c \in taken},
          !.in_flight = @ + Cardinality(taken), !.started = @ + Cardinality(taken)]

(* The candidates of C that are in flight end, in success or failure.      *)
finish_candidate(l, C, success) ==
    LET done == C \cap InState(l, "in_flight")
    IN [l EXCEPT
          !.states = [c \in DOMAIN @ |->
                        IF c \in done THEN IF success THEN "succeeded" ELSE "failed" ELSE @[c]],
          !.in_flight = Minus(@, Cardinality(done)),
          !.responses = IF success THEN @ + Cardinality(done) ELSE @]

(* defer: queries that were not sent are as if they had not been tried.    *)
defer(l, C) ==
    LET back == C \cap InState(l, "in_flight")
    IN [l EXCEPT !.states = [c \in DOMAIN @ |-> IF c \in back THEN "unqueried" ELSE @[c]],
                 !.attempted = @ \ {l.node[c].address : c \in back},
                 !.in_flight = @ - Cardinality(back), !.started = @ - Cardinality(back)]

(* The candidates that are kept when there are too many of them: sorted,   *)
(* those that were tried before the unqueried ones, each by distance.      *)
KeepNearest(st) == Nearest(DOMAIN st, max_candidates)
Keep(st) ==
    LET unqueried == {c \in DOMAIN st : st[c] = "unqueried"}
        tried == DOMAIN st \ unqueried
    IN Nearest(tried, max_candidates)
       \cup Nearest(unqueried, Minus(max_candidates, Cardinality(tried)))

(* The nodes that an answer names join the candidates; an address from the *)
(* table replaces a claim about a candidate that was not tried.            *)
Corrected(l, discovered, said) ==
    {c \in DOMAIN l.states \cap discovered :
        said[c].verified /\ ~l.node[c].verified /\ l.states[c] = "unqueried"}
Joined(l, discovered) ==
    [c \in DOMAIN l.states \cup discovered |->
        IF c \in DOMAIN l.states THEN l.states[c] ELSE "unqueried"]
Extended(l, discovered, said) ==
    LET joined == Joined(l, discovered)
        kept == Keep(joined)
        old == DOMAIN l.states \ Corrected(l, discovered, said)
    IN [l EXCEPT !.states = [c \in kept |-> joined[c]],
                 !.node = [c \in kept |-> IF c \in old THEN l.node[c] ELSE said[c]]]

is_complete(l) ==
    /\ l.in_flight = 0
    /\ \/ l.started >= max_queries
       \/ closest_valid(l.states, shortlist_size) \subseteq InState(l, "succeeded")

-----------------------------------------------------------------------------
(* Events.                                                                 *)

Event == pc = "select" /\ pc' = "advance"

(* complete_success: the answer of a node the security rule trusts or not, *)
(* with the nodes it names, as far as the table knows them or the policy   *)
(* accepts them.                                                           *)
Answered(c, trusted, discovered, said) ==
    /\ Event /\ c \in outstanding /\ outstanding' = outstanding \ {c}
    /\ \E l \in {finish_candidate(Now, {c}, trusted)} :
         \E m \in {Extended(l, discovered, said)} : Becomes(m)
    /\ UNCHANGED <<kind, schedule, refusals>>
(* complete_failure: a timeout, an error or an invalid answer.             *)
QueryFailed(c) ==
    /\ Event /\ c \in outstanding /\ outstanding' = outstanding \ {c}
    /\ \E l \in {finish_candidate(Now, {c}, FALSE)} : Becomes(l)
    /\ UNCHANGED <<kind, schedule, refusals>>
(* finish_start_error for a query that waited in the queue.                *)
Unsent(c) ==
    /\ Event /\ c \in outstanding /\ outstanding' = outstanding \ {c}
    /\ refusals < MaxRefusals /\ refusals' = refusals + 1
    /\ Becomes(defer(Now, {c})) /\ UNCHANGED <<kind, schedule>>
(* The pause after a lookup ends, or a bucket has been quiet for long.     *)
Due ==
    /\ Event /\ ~not_before /\ not_before' = TRUE
    /\ UNCHANGED <<lookup, outstanding, startup_complete, retry_delay, refusals>>
OtherEvent == Event /\ UNCHANGED <<lookup, outstanding, schedule, refusals>>

-----------------------------------------------------------------------------
(* advance_maintenance.                                                    *)

FreshLookup(nodes) ==
    [states |-> [c \in DOMAIN nodes |-> "unqueried"], node |-> nodes, attempted |-> {},
     in_flight |-> 0, started |-> 0, responses |-> 0]
schedule_retry ==
    /\ not_before' = FALSE
    /\ retry_delay' = LeastOf({retry_delay + 1, MaxDelay})

(* begin_if_due, with the contacts that the table offers, the nearest to   *)
(* the target.                                                             *)
BeginIfDue(seeds, said) ==
    /\ pc = "advance" /\ kind = "none" /\ not_before
    /\ Cardinality(seeds) <= max_candidates
    /\ IF seeds = {}
       THEN /\ schedule_retry /\ pc' = "select"
            /\ UNCHANGED <<lookup, outstanding, startup_complete, refusals>>
       ELSE /\ kind' = IF startup_complete THEN "refresh" ELSE "startup"
            /\ Becomes(FreshLookup([c \in seeds |-> [said[c] EXCEPT !.verified = TRUE]]))
            /\ UNCHANGED <<pc, outstanding, schedule, refusals>>

(* finish_if_complete.                                                     *)
Finish(l) ==
    /\ kind' = "none" /\ Becomes(FreshLookup(NoCandidates)) /\ not_before' = FALSE
    /\ IF l.responses > 0
       THEN /\ startup_complete' = (startup_complete \/ kind = "startup")
            /\ retry_delay' = 0
       ELSE /\ retry_delay' = LeastOf({retry_delay + 1, MaxDelay})
            /\ UNCHANGED startup_complete

(* No lookup is due, as the pause lasts, the table is empty or no bucket   *)
(* is stale; or it is over, or the next queries go out: those at refused   *)
(* addresses fail at once, those that cannot be queued are deferred.       *)
Idle ==
    /\ pc = "advance" /\ kind = "none" /\ pc' = "select"
    /\ UNCHANGED <<lookup, outstanding, schedule, refusals>>
FinishIfComplete ==
    /\ pc = "advance" /\ kind # "none" /\ is_complete(Now)
    /\ Finish(Now) /\ pc' = "select"
    /\ UNCHANGED <<outstanding, refusals>>
TakeNext(capacity, rejected, refused) ==
    /\ pc = "advance" /\ kind # "none" /\ ~is_complete(Now) /\ pc' = "select"
    /\ refusals + Cardinality(refused) <= MaxRefusals
    /\ refusals' = refusals + Cardinality(refused)
    /\ outstanding' = outstanding \cup (Asked(Now, capacity) \ (rejected \cup refused))
    /\ \E asked \in {take_next(Now, capacity)} :
         \E l \in {defer(finish_candidate(asked, rejected, FALSE), refused)} :
            IF is_complete(l) THEN Finish(l)
            ELSE Becomes(l) /\ UNCHANGED <<kind, schedule>>

(* clear_queries of an identity change, and the new MaintenanceState.      *)
IdentityChanges ==
    /\ pc = "select" /\ pc' = "advance"
    /\ kind' = "none" /\ Becomes(FreshLookup(NoCandidates)) /\ outstanding' = {}
    /\ startup_complete' = FALSE /\ not_before' = TRUE /\ retry_delay' = 0
    /\ UNCHANGED refusals

-----------------------------------------------------------------------------
Advance ==
    /\ pc = "advance"
    /\ \/ \E seeds \in SUBSET Candidates, said \in Claims : BeginIfDue(seeds, said)
       \/ Idle \/ FinishIfComplete
       \/ \E capacity \in 0 .. lookup_parallelism :
            \E rejected \in SUBSET Asked(Now, capacity) :
               \E refused \in SUBSET (Asked(Now, capacity) \ rejected) :
                  TakeNext(capacity, rejected, refused)
QueryEnds(c) ==
    \/ \E trusted \in BOOLEAN, found \in SUBSET Candidates, said \in Claims :
          Answered(c, trusted, found, said)
    \/ QueryFailed(c)

LookupNext ==
    \/ Advance
    \/ \E c \in Candidates : QueryEnds(c) \/ Unsent(c)
    \/ Due \/ OtherEvent \/ IdentityChanges

LookupSpec == LookupInit /\ [][LookupNext]_maintenanceVars

(* The loop turns, other events keep coming to a node in service, a query  *)
(* ends at the latest with its timeout, and free transactions come back.   *)
Timeout == \E c \in Candidates : QueryFailed(c)
TakeAll == TakeNext(lookup_parallelism, {}, {})
Fairness ==
    /\ WF_maintenanceVars(Advance) /\ WF_maintenanceVars(OtherEvent)
    /\ SF_maintenanceVars(TakeAll) /\ SF_maintenanceVars(Timeout)
FairLookupSpec == LookupSpec /\ Fairness

-----------------------------------------------------------------------------
(* Properties.                                                             *)

(* The lookup counts what it asked: in_flight is the number of candidates  *)
(* in flight, and these are exactly the queries that have yet to end, so   *)
(* that none is cut off with the candidates that are too many.  A count    *)
(* that stayed above zero would keep the lookup from ever ending, and with *)
(* it every later refresh.                                                 *)
QueriesAreCounted ==
    /\ in_flight = Cardinality(InState(Now, "in_flight"))
    /\ InState(Now, "in_flight") = outstanding
    /\ in_flight <= lookup_parallelism
    /\ kind = "none" => outstanding = {}

(* No address is asked twice, though claims about addresses are corrected, *)
(* and a query that was not sent leaves no mark.                           *)
NoAddressTwice ==
    queries_started = Cardinality(attempted) /\ queries_started <= max_queries

(* Every lookup ends, though nodes keep silent or name others without end, *)
(* and queries are refused or leave the queue unsent.                      *)
LookupEnds == kind # "none" ~> kind = "none"

(* A maintenance lookup counts exactly the queries that have yet to end,   *)
(* asks no address twice, and ends.                                        *)
LookupIsSound == [](QueriesAreCounted /\ NoAddressTwice) /\ LookupEnds
=============================================================================
