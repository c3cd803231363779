------------------------------- MODULE Worker -------------------------------
(***************************************************************************)
(* One claimed job at work (collection/worker.rs): the addresses that      *)
(* announces hinted at and those that the get_peers lookups find           *)
(* (collection/lookup.rs), tried one at a time until the metadata is there *)
(* or nothing is left to try.                                              *)
(*                                                                         *)
(* The lookup has no task of its own: it moves only while run_job waits,   *)
(* for a candidate or for a download, and each of the two selects is       *)
(* biased towards it, so that nothing else happens in run_job once the     *)
(* lookup has a result.  A candidate node is its distance to the hash.     *)
(***************************************************************************)
EXTENDS Shortlist, Gather

CONSTANTS
    Families,           \* the nodes of the process, one for IPv4, one for IPv6
    RemoteNodes, Address,   \* the remote nodes of a family, and where they are
    Answers,            \* lists of peers that an answer may carry
    hints,              \* job.peers
    Accepted,           \* the peers that policy and address family accept
    MAX_PEER_ATTEMPTS,
    lookup_parallelism, shortlist_size, max_queries, max_candidates,    \* of search
    max_peers, channel_size                                             \* both 32

(* All addresses that the job can come by.                                 *)
Offered == ToSet(hints) \cup UNION {ToSet(a) : a \in Answers}

ASSUME JobAssumption ==
    /\ hints \in Seq(Offered) /\ Answers \subseteq Seq(Offered)
    /\ MAX_PEER_ATTEMPTS \in Nat /\ max_peers \in Nat /\ channel_size \in Nat
    /\ max_peers <= channel_size

VARIABLES
    job_pc,             \* of run_job: "next", "waiting", "attempt", "done"
    first_hints, remaining_hints, selected,             \* CandidateSelector
    channel,            \* peers on their way from the lookup
    job_stage,          \* ExecutionStage
    dialled,            \* a peer was dialled
    summary,            \* the lookup has returned
    last,               \* a peer has failed
    outcome, task_timeout,
    family,             \* the search of each family
    peers,              \* PeerOutput::peers, which the searches share
    found_seeds, sent, limited, lookup_fault

selector == <<first_hints, remaining_hints, selected>>
lookup == <<family, peers, found_seeds, sent, limited, lookup_fault>>
jobVars ==
    <<job_pc, selector, channel, job_stage, dialled, summary, last, outcome, task_timeout, lookup>>

Eligible == Kept(hints, Accepted)
FirstHints(n) == SubSeq(Eligible, 1, IF Len(Eligible) < n THEN Len(Eligible) ELSE n)

(* CandidateSelector::new and the searches before they have their seeds.   *)
JobInit ==
    /\ job_pc = "next" /\ first_hints = FirstHints(2)
    /\ remaining_hints = SubSeq(Eligible, Len(FirstHints(2)) + 1, Len(Eligible))
    /\ selected = {} /\ channel = <<>> /\ job_stage = "local_wait" /\ dialled = FALSE
    /\ summary = FALSE /\ last = FALSE /\ outcome = "none" /\ task_timeout = FALSE
    /\ family = [f \in Families |-> [phase |-> "seeds", candidates |-> {},
                                     states |-> [c \in {} |-> "failed"], addresses |-> {}]]
    /\ peers = <<>> /\ found_seeds = FALSE /\ sent = FALSE /\ limited = FALSE
    /\ lookup_fault = "none"

-----------------------------------------------------------------------------
(* The searches.                                                           *)

StateOf(r, c) == IF c \in DOMAIN r.states THEN r.states[c] ELSE "unqueried"
Closest(r) == closest_valid([c \in r.candidates |-> StateOf(r, c)], shortlist_size)
Unasked(r) == Closest(r) \ DOMAIN r.states
Pending(r) == {c \in DOMAIN r.states : r.states[c] = "in_flight"}
queries(r) == Cardinality(r.addresses)      \* an address is asked once
Room(r) ==
    LET slots == lookup_parallelism - Cardinality(Pending(r)) left == max_queries - queries(r)
    IN IF slots < left THEN slots ELSE left

(* The lookup is polled while run_job waits, until it has returned.        *)
Returns == ~summary /\ (lookup_fault # "none" \/ \A f \in Families : family[f].phase = "ended")
Polled == job_pc \in {"waiting", "attempt"} /\ ~summary /\ ~Returns
UnchangedJob ==
    UNCHANGED <<job_pc, selector, job_stage, dialled, summary, last, outcome, task_timeout>>

(* family: the seeds from the routing table, or the fault of the node.     *)
fetch_seeds(f, seeds) ==
    /\ Polled /\ family[f].phase = "seeds"
    /\ family' = [family EXCEPT ![f].phase = IF seeds = {} THEN "ended" ELSE "top",
                                ![f].candidates = seeds]
    /\ found_seeds' = (found_seeds \/ seeds # {})
    /\ UNCHANGED <<channel, peers, sent, limited, lookup_fault>> /\ UnchangedJob
SeedsFail(f, error) ==
    /\ Polled /\ family[f].phase = "seeds"
    /\ family' = [family EXCEPT ![f].phase = "ended"] /\ lookup_fault' = error
    /\ UNCHANGED <<channel, peers, found_seeds, sent, limited>> /\ UnchangedJob

(* The nearest nodes that were not asked are, while there is room; one at  *)
(* an address asked before fails.                                          *)
Duplicate(r, c) ==
    Address[c] \in r.addresses \/ \E d \in Unasked(r) : d < c /\ Address[d] = Address[c]
Launched(r) == Nearest({c \in Unasked(r) : ~Duplicate(r, c)}, Room(r))
Passed(r) ==
    {c \in Unasked(r) : Duplicate(r, c) /\ Cardinality({d \in Launched(r) : d < c}) < Room(r)}
Launch(r) ==
    [r EXCEPT
       !.states = [c \in DOMAIN @ \cup Launched(r) \cup Passed(r) |->
                     IF c \in DOMAIN @ THEN @[c]
                     ELSE IF c \in Launched(r) THEN "in_flight" ELSE "failed"],
       !.addresses = @ \cup {Address[c] : c \in Launched(r)}]
(* One turn of the loop of search up to the wait for an answer.            *)
search(f) ==
    /\ Polled /\ family[f].phase = "top"
    /\ \E r \in {Launch(family[f])} :
         family' = [family EXCEPT ![f] =
            IF Len(peers) >= max_peers THEN [@ EXCEPT !.phase = "ended"]
            ELSE IF Pending(r) # {} THEN [r EXCEPT !.phase = "wait"]
            ELSE IF queries(r) < max_queries /\ Unasked(r) # {} THEN r
            ELSE [r EXCEPT !.phase = "ended"]]
    /\ UNCHANGED <<channel, peers, found_seeds, sent, limited, lookup_fault>> /\ UnchangedJob

Awaits(f, c) == Polled /\ family[f].phase = "wait" /\ c \in Pending(family[f])
(* query: after the pause that pace imposes the node sends it, or the node *)
(* has no room for it and query tries again.                               *)
Send(f, c) ==
    /\ Awaits(f, c) /\ sent' = TRUE
    /\ UNCHANGED <<channel, family, peers, found_seeds, limited, lookup_fault>> /\ UnchangedJob
Limited(f, c) ==
    /\ Awaits(f, c) /\ limited' = TRUE
    /\ UNCHANGED <<channel, family, peers, found_seeds, sent, lookup_fault>> /\ UnchangedJob

(* An answer: the nodes it names, of which the nearest are kept, and the   *)
(* peers that are new, as many as there is room for.                       *)
Grown(answer) == Collected(peers, answer, ToSet(answer), max_peers)
News(answer) == SubSeq(Grown(answer), Len(peers) + 1, Len(Grown(answer)))
Deliver(news) ==
    channel' = channel \o SubSeq(news, 1, IF Len(news) < channel_size - Len(channel)
                                          THEN Len(news) ELSE channel_size - Len(channel))
AnswerComes(f, c, trusted, nodes, answer) ==
    /\ Awaits(f, c) /\ sent
    /\ family' = [family EXCEPT
                    ![f].phase = "top",
                    ![f].states[c] = IF trusted THEN "succeeded" ELSE "failed",
                    ![f].candidates = Nearest(@ \cup nodes, max_candidates)]
    /\ peers' = Grown(answer) /\ Deliver(News(answer))
    /\ UNCHANGED <<found_seeds, sent, limited, lookup_fault>> /\ UnchangedJob
Failed(f, c) ==
    /\ Awaits(f, c)
    /\ family' = [family EXCEPT ![f].phase = "top", ![f].states[c] = "failed"]
    /\ UNCHANGED <<channel, peers, found_seeds, sent, limited, lookup_fault>> /\ UnchangedJob
Faulted(f, c, error) ==
    /\ Awaits(f, c)
    /\ family' = [family EXCEPT ![f].phase = "ended"] /\ lookup_fault' = error
    /\ UNCHANGED <<channel, peers, found_seeds, sent, limited>> /\ UnchangedJob

-----------------------------------------------------------------------------
(* run_job.                                                                *)

Finish(result) == job_pc' = "done" /\ outcome' = result

(* No address is left, or enough were tried.                               *)
GiveUp ==
    Finish(IF last \/ sent THEN "failed"
           ELSE IF limited \/ (summary' /\ found_seeds) THEN "resource_wait" ELSE "no_route")

(* A candidate is passed over, or an attempt begins with the wait for the  *)
(* permit of its IP.                                                       *)
select_once(p) ==
    IF p \in Accepted \ selected
    THEN /\ selected' = selected \cup {p} /\ job_pc' = "attempt" /\ job_stage' = "local_wait"
    ELSE job_pc' = "next" /\ UNCHANGED <<selected, job_stage>>

next_ready ==
    /\ job_pc = "next" /\ Cardinality(selected) < MAX_PEER_ATTEMPTS
    /\ \/ /\ first_hints # <<>> /\ select_once(Head(first_hints))
          /\ first_hints' = Tail(first_hints) /\ UNCHANGED <<remaining_hints, channel>>
       \/ /\ first_hints = <<>> /\ channel # <<>> /\ select_once(Head(channel))
          /\ channel' = Tail(channel) /\ UNCHANGED <<first_hints, remaining_hints>>
       \/ /\ first_hints = <<>> /\ channel = <<>> /\ remaining_hints # <<>>
          /\ select_once(Head(remaining_hints)) /\ remaining_hints' = Tail(remaining_hints)
          /\ UNCHANGED <<first_hints, channel>>
    /\ UNCHANGED <<dialled, summary, last, outcome, task_timeout, lookup>>

(* Nothing to try now: run_job waits for the lookup, or is at its end.     *)
NothingReady ==
    /\ job_pc = "next"
    /\ \/ Cardinality(selected) >= MAX_PEER_ATTEMPTS
       \/ first_hints \o channel \o remaining_hints = <<>>
    /\ IF Cardinality(selected) < MAX_PEER_ATTEMPTS /\ ~summary
       THEN job_pc' = "waiting" /\ job_stage' = "dht" /\ UNCHANGED <<summary, outcome>>
       ELSE UNCHANGED <<summary, job_stage>> /\ GiveUp
    /\ UNCHANGED <<selector, channel, dialled, last, task_timeout, lookup>>

Receive ==
    /\ job_pc = "waiting" /\ ~Returns /\ channel # <<>>
    /\ select_once(Head(channel)) /\ channel' = Tail(channel)
    /\ UNCHANGED <<first_hints, remaining_hints, dialled, summary, last, outcome, task_timeout>>
    /\ UNCHANGED lookup

(* The lookup has a result: all families are through, one met a fault, or  *)
(* its 30 seconds are over.  The peers it left in the channel are tried.   *)
ReturnTakesNone(late) ==
    /\ job_pc \in {"waiting", "attempt"} /\ ~summary /\ (Returns \/ late)
    /\ summary' = TRUE
    /\ \/ /\ lookup_fault # "none" /\ Finish(lookup_fault)
          /\ UNCHANGED <<selector, channel, job_stage>>
       \/ /\ lookup_fault = "none" /\ job_pc = "attempt"
          /\ UNCHANGED <<job_pc, selector, channel, job_stage, outcome>>
       \/ /\ lookup_fault = "none" /\ job_pc = "waiting"
          /\ GiveUp /\ UNCHANGED <<selector, channel, job_stage>>
    /\ UNCHANGED <<dialled, last, task_timeout, lookup>>
LookupReturns(late) ==
    /\ job_pc \in {"waiting", "attempt"} /\ ~summary /\ (Returns \/ late)
    /\ summary' = TRUE
    /\ \/ /\ lookup_fault # "none" /\ Finish(lookup_fault)
          /\ UNCHANGED <<selector, channel, job_stage>>
       \/ /\ lookup_fault = "none" /\ job_pc = "attempt"
          /\ UNCHANGED <<job_pc, selector, channel, job_stage, outcome>>
       \/ /\ lookup_fault = "none" /\ job_pc = "waiting" /\ channel # <<>>
          /\ select_once(Head(channel)) /\ channel' = Tail(channel)
          /\ UNCHANGED <<first_hints, remaining_hints, outcome>>
       \/ /\ lookup_fault = "none" /\ job_pc = "waiting" /\ channel = <<>>
          /\ GiveUp /\ UNCHANGED <<selector, channel, job_stage>>
    /\ UNCHANGED <<dialled, last, task_timeout, lookup>>

(* The permit is there and the peer is dialled; its session ends.          *)
Dial ==
    /\ job_pc = "attempt" /\ ~Returns /\ job_stage = "local_wait" /\ job_stage' = "peer"
    /\ dialled' = TRUE
    /\ UNCHANGED <<job_pc, selector, channel, summary, last, outcome, task_timeout, lookup>>
AttemptBeforeLookup(success) ==
    /\ job_pc = "attempt" /\ job_stage = "peer"
    /\ IF success THEN Finish("success") /\ UNCHANGED last
       ELSE job_pc' = "next" /\ last' = TRUE /\ UNCHANGED outcome
    /\ UNCHANGED <<selector, channel, job_stage, dialled, summary, task_timeout, lookup>>
AttemptEnds(success) ==
    /\ job_pc = "attempt" /\ ~Returns /\ job_stage = "peer"
    /\ IF success THEN Finish("success") /\ UNCHANGED last
       ELSE job_pc' = "next" /\ last' = TRUE /\ UNCHANGED outcome
    /\ UNCHANGED <<selector, channel, job_stage, dialled, summary, task_timeout, lookup>>

(* The task's 180 seconds are over, or its token is cancelled.             *)
TimeoutIsCharged ==
    /\ job_pc \in {"waiting", "attempt"} /\ ~Returns /\ task_timeout' = TRUE
    /\ Finish("failed")
    /\ UNCHANGED <<selector, channel, job_stage, dialled, summary, last, lookup>>
TaskTimeout ==
    /\ job_pc \in {"waiting", "attempt"} /\ ~Returns /\ task_timeout' = TRUE
    /\ Finish(IF job_stage \in {"local_wait", "dht"} /\ (summary \/ ~sent)
              THEN "resource_wait" ELSE "failed")
    /\ UNCHANGED <<selector, channel, job_stage, dialled, summary, last, lookup>>
CancelJob ==
    /\ job_pc \in {"waiting", "attempt"} /\ Finish("cancelled")
    /\ UNCHANGED <<selector, channel, job_stage, dialled, summary, last, task_timeout, lookup>>

Done == job_pc = "done" /\ UNCHANGED jobVars

-----------------------------------------------------------------------------
LookupFaults == {"control", "identity_changed"}
JobNext ==
    \/ \E f \in Families :
         \/ \E seeds \in SUBSET RemoteNodes[f] : fetch_seeds(f, seeds)
         \/ \E error \in LookupFaults : SeedsFail(f, error)
         \/ search(f)
         \/ \E c \in RemoteNodes[f] :
              \/ Send(f, c) \/ Limited(f, c) \/ Failed(f, c)
              \/ \E error \in LookupFaults : Faulted(f, c, error)
              \/ \E trusted \in BOOLEAN, nodes \in SUBSET RemoteNodes[f], answer \in Answers :
                    AnswerComes(f, c, trusted, nodes, answer)
    \/ next_ready \/ NothingReady \/ Receive \/ Dial
    \/ \E late \in BOOLEAN : LookupReturns(late)
    \/ \E success \in BOOLEAN : AttemptEnds(success)
    \/ TaskTimeout \/ CancelJob \/ Done

JobSpec == JobInit /\ [][JobNext]_jobVars

-----------------------------------------------------------------------------
(* Properties.                                                             *)

(* A job that ends for want of addresses has either tried as many as it    *)
(* may, or its lookup is over and every usable address was tried, those    *)
(* that the lookup handed over in its last moment included: the channel    *)
(* never loses one.                                                        *)
NothingIsOverlooked ==
    outcome \in {"failed", "resource_wait", "no_route"} /\ ~task_timeout =>
        \/ Cardinality(selected) = MAX_PEER_ATTEMPTS
        \/ summary /\ (ToSet(hints) \cup ToSet(peers)) \cap Accepted \subseteq selected

(* A control fault of the node decides the job as soon as the lookup has   *)
(* met it: a download that ends in the same moment does not hide it, and   *)
(* only the cancellation of the job comes first.                           *)
FaultIsReported ==
    lookup_fault # "none" /\ outcome # "none" => outcome \in {lookup_fault, "cancelled"}

(* A failed attempt is charged to the hash only after something was sent,  *)
(* to a node or to a peer; a job that ends for want of addresses without   *)
(* that is never charged, and always with it.                              *)
ChargeIsFair ==
    LET networked == sent \/ dialled
    IN /\ outcome = "failed" => networked
       /\ outcome \in {"resource_wait", "no_route"} /\ ~task_timeout => ~networked

(* A job gives up only when it has tried what there was to try; a control  *)
(* fault that the lookup met decides it, and an attempt is charged only    *)
(* after something was sent.                                               *)
JobsEndForAReason == NothingIsOverlooked /\ FaultIsReported /\ ChargeIsFair
=============================================================================
