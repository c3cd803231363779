------------------------------ MODULE Traffic ------------------------------
(***************************************************************************)
(* The budget that the nodes of a session share (dht/traffic/state.rs and  *)
(* limiter.rs): rates for each class of query, for every IP, for bytes and *)
(* for what comes in, and the permits for queries that verify a stranger.  *)
(* Every operation is done under one lock and is a step here.              *)
(*                                                                         *)
(* A limiter is the part of its burst that is used up; time gives it back. *)
(* The state of an IP lives in a table of bounded size, from which those   *)
(* that were quiet for a minute are dropped when the table is next used.   *)
(***************************************************************************)
EXTENDS Integers, FiniteSets

CONSTANTS
    Classes, Remotes,
    Burst, IpBurst,     \* of the shared limiters, and of the two of an IP
    MaxIps,             \* 10000
    Quiet, VerifyPause, \* both 60 s
    verification_limit,
    PacketBytes         \* how long a packet can be

Shared == Classes \cup {"query_bytes", "reply_bytes", "inbound", "responses"}

ASSUME TrafficAssumption ==
    /\ IsFiniteSet(Remotes) /\ Quiet \in Nat /\ VerifyPause \in Nat /\ verification_limit \in Nat
    /\ Classes \cap {"query_bytes", "reply_bytes", "inbound", "responses"} = {}
    /\ Burst \in [Shared -> Nat] /\ PacketBytes \subseteq Nat

VARIABLES
    used,               \* of the shared limiters
    ips,                \* [queries, inbound, quiet, cooldown] of the IPs in the table
    permits,            \* of each IP, the verifications that wait to be sent
    verification_queued,
    decision,           \* of the last operation: granted or not
    verified_since      \* of each IP, the time since its last verification, up to VerifyPause

trafficVars == <<used, ips, permits, verification_queued, decision, verified_since>>

TrafficInit ==
    /\ used = [l \in Shared |-> 0] /\ ips = [i \in {} |-> 0]
    /\ permits = [i \in Remotes |-> 0] /\ verification_queued = 0 /\ decision = FALSE
    /\ verified_since = [i \in Remotes |-> VerifyPause]

(* clean, then an entry for the IP if there is room.                       *)
clean == [i \in {i \in DOMAIN ips : ips[i].quiet < Quiet \/ ips[i].cooldown > 0} |-> ips[i]]
Full(i) == i \notin DOMAIN clean /\ Cardinality(DOMAIN clean) >= MaxIps
NewEntry == [queries |-> 0, inbound |-> 0, quiet |-> 0, cooldown |-> 0]
Replaces(i) ==
    IF Full(i) THEN clean
    ELSE [j \in DOMAIN clean \cup {i} |-> IF j # i THEN clean[j] ELSE NewEntry]
track(i) ==
    IF Full(i) THEN clean
    ELSE [j \in DOMAIN clean \cup {i} |->
            IF j # i THEN clean[j]
            ELSE IF i \in DOMAIN clean THEN [clean[i] EXCEPT !.quiet = 0] ELSE NewEntry]

(* check: a shared limiter, and one of an IP.                              *)
Free(l, n) == used[l] + n <= Burst[l]
IpFree(i, l) == track(i)[i][l] + 1 <= IpBurst
Spend(l, n) == [used EXCEPT ![l] = @ + n]
UnchangedPermits == UNCHANGED <<permits, verification_queued, verified_since>>

(* All of the three limits, or none of them is touched.                    *)
query_observed(class, i, bytes) ==
    /\ decision' = (/\ ~Full(i) /\ Free(class, 1) /\ IpFree(i, "queries")
                    /\ Free("query_bytes", bytes))
    /\ IF decision'
       THEN /\ used' = [used EXCEPT ![class] = @ + 1, !["query_bytes"] = @ + bytes]
            /\ ips' = [track(i) EXCEPT ![i].queries = @ + 1]
       ELSE ips' = track(i) /\ UNCHANGED used
    /\ UnchangedPermits

(* inbound: an answer that is awaited has a limit of its own, the rest is  *)
(* ordinary, as is a query that pretended to be an answer.                 *)
inbound_response ==
    /\ decision' = Free("responses", 1)
    /\ used' = IF decision' THEN Spend("responses", 1) ELSE used
    /\ UNCHANGED ips /\ UnchangedPermits
ordinary(i) ==
    /\ decision' = (~Full(i) /\ Free("inbound", 1) /\ IpFree(i, "inbound"))
    /\ IF decision'
       THEN used' = Spend("inbound", 1) /\ ips' = [track(i) EXCEPT ![i].inbound = @ + 1]
       ELSE ips' = track(i) /\ UNCHANGED used
    /\ UnchangedPermits
budget_reply(bytes) ==
    /\ decision' = Free("reply_bytes", bytes)
    /\ used' = IF decision' THEN Spend("reply_bytes", bytes) ELSE used
    /\ UNCHANGED ips /\ UnchangedPermits

(* The pause of the IP begins with the permit, which is given back when    *)
(* the query leaves the queue.                                             *)
admit_verification(i) ==
    /\ decision' = (/\ ~Full(i) /\ track(i)[i].cooldown = 0
                    /\ verification_queued < verification_limit)
    /\ IF decision'
       THEN /\ ips' = [track(i) EXCEPT ![i].cooldown = VerifyPause]
            /\ verification_queued' = verification_queued + 1
            /\ permits' = [permits EXCEPT ![i] = @ + 1]
            /\ verified_since' = [verified_since EXCEPT ![i] = 0]
       ELSE ips' = track(i) /\ UNCHANGED <<permits, verification_queued, verified_since>>
    /\ UNCHANGED used
DropPermit(i) ==
    /\ permits[i] > 0 /\ permits' = [permits EXCEPT ![i] = @ - 1]
    /\ verification_queued' = verification_queued - 1
    /\ UNCHANGED <<used, ips, decision, verified_since>>

Minus(n) == IF n > 0 THEN n - 1 ELSE 0
Refill ==
    /\ used' = [l \in Shared |-> Minus(used[l])]
    /\ ips' = [i \in DOMAIN ips |->
                 [queries |-> Minus(ips[i].queries), inbound |-> Minus(ips[i].inbound),
                  quiet |-> IF ips[i].quiet < Quiet THEN ips[i].quiet + 1 ELSE Quiet,
                  cooldown |-> Minus(ips[i].cooldown)]]
    /\ verified_since' =
         [i \in Remotes |-> IF verified_since[i] < VerifyPause THEN verified_since[i] + 1
                           ELSE VerifyPause]
    /\ decision' = FALSE /\ UNCHANGED <<permits, verification_queued>>

TrafficNext ==
    \/ \E i \in Remotes :
         \/ \E class \in Classes, bytes \in PacketBytes : query_observed(class, i, bytes)
         \/ ordinary(i) \/ admit_verification(i) \/ DropPermit(i)
    \/ \E bytes \in PacketBytes : budget_reply(bytes)
    \/ inbound_response \/ Refill

TrafficSpec == TrafficInit /\ [][TrafficNext]_trafficVars

-----------------------------------------------------------------------------
(* The permits that are out: the first, second, ... of each IP.            *)
Outstanding == UNION {{i} \X (1..permits[i]) : i \in Remotes}

(* A stranger's IP is verified at most once per pause, though its entry in *)
(* the table comes and goes; the permits that are out are counted; and no  *)
(* limit is overdrawn by operations that test several and then spend.      *)
VerificationsAreRare ==
    /\ [][\A i \in Remotes : verified_since'[i] < verified_since[i]
                             => verified_since[i] = VerifyPause]_trafficVars
    /\ [](/\ verification_queued = Cardinality(Outstanding)
          /\ verification_queued <= verification_limit)
    /\ [](\A l \in Shared : used[l] <= Burst[l])
=============================================================================
