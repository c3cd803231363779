------------------------------ MODULE Identity ------------------------------
(***************************************************************************)
(* The identity of a DHT node (dht/security.rs, dht/persistence/           *)
(* identity.rs, dispatcher/recovery.rs, app/session/startup.rs).  Answers  *)
(* tell the node from which address they see it; when enough networks      *)
(* agree on a new one the node takes an identifier that fits it, first on  *)
(* disk and then in memory, and keeps it for a while, over restarts too.   *)
(*                                                                         *)
(* Times are relative: the age of a vote, what is left of the pause in     *)
(* memory, and how long ago, by the wall clock, the row on disk was        *)
(* changed.  The wall clock may be set back.                               *)
(***************************************************************************)
EXTENDS Integers, FiniteSets

CONSTANTS
    Networks,           \* networks that answers come from
    Ips,                \* public addresses
    MinVotes, MaxVotes, \* 3 and 64
    VoteLife, Cooldown, \* 600 s and 1800 s
    MaxBack             \* bound: how far the wall clock is set back

ASSUME IdentityAssumption == Cooldown \in Nat /\ MaxBack \in Nat

VARIABLES
    pc,                 \* "down", "up", "binding", "bound", "paused"
    disk,               \* the row: [id, ip, elapsed]
    identity,           \* LocalIdentity in memory
    external, votes, switch_left, fixed,    \* AddressConsensus
    target, waited,     \* the address that is being bound, and for how long
    since               \* the time since the last change of address was decided
                        \* on, up to Cooldown

memory == <<identity, external, votes, switch_left, fixed>>
identityVars == <<pc, disk, memory, target, waited, since>>

NoIp == "none"
Id(ip, n) == [ip |-> ip, draw |-> n]
NoVotes == [p \in {} |-> 0]

(* A row that load_or_create has just made, with a random identifier.      *)
IdentityInit ==
    /\ pc = "down" /\ disk = [id |-> Id(NoIp, 0), ip |-> NoIp, elapsed |-> Cooldown]
    /\ identity = Id(NoIp, 0) /\ external = NoIp /\ votes = NoVotes
    /\ switch_left = 0 /\ fixed = FALSE /\ target = NoIp /\ waited = 0 /\ since = Cooldown

valid(id, ip) == id.ip = ip
generate(ip) == Id(ip, 1 - disk.id.draw)
Least(a, b) == IF a < b THEN a ELSE b
Most(a, b) == IF a > b THEN a ELSE b

cooldown_remaining == Cooldown - Most(disk.elapsed, 0)
(* bind: the row is replaced in one step, with the time that the clock     *)
(* showed a while before.                                                  *)
Bound(ip, age) == [id |-> generate(ip), ip |-> ip, elapsed |-> age]

(* Startup: an address that is configured is bound if it is new, and wins. *)
StartOn(row, config) ==
    /\ pc' = "up" /\ disk' = row /\ identity' = row.id
    /\ external' = row.ip /\ fixed' = (config # NoIp) /\ votes' = NoVotes
    /\ target' = NoIp /\ waited' = 0
StartForgets(config) ==
    /\ pc = "down"
    /\ IF config # NoIp /\ disk.ip # config
       THEN StartOn(Bound(config, 0), config) /\ switch_left' = 0 /\ since' = 0
       ELSE StartOn(disk, config) /\ switch_left' = 0 /\ UNCHANGED since
Start(config) ==
    /\ pc = "down"
    /\ IF config # NoIp /\ disk.ip # config
       THEN StartOn(Bound(config, 0), config) /\ switch_left' = Cooldown /\ since' = 0
       ELSE StartOn(disk, config) /\ switch_left' = cooldown_remaining /\ UNCHANGED since

(* observe: one vote per network; an agreement on another address begins   *)
(* rotate_identity at once, unless the last change is too recent.          *)
Voted(p, ip) ==
    IF p \notin DOMAIN votes /\ Cardinality(DOMAIN votes) >= MaxVotes THEN votes
    ELSE [q \in DOMAIN votes \cup {p} |-> IF q = p THEN [ip |-> ip, age |-> 0] ELSE votes[q]]
Agreed(v, ip) ==
    LET count == Cardinality({q \in DOMAIN v : v[q].ip = ip})
    IN count >= MinVotes /\ count * 3 >= Cardinality(DOMAIN v) * 2
observe(p, ip) ==
    /\ pc = "up" /\ ~fixed
    /\ votes' = Voted(p, ip)
    /\ IF Agreed(Voted(p, ip), ip) /\ external # ip /\ switch_left = 0
       THEN pc' = "binding" /\ target' = ip /\ waited' = 0
       ELSE UNCHANGED <<pc, target, waited>>
    /\ UNCHANGED <<disk, identity, external, switch_left, fixed, since>>

(* rotate_identity: without a snapshot of its contacts the node stays as   *)
(* it is; else it waits for its sampler and for the storage thread, which  *)
(* commits or fails.  The pause counts from before these waits.            *)
SnapshotFails ==
    /\ pc = "binding" /\ waited = 0 /\ pc' = "up" /\ target' = NoIp
    /\ UNCHANGED <<disk, memory, waited, since>>
bind(age) ==
    /\ pc = "binding" /\ pc' = "bound" /\ age <= waited
    /\ disk' = Bound(target, age) /\ since' = waited
    /\ UNCHANGED <<memory, target, waited>>
BindFails ==
    /\ pc = "binding" /\ pc' = "paused" /\ UNCHANGED <<disk, memory, target, waited, since>>
committed ==
    /\ pc = "bound" /\ pc' = "up" /\ identity' = disk.id
    /\ external' = target /\ switch_left' = Cooldown - since /\ target' = NoIp
    /\ UNCHANGED <<disk, votes, fixed, waited, since>>

(* The process ends, at any moment.                                        *)
Crash ==
    /\ pc # "down" /\ pc' = "down" /\ votes' = NoVotes /\ target' = NoIp
    /\ waited' = 0 /\ switch_left' = 0 /\ external' = NoIp /\ fixed' = FALSE
    /\ UNCHANGED <<disk, identity, since>>

(* Time passes, whatever the node does; the wall clock is set back.        *)
TimePasses ==
    /\ votes' = [q \in {q \in DOMAIN votes : votes[q].age + 1 < VoteLife} |->
                   [votes[q] EXCEPT !.age = @ + 1]]
    /\ switch_left' = Most(switch_left - 1, 0)
    /\ disk' = [disk EXCEPT !.elapsed = Least(@ + 1, Cooldown)]
    /\ since' = Least(since + 1, Cooldown)
    /\ waited' = IF pc = "binding" THEN Least(waited + 1, Cooldown) ELSE waited
    /\ UNCHANGED <<pc, identity, external, fixed, target>>
ClockSetBack(n) ==
    /\ n < disk.elapsed /\ disk' = [disk EXCEPT !.elapsed = n]
    /\ UNCHANGED <<pc, memory, target, waited, since>>

IdentityNext ==
    \/ \E config \in Ips \cup {NoIp} : Start(config)
    \/ \E p \in Networks, ip \in Ips : observe(p, ip)
    \/ (\E age \in 0 .. Cooldown : bind(age)) \/ SnapshotFails \/ BindFails \/ committed
    \/ Crash \/ TimePasses
    \/ \E n \in (0 - MaxBack) .. Cooldown : ClockSetBack(n)

IdentitySpec == IdentityInit /\ [][IdentityNext]_identityVars

-----------------------------------------------------------------------------
(* Properties.                                                             *)

(* The node answers under the identifier on disk, which fits the address   *)
(* on disk: whenever the process dies, the next one can start (startup     *)
(* refuses a row that does not) and is the same node.                      *)
IdentityIsStored ==
    /\ disk.ip # NoIp => valid(disk.id, disk.ip)
    /\ pc \in {"up", "binding", "paused"} => identity = disk.id /\ external = disk.ip

(* What others say of its address moves the node at most once per pause,   *)
(* counted from the moment at which any earlier change was decided on,     *)
(* over any number of restarts and with a wall clock that is set back.     *)
ChangesAreRare ==
    [][pc = "binding" /\ disk'.id # disk.id => since = Cooldown]_identityVars

IdentityIsKept == []IdentityIsStored /\ ChangesAreRare
=============================================================================
