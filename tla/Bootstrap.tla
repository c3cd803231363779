----------------------------- MODULE Bootstrap -----------------------------
(***************************************************************************)
(* The application around the session, and the task that finds a first     *)
(* neighbour for each node (app/mod.rs, app/bootstrap/mod.rs).             *)
(*                                                                         *)
(* A task looks at its node's table; while nobody good is in it, the seeds *)
(* are resolved one after the other and their addresses pinged, two at a   *)
(* time.  The first answer ends the sending, not the waiting.  A node that *)
(* is gone ends its task, and a task that ends takes the application down. *)
(*                                                                         *)
(* Sleeps are over at some time, so the second between two pings and the   *)
(* back-off have no length here.  How a ping fares in the node is module   *)
(* Queries, what the session does is module Session.                       *)
(***************************************************************************)
EXTENDS Gather, FiniteSets

CONSTANTS
    LocalNodes,       \* IPv4 and IPv6, each with a task of its own
    Seeds,            \* how many host names there are
    Resolves,         \* what each of them resolves to
    Allowed,          \* addresses of the right family that the policy allows
    MaxAddresses,     \* 8 in the code
    MaxPings          \* pings at a time, 2 in the code

(* All that the names can resolve to.                                      *)
Addresses == UNION {Range(Resolves[s]) : s \in 1 .. Seeds}

ASSUME BootAssumption ==
    /\ Seeds \in Nat \ {0} /\ \A s \in 1 .. Seeds : Resolves[s] \in Seq(Addresses)
    /\ MaxAddresses \in Nat /\ MaxPings \in Nat

VARIABLES
    app,              \* the application: up to which point it came
    failed,           \* errors is not empty
    gone,             \* nodes that have ended
    good,             \* nodes whose table has a good neighbour
    boot_task,        \* where each task stands
    seed,             \* the host name that is resolved next
    found,            \* addresses that were resolved in this round
    pinged,           \* how many of them have been pinged
    pings,            \* addresses whose ping is under way
    connected, busy,
    heard,            \* history: what the pings of this round came to
    verdict           \* the result of the last round

round == <<seed, found, pinged, pings, connected, busy, heard, verdict>>
bootVars == <<app, failed, gone, good, boot_task, round>>

BootInit ==
    /\ app = "opening" /\ failed = FALSE /\ gone = {} /\ good = {}
    /\ boot_task = [n \in LocalNodes |-> "none"] /\ seed = [n \in LocalNodes |-> 1]
    /\ found = [n \in LocalNodes |-> <<>>] /\ pinged = [n \in LocalNodes |-> 0]
    /\ pings = [n \in LocalNodes |-> {}] /\ heard = [n \in LocalNodes |-> {}]
    /\ connected = [n \in LocalNodes |-> FALSE] /\ busy = [n \in LocalNodes |-> FALSE]
    /\ verdict = [n \in LocalNodes |-> "none"]

-----------------------------------------------------------------------------
(* The task of a node.                                                     *)

Goto(n, from, to) == boot_task[n] = from /\ boot_task' = [boot_task EXCEPT ![n] = to]
UnchangedOutside == UNCHANGED <<app, failed, gone, good>>

(* Saved contacts that are still verified get ten seconds first.           *)
BeginTask(n) ==
    /\ IF n \in gone THEN Goto(n, "begin", "ended")
       ELSE Goto(n, "begin", "sleep") \/ Goto(n, "begin", "status")
    /\ UNCHANGED round /\ UnchangedOutside
Status(n) ==
    /\ CASE n \in gone -> Goto(n, "status", "ended")
         [] n \in good -> Goto(n, "status", "sleep")
         [] OTHER -> Goto(n, "status", "resolve")
    /\ seed' = [seed EXCEPT ![n] = 1] /\ found' = [found EXCEPT ![n] = <<>>]
    /\ pinged' = [pinged EXCEPT ![n] = 0] /\ heard' = [heard EXCEPT ![n] = {}]
    /\ connected' = [connected EXCEPT ![n] = FALSE] /\ busy' = [busy EXCEPT ![n] = FALSE]
    /\ verdict' = [verdict EXCEPT ![n] = "none"] /\ UNCHANGED pings /\ UnchangedOutside
Wake(n) == Goto(n, "sleep", "status") /\ UNCHANGED round /\ UnchangedOutside

(* resolve_addresses, one host name at a time: known addresses are left    *)
(* out, and the rest of the names once there are enough.                   *)
resolve_addresses(n) ==
    /\ boot_task[n] = "resolve"
    /\ \E answer \in {Resolves[seed[n]], <<>>} :       \* resolved; failed or timed out
         found' = [found EXCEPT ![n] = Collected(@, answer, Allowed, MaxAddresses)]
    /\ seed' = [seed EXCEPT ![n] = @ + 1]
    /\ LET ready == seed[n] = Seeds \/ Len(found'[n]) = MaxAddresses
       IN boot_task' = [boot_task EXCEPT ![n] = IF ready THEN "round" ELSE "resolve"]
    /\ UNCHANGED <<pinged, pings, connected, busy, heard, verdict>> /\ UnchangedOutside

AllPinged(n) == pinged[n] = Len(found[n])
Ping(n) ==
    /\ boot_task[n] = "round" /\ ~connected[n] /\ ~AllPinged(n)
    /\ Cardinality(pings[n]) < MaxPings
    /\ pinged' = [pinged EXCEPT ![n] = @ + 1]
    /\ pings' = [pings EXCEPT ![n] = @ \cup {found[n][pinged[n] + 1]}]
    /\ UNCHANGED <<boot_task, seed, found, connected, busy, heard, verdict>> /\ UnchangedOutside

Results(n) == {"ok", "at_capacity", "failed"} \cup (IF n \in gone THEN {"closed"} ELSE {})
FullIsFailed(n, a, result) ==
    /\ boot_task[n] = "round" /\ pings' = [pings EXCEPT ![n] = @ \ {a}]
    /\ heard' = [heard EXCEPT ![n] = @ \cup {result}]
    /\ connected' = [connected EXCEPT ![n] = @ \/ result = "ok"]
    /\ UNCHANGED <<boot_task, seed, found, pinged, busy, verdict>> /\ UnchangedOutside
Answer(n, a, result) ==
    /\ boot_task[n] = "round"
    /\ pings' = [pings EXCEPT ![n] = IF result = "closed" THEN {} ELSE @ \ {a}]
    /\ heard' = [heard EXCEPT ![n] = @ \cup {result}]
    /\ connected' = [connected EXCEPT ![n] = @ \/ result = "ok"]
    /\ busy' = [busy EXCEPT ![n] = @ \/ result = "at_capacity"]
    /\ boot_task' = [boot_task EXCEPT ![n] = IF result = "closed" THEN "ended" ELSE @]
    /\ UNCHANGED <<seed, found, pinged, verdict>> /\ UnchangedOutside

(* Whatever the verdict, the task sleeps and looks again.                  *)
AllAsked(n) == pings[n] = {} /\ AllPinged(n)
RoundOver(n) == pings[n] = {} /\ (AllPinged(n) \/ connected[n])
RoundEnds(n) ==
    /\ RoundOver(n) /\ Goto(n, "round", "sleep")
    /\ verdict' = [verdict EXCEPT ![n] = IF connected[n] THEN "connected"
                                         ELSE IF busy[n] THEN "busy" ELSE "failed"]
    /\ UNCHANGED <<seed, found, pinged, pings, connected, busy, heard>> /\ UnchangedOutside

Step(n) ==
    \/ BeginTask(n) \/ Status(n) \/ Wake(n) \/ resolve_addresses(n) \/ Ping(n)
    \/ \E a \in pings[n], result \in Results(n) : Answer(n, a, result)
    \/ RoundEnds(n)

-----------------------------------------------------------------------------
(* The node, whose table gains and loses neighbours.                       *)
TableChanges(n) ==
    /\ app = "running" /\ n \notin gone
    /\ good' = (good \ {n}) \cup ({n} \ good)
    /\ UNCHANGED <<app, failed, gone, boot_task, round>>
NodeEnds(n) ==
    /\ app = "running" /\ n \notin gone /\ gone' = gone \cup {n}
    /\ UNCHANGED <<app, failed, good, boot_task, round>>

(* run_prepared.  The signal comes first in every select, and before there *)
(* is a session it is all that happens.                                    *)
Reach(from, to, error) ==
    /\ app = from /\ app' = to /\ failed' = (failed \/ error)
    /\ UNCHANGED <<gone, good>>
Open ==
    /\ \/ Reach("opening", "starting", FALSE)
       \/ Reach("opening", "exited", TRUE)
       \/ Reach("opening", "exited", FALSE)            \* the signal
    /\ UNCHANGED <<boot_task, round>>
start_nodes ==
    /\ \/ /\ Reach("starting", "running", FALSE)
          /\ boot_task' = [n \in LocalNodes |-> "begin"]
       \/ /\ \E error \in BOOLEAN : Reach("starting", "stopping", error)
          /\ UNCHANGED boot_task
    /\ UNCHANGED round
Break ==
    /\ \/ \E fatal \in BOOLEAN : Reach("running", "stopping", fatal)
       \/ \E n \in LocalNodes : boot_task[n] = "ended" /\ Reach("running", "stopping", TRUE)
    /\ UNCHANGED <<boot_task, round>>
TaskJoined ==
    /\ \E n \in LocalNodes : boot_task[n] = "ended"
    /\ Break
AbortAll ==
    /\ Reach("stopping", "closing", FALSE)
    /\ boot_task' = [n \in LocalNodes |-> IF boot_task[n] \in {"none", "ended"} THEN boot_task[n] ELSE "aborted"]
    /\ pings' = [n \in LocalNodes |-> {}]
    /\ UNCHANGED <<seed, found, pinged, connected, busy, heard, verdict>>
ShutdownSession ==
    /\ app = "closing" /\ app' = "exited" /\ gone' = LocalNodes
    /\ \E cleanup \in BOOLEAN : failed' = (failed \/ cleanup)
    /\ UNCHANGED <<good, boot_task, round>>

BootNext ==
    \/ \E n \in LocalNodes : Step(n) \/ TableChanges(n) \/ NodeEnds(n)
    \/ Open \/ start_nodes \/ Break \/ AbortAll \/ ShutdownSession
Lifecycle == Open \/ start_nodes \/ AbortAll \/ ShutdownSession

BootSpec == BootInit /\ [][BootNext]_bootVars

(* The runtime polls every task; a ping ends at the latest by a timeout    *)
(* (BooksAreCleared of module Queries).                                    *)
FairBootSpec ==
    /\ BootSpec
    /\ \A n \in LocalNodes : WF_bootVars(Step(n))
    /\ WF_bootVars(TaskJoined) /\ WF_bootVars(Lifecycle)

-----------------------------------------------------------------------------
(* Properties.                                                             *)

(* A round backs off only if every address found was pinged and none of    *)
(* the pings was answered or turned away by the node itself; no address is *)
(* pinged twice, though two names have it; and few are pinged at a time.   *)
RoundsAreHonest ==
    \A n \in LocalNodes :
      /\ verdict[n] = "failed" => heard[n] \subseteq {"failed"} /\ AllPinged(n)
      /\ pings[n] \subseteq {found[n][i] : i \in 1 .. pinged[n]}
      /\ Cardinality({found[n][i] : i \in 1 .. pinged[n]}) = pinged[n]
      /\ Cardinality(pings[n]) <= MaxPings

(* While the application runs every task looks at its node again and       *)
(* again, and a node that is gone takes the application down.              *)
BootstrapPerseveres ==
    \A n \in LocalNodes :
      /\ []<>(app = "running" => boot_task[n] = "status")
      /\ n \in gone ~> app = "exited"
=============================================================================
