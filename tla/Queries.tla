------------------------------ MODULE Queries ------------------------------
(***************************************************************************)
(* The outgoing queries of one DHT node: callers of get_peers and          *)
(* bootstrap_ping, the command channel, the queue in front of the traffic  *)
(* budget, the transactions, the answers of the network and the recovery   *)
(* of saved contacts (dispatcher/{fetch,traffic,recovery}.rs, runtime/,    *)
(* response/, transaction/mod.rs).                                         *)
(*                                                                         *)
(* One task runs the loop: an event, a change of identity if one is due,   *)
(* the scan of the queue, and one step of the recovery.  Callers drop      *)
(* their futures at any time, the network delays, repeats and loses        *)
(* datagrams.  Whether a deadline has passed when it is looked at, whether *)
(* the budget lets a query go and whether a datagram that matched is a     *)
(* valid answer are free choices.                                          *)
(***************************************************************************)
EXTENDS Integers, Sequences, FiniteSets, SequencesExt

CONSTANTS
    Callers,          \* tasks that await one query at a time
    Pings,            \* those that call bootstrap_ping, the others get_peers
    Contacts,         \* saved contacts that are verified again
    Addresses,
    Address,          \* whom a caller or a contact is asked at
    MaxPending,       \* TransactionManager::max_pending
    Reserved,         \* maintenance.config.reserved_user_transactions
    IdSpace,          \* how many identifiers there are, 2^32 in the code
    CommandCapacity,  \* config.command_capacity
    MaxActive,        \* verifications at a time, 3 in the code
    MaxCalls,         \* bound: how many queries the callers make
    MaxRotations      \* bound: changes of identity

Askers == Callers \cup Contacts

ASSUME AskerAssumption ==
    /\ Callers \cap Contacts = {} /\ Pings \subseteq Callers
    /\ Address \in [Askers -> Addresses]
ASSUME LimitAssumption ==
    /\ MaxPending \in Nat /\ Reserved \in Nat /\ CommandCapacity \in Nat \ {0}
    /\ MaxActive \in Nat \ {0} /\ MaxCalls \in Nat /\ MaxRotations \in Nat
    /\ IdSpace \in Nat /\ IdSpace > MaxPending

VARIABLES
    pc,               \* where the loop stands
    index,            \* the entry of the queue that the scan looks at
    call,             \* what became of the caller's query
    commands,         \* the command channel
    queued,           \* queries that wait for the budget
    transactions,     \* the transaction manager's table
    pending,          \* the dispatcher's table of the same queries
    next_counter,     \* identifiers drawn so far, not wrapped
    net,              \* answers that may arrive, any number of times or never,
                      \* but not after a whole turn of the counter
    sent,             \* progress.sent of the caller's query
    crossed,          \* history: callers that were given another query's answer
    recovery,         \* saved contacts: those waiting and those being verified
    routing,          \* saved contacts that answered in this run
    judged,           \* history: contacts whose verification had a result
    external,         \* pending_external_ip is set
    identity_paused,
    calls, rotations, \* bounds
    snapshot          \* the contacts that the exit hands to the session

callerVars == <<call, calls, sent, crossed>>
tableVars == <<queued, transactions, pending, next_counter>>
contactVars == <<recovery, routing, judged, snapshot>>
identityVars == <<external, identity_paused, rotations>>
vars == <<pc, index, commands, net, callerVars, tableVars, contactVars, identityVars>>

(* QueryError by what it says: LocalWait, AtCapacity and Transport, then   *)
(* IdentityChanged and ShuttingDown, then Timeout, Remote, InvalidResponse *)
(* and UnexpectedNodeId, then DispatcherClosed.                            *)
Errors == {"not_sent", "withdrawn", "failed", "closed"}

(* The places that maintenance.config keeps free.                          *)
reserve == IF Reserved > 1 THEN Reserved ELSE 1
Minus(a, b) == IF a > b THEN a - b ELSE 0

(* A node that starts, and one on which a caller has been waiting while    *)
(* the counter has all but come round.                                     *)
Fresh ==
    /\ call = [c \in Callers |-> "idle"] /\ sent = {}
    /\ transactions = {} /\ pending = {} /\ next_counter = 0 /\ net = {}
Seasoned(c) ==
    /\ call = [d \in Callers |-> IF d = c THEN "waiting" ELSE "idle"] /\ sent = {c}
    /\ transactions = {[id |-> 0, draw |-> 1, destination |-> Address[c]]}
    /\ pending = {[id |-> 0, query |-> c]} /\ next_counter = IdSpace - 1
    /\ net = {[id |-> 0, source |-> Address[c], draw |-> 1]}
Init ==
    /\ Fresh \/ \E c \in Callers : MaxPending - reserve > 0 /\ Seasoned(c)
    /\ pc = "select" /\ index = 1 /\ commands = <<>> /\ queued = <<>> /\ crossed = {}
    /\ recovery = [queued |-> Contacts, active |-> {}]
    /\ routing = {} /\ judged = {} /\ snapshot = {}
    /\ external = FALSE /\ identity_paused = FALSE
    /\ calls = 0 /\ rotations = 0

-----------------------------------------------------------------------------
(* Where a query is.                                                       *)

InQueue == Range(queued)
InTable == {p.query : p \in pending}
Held(q) == q \in Range(commands) \cup InQueue \cup InTable
occupied == Cardinality(transactions) + Len(queued)

recovery_capacity == occupied < Minus(MaxPending, reserve)
StartLimit(q) == IF q \in Pings THEN MaxPending ELSE Minus(MaxPending, reserve)

(* After an event comes a change of identity if one is due, then the scan  *)
(* of the queue, then a step of the recovery if its turn has come.         *)
MayRecover ==
    /\ ~identity_paused /\ recovery_capacity
    /\ recovery.queued # {} /\ Cardinality(recovery.active) < MaxActive
AfterEvent(rotating) ==
    IF rotating THEN "rotate" ELSE IF identity_paused THEN "select" ELSE "outbound"
AfterScan ==
    CASE pc = "command" -> AfterEvent(FALSE)
      [] pc = "outbound" /\ MayRecover -> "recover"
      [] OTHER -> "select"

(* The token is cancelled and the answer's channel closed exactly when the *)
(* caller dropped its future; a recovery has neither.                      *)
cancelled(q) == q \in Callers /\ call[q] = "dropped"

(* Answers and refusals.  A caller that is gone does not hear them.        *)
Told(Q, result) ==
    [c \in Callers |-> IF c \in Q /\ call[c] = "waiting" THEN result ELSE call[c]]
finished(Q) == [recovery EXCEPT !.active = @ \ Q]
finish_start_error(Q, error) ==
    /\ call' = Told(Q, error) /\ recovery' = finished(Q)
finish_network_failure(Q, error) ==
    /\ call' = Told(Q, error) /\ recovery' = finished(Q)
    /\ judged' = judged \cup (Q \cap Contacts)

-----------------------------------------------------------------------------
(* Callers.                                                                *)

(* get_peers_observed and bootstrap_ping up to the wait for the answer.    *)
Issue(c) ==
    /\ call[c] # "waiting" /\ ~Held(c) /\ calls < MaxCalls
    /\ calls' = calls + 1
    /\ sent' = sent \ {c} /\ crossed' = crossed
    /\ \/ /\ pc # "ended" /\ Len(commands) < CommandCapacity
          /\ commands' = Append(commands, c)
          /\ call' = [call EXCEPT ![c] = "waiting"]
       \/ /\ pc = "ended" /\ commands' = commands
          /\ call' = [call EXCEPT ![c] = "closed"]
    /\ UNCHANGED <<pc, index, net, tableVars, contactVars, identityVars>>

(* The future is dropped: its drop guard cancels the token.                *)
DropCall(c) ==
    /\ call[c] = "waiting"
    /\ call' = [call EXCEPT ![c] = "dropped"]
    /\ UNCHANGED <<pc, index, commands, net, calls, sent, crossed, tableVars,
                   contactVars, identityVars>>

-----------------------------------------------------------------------------
(* Starting a query.  The scan that start_rpc ends with is the next step.  *)

start_rpc(q) ==
    IF identity_paused
    THEN finish_start_error({q}, "withdrawn") /\ UNCHANGED queued
    ELSE IF occupied >= StartLimit(q)
    THEN finish_start_error({q}, "not_sent") /\ UNCHANGED queued
    ELSE queued' = Append(queued, q) /\ UNCHANGED <<call, recovery>>

(* Which branch of handle_command a query takes.  Addresses are those that *)
(* the policy and the family accept: the lookup, which alone asks for      *)
(* peers, passes no other, so that the branch that refuses them is left    *)
(* out.                                                                    *)
Refused(q) ==
    IF q \in Pings THEN ~recovery_capacity
    ELSE occupied >= Minus(MaxPending, 1)
Ignored(q) == q \notin Pings /\ cancelled(q)

handle_command(q) ==
    /\ commands # <<>> /\ Head(commands) = q /\ q \in Callers /\ pc = "select"
    /\ commands' = Tail(commands)
    /\ \/ Ignored(q) /\ UNCHANGED <<call, queued, recovery>> /\ pc' = AfterEvent(FALSE)
       \/ /\ ~Ignored(q) /\ Refused(q) /\ pc' = AfterEvent(FALSE)
          /\ call' = Told({q}, "not_sent") /\ UNCHANGED <<queued, recovery>>
       \/ ~Ignored(q) /\ ~Refused(q) /\ start_rpc(q) /\ pc' = "command"
    /\ index' = 1
    /\ UNCHANGED <<net, calls, sent, crossed, transactions, pending, next_counter,
                   routing, judged, snapshot, identityVars>>

(* advance_recovery; its pace of one a second is left to time.             *)
advance_recovery(q) ==
    /\ pc = "recover" /\ q \in recovery.queued
    /\ queued' = Append(queued, q)
    /\ recovery' = [queued |-> recovery.queued \ {q}, active |-> recovery.active \cup {q}]
    /\ pc' = "recovered" /\ index' = 1
    /\ UNCHANGED <<commands, net, callerVars, transactions, pending, next_counter,
                   routing, judged, snapshot, identityVars>>

NoRecovery ==
    /\ pc = "recover" /\ pc' = "select"
    /\ UNCHANGED <<index, commands, net, callerVars, tableVars, contactVars, identityVars>>

-----------------------------------------------------------------------------
(* The scan of the queue, one entry a step.                                *)

Scanning == pc \in {"command", "outbound", "recovered"} /\ index \in DOMAIN queued
Dequeued == queued' = RemoveAt(queued, index)
InScan == UNCHANGED <<pc, commands, calls, crossed, routing, snapshot, identityVars>>

ReclaimQueued ==
    /\ Scanning /\ cancelled(queued[index]) /\ Dequeued
    /\ InScan /\ UNCHANGED <<index, net, call, sent, transactions, pending,
                             next_counter, recovery, judged>>

QueueTimeout ==
    /\ Scanning /\ ~cancelled(queued[index]) /\ Dequeued
    /\ finish_start_error({queued[index]}, "not_sent")
    /\ InScan /\ UNCHANGED <<index, net, sent, transactions, pending, next_counter, judged>>

MaySend(q) == Scanning /\ q = queued[index] /\ ~cancelled(q)

Blocked ==
    /\ Scanning /\ MaySend(queued[index]) /\ index' = index + 1
    /\ InScan /\ UNCHANGED <<net, call, sent, tableVars, recovery, judged>>

(* TransactionManager::register draws identifiers until one is free.       *)
Ids == {t.id : t \in transactions}
FirstDraw(k) == k = 0
FirstFree(k) ==
    /\ (next_counter + k) % IdSpace \notin Ids
    /\ \A j \in 0..(k - 1) : (next_counter + j) % IdSpace \in Ids
Put(S, r) == {x \in S : x.id # r.id} \cup {r}
Without(S, i) == {x \in S : x.id # i}
Drawn(k) == [id |-> (next_counter + k) % IdSpace, draw |-> next_counter + k + 1]

(* send_rpc: the entry leaves the queue, is registered and sent.           *)
send_rpc(q, k) ==
    /\ MaySend(q) /\ Cardinality(transactions) < MaxPending /\ FirstFree(k)
    /\ Dequeued
    /\ next_counter' = next_counter + k + 1
    /\ net' = {m \in net : Drawn(k).draw < m.draw + IdSpace}
                 \cup {[id |-> Drawn(k).id, source |-> Address[q], draw |-> Drawn(k).draw]}
    /\ transactions' = Put(transactions, [id |-> Drawn(k).id, draw |-> Drawn(k).draw,
                                          destination |-> Address[q]])
    /\ pending' = Put(pending, [id |-> Drawn(k).id, query |-> q])
    /\ sent' = sent \cup ({q} \cap Callers)
    /\ InScan /\ UNCHANGED <<index, call, recovery, judged>>

(* try_send_to refuses: the registration is cancelled again.               *)
send_fails(q, k) ==
    /\ MaySend(q) /\ Cardinality(transactions) < MaxPending /\ FirstFree(k)
    /\ Dequeued
    /\ next_counter' = next_counter + k + 1
    /\ net' = {m \in net : Drawn(k).draw < m.draw + IdSpace}
    /\ transactions' = Without(transactions, Drawn(k).id)
    /\ pending' = Without(pending, Drawn(k).id)
    /\ finish_start_error({q}, "not_sent")
    /\ InScan /\ UNCHANGED <<index, sent, judged>>

ScanEnds ==
    /\ pc \in {"command", "outbound", "recovered"} /\ index \notin DOMAIN queued
    /\ pc' = AfterScan /\ index' = 1
    /\ UNCHANGED <<commands, net, callerVars, tableVars, contactVars, identityVars>>

Draws == 0..MaxPending
advance_outbound ==
    \/ ReclaimQueued \/ QueueTimeout \/ Blocked \/ ScanEnds
    \/ \E q \in Askers, k \in Draws : send_rpc(q, k) \/ send_fails(q, k)

-----------------------------------------------------------------------------
(* Events of the loop.                                                     *)

(* TransactionManager::complete.  Datagrams that match nothing change      *)
(* nothing.                                                                *)
MatchesAnySource(t, m) == t.id = m.id
Matches(t, m) == t.id = m.id /\ t.destination = m.source


(* handle_response and handle_error with what follows them.  A datagram    *)
(* that comes after the deadline makes the query fail like an invalid one. *)
handle_received(m, t, p, result) ==
    /\ pc = "select"
    /\ t \in transactions /\ Matches(t, m) /\ p \in pending /\ p.id = t.id
    /\ transactions' = Without(transactions, m.id) /\ pending' = Without(pending, m.id)
    /\ call' = Told({p.query}, result) /\ recovery' = finished({p.query})
    /\ judged' = judged \cup ({p.query} \cap Contacts)
    /\ crossed' = IF result = "ok" /\ (m.draw \notin {0, t.draw} \/ m.source # Address[p.query])
                  THEN crossed \cup {p.query} ELSE crossed
    /\ routing' \in {routing, routing \cup (IF result = "ok" THEN {p.query} \cap Contacts ELSE {})}
    /\ external' \in {external, rotations < MaxRotations}
    /\ pc' = AfterEvent(external')
    /\ UNCHANGED <<index, commands, net, calls, sent, queued, next_counter,
                   snapshot, identity_paused, rotations>>

(* Deadlines are passed in the order of registration.                      *)
expire_transactions(last) ==
    /\ pc = "select" /\ pc' = AfterEvent(FALSE) /\ last \in transactions
    /\ LET gone == {t.id : t \in {u \in transactions : u.draw <= last.draw}}
       IN  /\ transactions' = {t \in transactions : t.id \notin gone}
           /\ pending' = {p \in pending : p.id \notin gone}
           /\ finish_network_failure({p.query : p \in {x \in pending : x.id \in gone}},
                                     "failed")
    /\ UNCHANGED <<index, commands, net, calls, sent, crossed, queued,
                   next_counter, routing, snapshot, identityVars>>

(* The wait for a cancelled token ends.  The places of the queue that are  *)
(* kept stay in order.                                                     *)
Kept == {i \in DOMAIN queued : ~cancelled(queued[i])}
InOrder(s) == \A i, j \in DOMAIN s : i < j => s[i] < s[j]
cancel_fetch_queries ==
    /\ pc = "select" /\ pc' = AfterEvent(FALSE)
    /\ \E q \in InQueue \cup InTable : cancelled(q)
    /\ \E s \in [1..Cardinality(Kept) -> Kept] :
          InOrder(s) /\ queued' = [i \in DOMAIN s |-> queued[s[i]]]
    /\ LET gone == {p.id : p \in {x \in pending : cancelled(x.query)}}
       IN  /\ transactions' = {t \in transactions : t.id \notin gone}
           /\ pending' = {p \in pending : p.id \notin gone}
    /\ UNCHANGED <<index, commands, net, callerVars, next_counter, contactVars, identityVars>>

(* The deadline of the queue or of the recovery ends the wait.             *)
WakeForRecovery ==
    /\ pc = "select" /\ pc' = AfterEvent(FALSE) /\ MayRecover
    /\ UNCHANGED <<index, commands, net, callerVars, tableVars, contactVars, identityVars>>
Wake ==
    /\ pc = "select" /\ pc' = AfterEvent(FALSE)
    /\ queued # <<>> \/ MayRecover
    /\ UNCHANGED <<index, commands, net, callerVars, tableVars, contactVars, identityVars>>

-----------------------------------------------------------------------------
(* Change of identity and end.                                             *)

saved_contacts(r) == r.queued \cup r.active \cup routing

(* Queued queries end as not started, sent ones are forgotten with a word  *)
(* to their caller.                                                        *)
clear_queries(error) ==
    /\ queued' = <<>> /\ transactions' = {} /\ pending' = {}
    /\ call' = Told(InQueue \cup InTable, error)

rotate_identity ==
    /\ pc = "rotate"
    /\ external' = FALSE /\ rotations' = rotations + 1
    /\ clear_queries("withdrawn")
    /\ \/ /\ identity_paused' = FALSE /\ pc' = "outbound" /\ index' = 1
          /\ recovery' = [queued |-> saved_contacts(recovery), active |-> {}]
          /\ routing' = {}
       \/ /\ identity_paused' = TRUE /\ pc' = "select" /\ index' = 1
          /\ recovery' = finished(InQueue) /\ routing' = routing
    /\ UNCHANGED <<commands, net, calls, sent, crossed, next_counter, judged, snapshot>>

(* close_pending, the end of run_persistent and the fate of the commands   *)
(* that were not read.  A shutdown command, the last handle dropped and a  *)
(* transport that fails all come here, at any wait of the loop.            *)
close_pending ==
    /\ pc = "select" /\ pc' = "ended" /\ index' = 1
    /\ queued' = <<>> /\ transactions' = {} /\ pending' = {}
    /\ call' = [c \in Callers |->
                  IF call[c] # "waiting" THEN call[c]
                  ELSE IF c \in InQueue \cup InTable THEN "withdrawn" ELSE "closed"]
    /\ commands' = <<>>
    /\ recovery' = finished(InQueue)
    /\ snapshot' = saved_contacts(finished(InQueue))
    /\ UNCHANGED <<net, calls, sent, crossed, next_counter, routing, judged, identityVars>>

Ended == pc = "ended" /\ UNCHANGED vars

Loop ==
    \/ advance_outbound \/ NoRecovery \/ rotate_identity
    \/ \E q \in Contacts : advance_recovery(q)
Events ==
    \/ \E q \in Callers : handle_command(q)
    \/ (\E t \in transactions : expire_transactions(t)) \/ cancel_fetch_queries \/ Wake
Strays == [id : 0..(IdSpace - 1), source : Addresses, draw : {0}]
Receive ==
    \E m \in net \cup Strays, t \in transactions, p \in pending, v \in {"ok", "failed"} :
        handle_received(m, t, p, v)
Environment ==
    \/ \E c \in Callers : Issue(c) \/ DropCall(c)
    \/ close_pending
Next == Loop \/ Events \/ Receive \/ Environment \/ Ended

(* The loop runs on, select chooses among ready branches at random, and    *)
(* time passes.  Nothing is assumed of the network, the budget and callers.*)
Fairness ==
    /\ WF_vars(Loop) /\ SF_vars(\E q \in Contacts : advance_recovery(q))
    /\ SF_vars(\E q \in Callers : handle_command(q))
    /\ SF_vars(\E t \in transactions : expire_transactions(t))
    /\ SF_vars(cancel_fetch_queries) /\ SF_vars(Wake) /\ SF_vars(QueueTimeout)
Spec == Init /\ [][Next]_vars
FairSpec == Spec /\ Fairness

-----------------------------------------------------------------------------
(* Properties.                                                             *)

TypeOK ==
    /\ pc \in {"select", "command", "rotate", "outbound", "recover", "recovered", "ended"}
    /\ index \in Nat \ {0}
    /\ call \in [Callers -> {"idle", "waiting", "dropped", "ok"} \cup Errors]
    /\ commands \in Seq(Callers) /\ queued \in Seq(Askers)
    /\ transactions \subseteq [id : 0..(IdSpace - 1), draw : Nat,
                               destination : Addresses]
    /\ pending \subseteq [id : 0..(IdSpace - 1), query : Askers]
    /\ next_counter \in Nat /\ sent \subseteq Callers /\ crossed \subseteq Askers
    /\ net \subseteq [id : 0..(IdSpace - 1), source : Addresses, draw : Nat]
    /\ recovery \in [queued : SUBSET Contacts, active : SUBSET Contacts]
    /\ routing \subseteq Contacts /\ judged \subseteq Contacts /\ snapshot \subseteq Contacts
    /\ external \in BOOLEAN /\ identity_paused \in BOOLEAN

(* A caller that waits has its query in exactly one place, the two tables  *)
(* hold the same identifiers, each once, and a contact that counts as      *)
(* being verified is being asked, so that no place of three is lost.       *)
Places(q) ==
    Cardinality({i \in DOMAIN commands : commands[i] = q})
    + Cardinality({i \in DOMAIN queued : queued[i] = q})
    + Cardinality({p \in pending : p.query = q})
EveryQueryHasItsPlace ==
    /\ \A c \in Callers : call[c] = "waiting" => Places(c) = 1
    /\ \A q \in Askers : Places(q) <= 1
    /\ {p.id : p \in pending} = Ids
    /\ Cardinality(Ids) = Cardinality(transactions)
    /\ Cardinality(Ids) = Cardinality(pending)
    /\ pc # "ended" /\ ~identity_paused =>
          recovery.active = (InQueue \cup InTable) \cap Contacts

(* What a caller is told is true: success comes from the address it asked, *)
(* in answer to this very query, refusals that blame the local side mean   *)
(* that nothing was sent, results that blame the node that something was,  *)
(* and the dispatcher is called closed only when it is.                    *)
AnswersAreTrue ==
    /\ crossed = {}
    /\ \A c \in Callers :
          /\ call[c] = "not_sent" => c \notin sent
          /\ call[c] \in {"ok", "failed"} => c \in sent
          /\ call[c] = "closed" => pc = "ended"

(* The inductive invariant behind both.  A query is in one place only.     *)
NobodyAsksTwice ==
    /\ IsInjective(commands) /\ IsInjective(queued)
    /\ Range(commands) \cap InQueue = {} /\ Range(commands) \cap InTable = {}
    /\ InQueue \cap InTable = {}
    /\ \A p, r \in pending : p.query = r.query => p = r

(* Both tables have one entry for each identifier, for the same query.     *)
TablesAgree ==
    /\ IsFiniteSet(transactions) /\ IsFiniteSet(pending)
    /\ \A t, u \in transactions : t.id = u.id => t = u
    /\ \A p, r \in pending : p.id = r.id => p = r
    /\ {p.id : p \in pending} = Ids
    /\ \A t \in transactions, p \in pending :
          t.id = p.id => t.destination = Address[p.query]

(* Who waits is in one of the places, who is there waits or has left, and  *)
(* something was sent for a caller exactly from the table on.              *)
CallersAreAccounted ==
    \A c \in Callers :
        /\ call[c] = "waiting" => Held(c)
        /\ Held(c) => call[c] \in {"waiting", "dropped"}
        /\ c \in Range(commands) \cup InQueue => c \notin sent
        /\ c \in InTable => c \in sent

(* An identifier names its draw up to a turn of the counter, and an answer *)
(* that is under way to an identifier in use was drawn with it.            *)
AnswersAreFresh ==
    /\ \A m \in net : /\ m.draw \in 1..next_counter
                      /\ m.id = (m.draw - 1) % IdSpace
    /\ \A t \in transactions, m \in net : t.id = m.id => t.draw = m.draw

(* No contact waits for its verification while it is being verified.       *)
RecoveryIsCounted ==
    /\ recovery.queued \cap recovery.active = {}
    /\ pc = "recover" => ~identity_paused
    /\ pc # "ended" /\ ~identity_paused =>
          recovery.active = (InQueue \cup InTable) \cap Contacts

QueriesInv ==
    /\ TypeOK
    /\ NobodyAsksTwice
    /\ TablesAgree
    /\ CallersAreAccounted
    /\ AnswersAreFresh
    /\ RecoveryIsCounted
    /\ AnswersAreTrue

(* When the callers have stopped calling, every query leaves the books,    *)
(* answered or reclaimed after its caller is gone, whatever network and    *)
(* budget do, and the saved contacts are worked off unless the node ends   *)
(* or stays without identity for want of a database.                       *)
BooksAreCleared ==
    <>[](/\ commands = <<>> /\ occupied = 0
         /\ \/ pc = "ended" \/ identity_paused
            \/ recovery.queued \cup recovery.active = {})

(* What recovery.rs says of the snapshot: contacts whose verification has  *)
(* not come to a result are merged into it.                                *)
UnverifiedIsSaved == pc = "ended" => Contacts \ judged \subseteq snapshot
=============================================================================
