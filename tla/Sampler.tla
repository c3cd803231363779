------------------------------ MODULE Sampler ------------------------------
(***************************************************************************)
(* The sampler of one DHT node with its durable cooldowns (sampler/, the   *)
(* dispatcher's queue and pending queries as far as they carry sampling    *)
(* requests, the change of identity, and persistence/cooldown.rs).         *)
(*                                                                         *)
(* Before a node is sampled, its id and its address are reserved on disk;  *)
(* the reservation is settled with the cooldown that the answer asks for,  *)
(* or withdrawn when the packet was surely not sent.  Stops, storage       *)
(* faults, a change of identity, crashes and the passing of time come in   *)
(* between.                                                                *)
(*                                                                         *)
(* All deadlines are kept as the time left to them.  Free capacity, send   *)
(* spacing, rounds and the traffic budget only delay a step, which any     *)
(* behaviour may do.                                                       *)
(***************************************************************************)
EXTENDS Integers, FiniteSets

CONSTANTS
    Ids, Ips,       \* what a cooldown is recorded under
    Contacts,       \* pairs [id, ip]; the address of an id may change
    Parallelism,    \* config.parallelism
    Capacity,       \* config.cooldown_capacity
    Delays,         \* intervals and retry delays that an answer leads to
    Long,           \* UNSUPPORTED_FOR, six hours, no shorter than any delay
    Leases,         \* tokens of reservations
    Shifts          \* how far the wall clock moves over a restart

ASSUME ContactAssumption ==
    /\ IsFiniteSet(Ids) /\ IsFiniteSet(Ips) /\ Ids \cap Ips = {}
    /\ Contacts \subseteq [id : Ids, ip : Ips]
ASSUME DelayAssumption ==
    /\ Long \in Nat \ {0} /\ Delays \subseteq 1..Long /\ Shifts \subseteq Int
ASSUME LimitAssumption ==
    /\ Parallelism \in Nat \ {0} /\ Capacity \in Nat \ {0} /\ 0 \notin Leases

VARIABLES
    pc,         \* where the event loop stands
    session,    \* sampling is started
    mem,        \* ids and ips of the sampler: time left, or Absent
    inflight,   \* session.in_flight
    fallback,   \* candidates to be asked for contacts instead of samples
    reserving,  \* the reservation under way, at most one
    ready,      \* the reserved request that waits to be sent, at most one
    queued,     \* sampling requests in the dispatcher's queue
    pending,    \* sampling requests that were sent
    settling,   \* settlements and withdrawals that the database owes
    db,         \* sampling_cooldowns
    fault,      \* status.storage_error
    paused,     \* sampling_paused
    idPaused,   \* identity_paused
    quiet       \* history: how long a key must still not be sampled

vars == <<pc, session, mem, inflight, fallback, reserving, ready, queued,
          pending, settling, db, fault, paused, idPaused, quiet>>
control == <<pc, fault, paused, idPaused>>

Keys == Ids \cup Ips
Absent == -1
NoRow == [lease |-> 0, pending |-> FALSE, left |-> -1, dur |-> 0]
KeysOf(c) == {c.id, c.ip}
KeysOfAll(R) == UNION {KeysOf(r.node) : r \in R}
NodesOf(R) == {r.node : r \in R}
Leased(R) == {r \in R : r.lease # 0}
Larger(a, b) == IF a > b THEN a ELSE b
Smaller(a, b) == IF a < b THEN a ELSE b
Elapse(t) == IF t > 0 THEN t - 1 ELSE t

Init ==
    /\ pc = "loop" /\ session = FALSE
    /\ mem = [k \in Keys |-> Absent]
    /\ inflight = {} /\ fallback = {}
    /\ reserving = {} /\ ready = {} /\ queued = {} /\ pending = {} /\ settling = {}
    /\ db = [k \in Keys |-> NoRow]
    /\ fault = FALSE /\ paused = FALSE /\ idPaused = FALSE
    /\ quiet = [k \in Keys |-> 0]

-----------------------------------------------------------------------------
(* Cooldowns in memory.                                                    *)

Raised(m, K, d) == [k \in Keys |-> IF k \in K THEN Larger(m[k], d) ELSE m[k]]
Forgotten(m, R) ==
    [k \in Keys |-> IF k \in KeysOfAll(Leased(R)) THEN Absent ELSE m[k]]
Present(m, T) == {k \in T : m[k] # Absent}

(* What the database is asked to do with requests: withdraw those that     *)
(* were not sent, settle the others.                                       *)
Withdrawals(R) ==
    {[op |-> "abandon", lease |-> r.lease, node |-> r.node, left |-> 0, dur |-> 0] :
        r \in Leased(R)}
Settlements(R, d) ==
    {[op |-> "settle", lease |-> r.lease, node |-> r.node, left |-> d, dur |-> d] :
        r \in Leased(R)}

(* Sampler::stop after `unsent' was withdrawn, then cancel_request of what *)
(* was `sent'.  Requests in flight are given the longest cooldown.         *)
StoppedMem(unsent) ==
    LET m == Forgotten(mem, unsent)
        K == Present(m, UNION {KeysOf(c) : c \in inflight \ NodesOf(unsent)})
    IN  Raised(m, K, Long)
Halt(unsent, sent, owed) ==
    /\ mem' = Raised(StoppedMem(unsent), KeysOfAll(Leased(sent)), Long)
    /\ settling' = owed \cup Withdrawals(unsent) \cup Settlements(sent, Long)
    /\ session' = FALSE /\ inflight' = {} /\ fallback' = {} /\ ready' = {}

-----------------------------------------------------------------------------
(* Commands.                                                               *)

(* start drops what has expired and refuses tables above the capacity.     *)
StartSampling ==
    /\ pc = "loop" /\ ~session /\ ~fault
    /\ mem' = [k \in Keys |-> IF mem[k] > 0 THEN mem[k] ELSE Absent]
    /\ \A T \in {Ids, Ips} : Cardinality(Present(mem', T)) <= Capacity
    /\ session' = TRUE
    /\ reserving' = {[r EXCEPT !.mine = FALSE] : r \in reserving}
    /\ UNCHANGED <<control, inflight, fallback, ready, queued, pending, settling, db, quiet>>

(* Nobody will hear the answers to what was sent.                          *)
Cancelled == quiet' = Raised(quiet, KeysOfAll(Leased(pending)), Long)

(* stop_sampler, on command, when the consumer is gone, for a storage      *)
(* fault of another component, or at the end of the loop.                  *)
StopSampler ==
    /\ Halt(queued \cup ready, pending, settling)
    /\ queued' = {} /\ pending' = {}
    /\ Cancelled
    /\ UNCHANGED <<reserving, db>>
StopSampling == pc = "loop" /\ StopSampler /\ UNCHANGED control
StoragePause ==
    /\ pc = "loop"
    /\ StopSampler
    /\ fault' = TRUE /\ UNCHANGED <<pc, paused, idPaused>>
Shutdown ==
    /\ pc = "loop"
    /\ StopSampler
    /\ pc' = "flush" /\ UNCHANGED <<fault, paused, idPaused>>

(* A pause withdraws what is queued and leaves the rest as it is.          *)
SamplingPause ==
    /\ pc = "loop"
    /\ paused' = ~paused
    /\ LET R == IF paused' THEN queued ELSE {}
       IN  /\ mem' = Forgotten(mem, R)
           /\ inflight' = inflight \ NodesOf(R)
           /\ settling' = settling \cup Withdrawals(R)
           /\ queued' = queued \ R
    /\ UNCHANGED <<pc, session, fallback, reserving, ready, pending, db, fault, idPaused, quiet>>

-----------------------------------------------------------------------------
(* advance_sampler.                                                        *)

MayAdvance == pc = "loop" /\ ~idPaused /\ ~paused /\ session

(* next makes room for a key by dropping expired ones, picks a candidate   *)
(* and registers it; reserve_request then sends the reservation on its way,*)
(* with the time at which it was asked for.  A fallback needs none.        *)
Busy == UNION {KeysOf(c) : c \in inflight}
Pruned ==
    LET Crowded(T) == Cardinality(Present(mem, T)) >= Capacity
    IN  [k \in Keys |->
            IF /\ mem[k] <= 0 /\ k \notin Busy
               /\ \E T \in {Ids, Ips} : k \in T /\ Crowded(T)
            THEN Absent ELSE mem[k]]
HasRoom(m, c) ==
    /\ m[c.id] # Absent \/ Cardinality(Present(m, Ids)) < Capacity
    /\ m[c.ip] # Absent \/ Cardinality(Present(m, Ips)) < Capacity
MayAskAnyDebt == ready = {} /\ reserving = {}
MayAsk == ready = {} /\ reserving = {} /\ settling = {}
Expired == {k \in Keys : db[k] # NoRow /\ ~db[k].pending /\ db[k].left = 0}
Select(c) ==
    /\ MayAdvance /\ ~fault /\ MayAsk
    /\ Cardinality(inflight) < Parallelism
    /\ KeysOf(c) \cap Busy = {}
    /\ c.id \notin fallback => \A k \in KeysOf(c) : mem[k] <= 0
    /\ HasRoom(Pruned, c)
    /\ mem' = Raised(Pruned, KeysOf(c), 0)
    /\ inflight' = inflight \cup {c}
    /\ fallback' = fallback \ {c.id}
    /\ IF c.id \in fallback
       THEN /\ queued' = queued \cup {[node |-> c, lease |-> 0]}
            /\ UNCHANGED reserving
       ELSE /\ reserving' = {[node |-> c, lease |-> 0, mine |-> TRUE,
                              expired |-> Expired, answer |-> "none"]}
            /\ UNCHANGED queued
    /\ UNCHANGED <<control, session, ready, pending, settling, db, quiet>>

(* A new round forgets which candidates need the fallback.                 *)
ResetRound ==
    /\ MayAdvance /\ ~fault /\ MayAsk /\ inflight = {}
    /\ fallback # {} /\ fallback' = {}
    /\ UNCHANGED <<control, session, mem, inflight, reserving, ready, queued, pending,
                   settling, db, quiet>>

(* A candidate may be dropped for a closer one, or because it turned bad.  *)
DropCandidate(i) ==
    /\ pc = "loop" /\ session
    /\ fallback' = fallback \ {i}
    /\ UNCHANGED <<control, session, mem, inflight, reserving, ready, queued, pending,
                   settling, db, quiet>>

(* take_reserved hands the request to the dispatcher's queue.              *)
TakeReserved ==
    /\ MayAdvance /\ ready # {} /\ settling = {}
    /\ queued' = queued \cup ready
    /\ ready' = {}
    /\ UNCHANGED <<control, session, mem, inflight, fallback, reserving, pending, settling,
                   db, quiet>>

-----------------------------------------------------------------------------
(* advance_outbound and send_rpc.                                          *)

SendQueued(r) ==
    /\ pc = "loop" /\ r \in queued
    /\ queued' = queued \ {r}
    /\ pending' = pending \cup {r}
    /\ UNCHANGED <<control, session, mem, inflight, fallback, reserving, ready, settling,
                   db, quiet>>

(* abandon_unsent: no capacity, no budget within five seconds, or an error *)
(* of the socket before anything was sent.                                 *)
AbandonUnsent(r) ==
    /\ pc = "loop" /\ r \in queued
    /\ queued' = queued \ {r}
    /\ inflight' = inflight \ {r.node}
    /\ mem' = Forgotten(mem, {r})
    /\ settling' = settling \cup Withdrawals({r})
    /\ UNCHANGED <<control, session, fallback, reserving, ready, pending, db, quiet>>

(* uncertain_send: the socket took part of the packet.                     *)
UncertainSend(r) ==
    /\ pc = "loop" /\ r \in queued
    /\ queued' = queued \ {r}
    /\ inflight' = inflight \ {r.node}
    /\ mem' = Raised(mem, KeysOfAll(Leased({r})), Long)
    /\ settling' = settling \cup Settlements({r}, Long)
    /\ quiet' = Raised(quiet, KeysOfAll(Leased({r})), Long)
    /\ UNCHANGED <<control, session, fallback, reserving, ready, pending, db>>

-----------------------------------------------------------------------------
(* Answers, timeouts and errors of requests that were sent.                *)

(* The cooldown of memory, and the settlement with what is left of it.     *)
Settle(r, K, d) ==
    /\ mem' = Raised(mem, K, d)
    /\ settling' = settling \cup Settlements({r}, Larger(mem'[r.node.id], 1))
Answered(r) ==
    /\ pc = "loop" /\ r \in pending
    /\ pending' = pending \ {r}
    /\ inflight' = inflight \ {r.node}
    /\ UNCHANGED <<control, session, reserving, ready, queued, db>>
Demanded(r, d) == quiet' = Raised(quiet, KeysOfAll(Leased({r})), d)

(* success and failure do nothing more once sampling has stopped.          *)
SampleOrFailure(r, d) ==
    /\ Answered(r) /\ UNCHANGED fallback
    /\ IF session THEN Settle(r, KeysOf(r.node), d) ELSE UNCHANGED <<mem, settling>>
    /\ Demanded(r, d)

(* nodes: the remote knows no sampling but sent contacts.                  *)
ContactsOnly(r) ==
    /\ Answered(r) /\ UNCHANGED fallback
    /\ Settle(r, KeysOfAll(Leased({r})), Long)
    /\ Demanded(r, Long)

(* Error 204: it will be asked for contacts in place of samples.           *)
Unsupported(r) ==
    /\ r.lease # 0
    /\ Answered(r)
    /\ IF session
       THEN Settle(r, KeysOf(r.node), Long) /\ fallback' = fallback \cup {r.node.id}
       ELSE UNCHANGED <<mem, settling, fallback>>
    /\ Demanded(r, Long)

-----------------------------------------------------------------------------
(* The database: transactions of cooldown.rs.                              *)

Rows(T) == {k \in T : db[k] # NoRow}
Conflicts(r) ==
    \/ \E k \in KeysOf(r.node) : db[k] # NoRow /\ k \notin r.expired
    \/ \E T \in {Ids, Ips} : Cardinality(Rows(T) \ r.expired) >= Capacity
InUse == {db[k].lease : k \in Keys} \cup {r.lease : r \in ready \cup queued \cup pending}
            \cup {s.lease : s \in settling}
FreshLease == CHOOSE n \in Leases : n \notin InUse
TokenLeft == Leases \ InUse # {}    \* bound: 128 random bits in the code
Reserved(r) ==
    [k \in Keys |->
        IF k \in KeysOf(r.node)
        THEN [lease |-> FreshLease, pending |-> TRUE, left |-> Long, dur |-> Long]
        ELSE IF k \in r.expired THEN NoRow ELSE db[k]]

(* reserve_sampling.  An answer may be lost after the commit.              *)
ReserveSampling ==
    \E r \in reserving :
        /\ r.answer = "none"
        /\ \/ /\ Conflicts(r)
              /\ reserving' = {[r EXCEPT !.answer = "conflict"]} /\ UNCHANGED db
           \/ /\ ~Conflicts(r) /\ TokenLeft
              /\ db' = Reserved(r)
              /\ reserving' = {[r EXCEPT !.answer = "granted", !.lease = FreshLease]}
           \/ /\ db' = db \/ (~Conflicts(r) /\ TokenLeft /\ db' = Reserved(r))
              /\ reserving' = {[r EXCEPT !.answer = "failed"]}
        /\ UNCHANGED <<control, session, mem, inflight, fallback, ready, queued, pending,
                       settling, quiet>>

(* settle_sampling and abandon_sampling touch only pending rows of their   *)
(* own token.  A settled row needs no token any more.                      *)
OwnRows(s) == {k \in KeysOf(s.node) : db[k].pending /\ db[k].lease = s.lease}
Executed(s) ==
    [k \in Keys |->
        IF k \notin OwnRows(s) THEN db[k]
        ELSE IF s.op = "abandon" THEN NoRow
        ELSE [lease |-> 0, pending |-> FALSE, left |-> s.left, dur |-> s.dur]]

-----------------------------------------------------------------------------
(* storage_event, polled by the loop, by a change of identity and by the   *)
(* final flush.                                                            *)

Polling == pc \in {"loop", "rotate", "flush"}

(* mark_storage_fault stops the sampling but leaves queue and pending      *)
(* requests to the dispatcher.                                             *)
MarkStorageFault(owed) == fault' = TRUE /\ Halt(ready, {}, owed)

(* A reservation of an earlier start or identity is withdrawn.             *)
Admitted(r) == session /\ r.mine
ReservationAnswered ==
    \E r \in reserving :
        LET q == [node |-> r.node, lease |-> r.lease]
        IN  /\ Polling /\ r.answer # "none"
            /\ reserving' = {}
            /\ \/ /\ r.answer = "granted" /\ Admitted(r)
                  /\ ready' = {q}
                  /\ UNCHANGED <<session, mem, inflight, fallback, settling, fault>>
               \/ /\ r.answer = "granted" /\ ~Admitted(r)
                  /\ mem' = Forgotten(mem, {q})
                  /\ inflight' = inflight \ {r.node}
                  /\ settling' = settling \cup Withdrawals({q})
                  /\ UNCHANGED <<session, fallback, ready, fault>>
               \/ r.answer \in {"conflict", "failed"} /\ MarkStorageFault(settling)
            /\ UNCHANGED <<pc, queued, pending, db, paused, idPaused, quiet>>

Settled(s) ==
    /\ Polling /\ s \in settling
    /\ \/ /\ db' = Executed(s)
          /\ settling' = settling \ {s}
          /\ UNCHANGED <<session, mem, inflight, fallback, ready, fault>>
       \/ /\ db' \in {db, Executed(s)}
          /\ MarkStorageFault(settling \ {s})
    /\ UNCHANGED <<pc, reserving, queued, pending, paused, idPaused, quiet>>

-----------------------------------------------------------------------------
(* rotate_identity.                                                        *)

Rotate ==
    LET unsent == queued \cup ready
    IN  /\ pc = "loop"
        /\ idPaused' = TRUE /\ pc' = "rotate"
        /\ mem' = Raised(Forgotten(mem, unsent), KeysOfAll(Leased(pending)), Long)
        /\ settling' = settling \cup Withdrawals(unsent) \cup Settlements(pending, Long)
        /\ inflight' = inflight \ NodesOf(unsent)
        /\ reserving' = {[r EXCEPT !.mine = FALSE] : r \in reserving}
        /\ queued' = {} /\ ready' = {} /\ pending' = {}
        /\ Cancelled
        /\ UNCHANGED <<session, fallback, db, fault, paused>>

(* Once everything is settled the new identity is bound; the rows stay     *)
(* under the same key.                                                     *)
DrainedOfSettlements == settling = {}
Drained == reserving = {} /\ settling = {}
Bind ==
    /\ pc = "rotate" /\ Drained
    /\ pc' = "loop"
    /\ \/ fault /\ UNCHANGED <<session, mem, inflight, fallback, ready, settling, fault, idPaused>>
       \/ /\ ~fault
          /\ inflight' = {} /\ fallback' = {}
          /\ idPaused' = FALSE
          /\ UNCHANGED <<session, mem, ready, settling, fault>>
       \/ /\ ~fault
          /\ fault' = TRUE /\ session' = FALSE
          /\ inflight' = {} /\ fallback' = {}
          /\ UNCHANGED <<mem, ready, settling, idPaused>>
    /\ UNCHANGED <<reserving, queued, pending, db, paused, quiet>>

(* run_persistent ends after flush_storage.                                *)
Flushed ==
    /\ pc = "flush" /\ Drained
    /\ pc' = "exited"
    /\ UNCHANGED <<session, mem, inflight, fallback, reserving, ready, queued, pending,
                   settling, db, fault, paused, idPaused, quiet>>

-----------------------------------------------------------------------------
(* Time, crash and restart.                                                *)

Tick ==
    /\ mem' = [k \in Keys |-> Elapse(mem[k])]
    /\ quiet' = [k \in Keys |-> Elapse(quiet[k])]
    /\ db' = [k \in Keys |->
                IF db[k].pending THEN db[k] ELSE [db[k] EXCEPT !.left = Elapse(@)]]
    /\ settling' = {[s EXCEPT !.left = Elapse(@)] : s \in settling}
    /\ UNCHANGED <<control, session, inflight, fallback, reserving, ready, queued, pending>>

(* restore_cooldowns at the next start, the wall clock having moved by     *)
(* `shift'.  A pending row may stand for a packet that was sent.           *)
RemainingAsStored(row, shift) == Larger(0, Smaller(row.left - shift, row.dur))
Remaining(row, shift) ==
    IF row.pending THEN Larger(row.dur, Long)
    ELSE Larger(0, Smaller(row.left - shift, row.dur))
Restart(shift) ==
    LET left == [k \in Keys |-> IF db[k] = NoRow THEN 0 ELSE Remaining(db[k], shift)]
    IN  /\ db' = [k \in Keys |->
                    IF left[k] = 0 THEN NoRow
                    ELSE [db[k] EXCEPT !.pending = FALSE, !.lease = 0, !.left = left[k]]]
        /\ mem' = [k \in Keys |-> IF left[k] = 0 THEN Absent ELSE left[k]]
        /\ quiet' = Raised([k \in Keys |-> Larger(0, quiet[k] - Larger(0, shift))],
                           KeysOfAll(Leased(pending)), Long)
        /\ pc' = "loop" /\ session' = FALSE /\ fault' = FALSE
        /\ paused' = FALSE /\ idPaused' = FALSE
        /\ inflight' = {} /\ fallback' = {} /\ reserving' = {} /\ ready' = {}
        /\ queued' = {} /\ pending' = {} /\ settling' = {}

Next ==
    \/ StartSampling \/ StopSampling \/ StoragePause \/ Shutdown \/ SamplingPause
    \/ \E c \in Contacts : Select(c)
    \/ ResetRound \/ TakeReserved
    \/ \E i \in fallback : DropCandidate(i)
    \/ \E r \in queued : SendQueued(r) \/ AbandonUnsent(r) \/ UncertainSend(r)
    \/ \E r \in pending :
          \/ \E d \in Delays : SampleOrFailure(r, d)
          \/ ContactsOnly(r) \/ Unsupported(r)
    \/ ReserveSampling \/ ReservationAnswered
    \/ \E s \in settling : Settled(s)
    \/ Rotate \/ Bind \/ Flushed
    \/ Tick
    \/ \E shift \in Shifts : Restart(shift)

Spec == Init /\ [][Next]_vars

-----------------------------------------------------------------------------
(* Properties.                                                             *)

(* A request that may be sent at any moment samples neither an id nor an   *)
(* address that an earlier answer, cancellation or crash still protects,   *)
(* or whose answer is still awaited.                                       *)
NoEarlySample ==
    \A r \in Leased(ready \cup queued) : \A k \in KeysOf(r.node) :
        quiet[k] = 0 /\ k \notin KeysOfAll(pending)

(* Memory never lets a request through that the table would refuse: the    *)
(* refusal is taken for a broken database and ends the sampling for good.  *)
NoConflict == \A r \in reserving : r.answer # "conflict"

(* A node that ends without a storage error leaves no open reservation     *)
(* behind, which the next start would have to take for a packet sent.      *)
ExitIsSettled == pc = "exited" /\ ~fault => \A k \in Keys : ~db[k].pending

(* Memory and table agree while the node runs and when it ends.            *)
MemoryAgreesWithTable == NoConflict /\ ExitIsSettled

-----------------------------------------------------------------------------
(* The inductive invariant behind the theorems of SamplerProofs.           *)

Live == ready \cup queued \cup pending
Share(a, b) == KeysOf(a.node) \cap KeysOf(b.node) # {}
Requests == [node : Contacts, lease : Leases \cup {0}]
Reservations == [node : Contacts, lease : Leases \cup {0}, mine : BOOLEAN,
                 expired : SUBSET Keys, answer : {"none", "granted", "conflict", "failed"}]
Debts == [op : {"abandon", "settle"}, lease : Leases, node : Contacts, left : Nat, dur : Nat]
DbRows == {NoRow} \cup [lease : Leases \cup {0}, pending : BOOLEAN, left : Nat, dur : Nat]

SamplerTypes ==
    /\ pc \in {"loop", "rotate", "flush", "exited"}
    /\ session \in BOOLEAN /\ fault \in BOOLEAN /\ paused \in BOOLEAN /\ idPaused \in BOOLEAN
    /\ mem \in [Keys -> Nat \cup {Absent}] /\ quiet \in [Keys -> 0..Long]
    /\ db \in [Keys -> DbRows]
    /\ inflight \subseteq Contacts /\ fallback \subseteq Ids
    /\ reserving \subseteq Reservations /\ settling \subseteq Debts
    /\ ready \subseteq Requests /\ queued \subseteq Requests /\ pending \subseteq Requests

(* No two pieces of work concern the same id or address, wherever they     *)
(* are: being reserved, ready, queued, sent, or owed to the database.      *)
WorkIsApart ==
    /\ ready \cap queued = {} /\ ready \cap pending = {} /\ queued \cap pending = {}
    /\ \A r, q \in Live : Share(r, q) => r = q
    /\ \A s, t \in settling : Share(s, t) => s = t
    /\ \A r \in Live, s \in settling : ~Share(r, s)
    /\ \A r \in reserving : /\ \A q \in reserving : q = r
                            /\ \A q \in Live \cup settling : ~Share(r, q)
    /\ reserving = {} \/ ready = {}

(* Who works on a key by a token has the pending row of the table; what    *)
(* asks for one finds it free, and room for it.                            *)
Granted == {r \in reserving : r.answer = "granted"}
RowsAreHeld ==
    /\ \A r \in Leased(Live) \cup settling \cup Granted : \A k \in KeysOf(r.node) :
          db[k].pending /\ db[k].lease = r.lease
    /\ \A r \in reserving :
          /\ r.answer # "conflict" /\ (r.answer = "granted" => r.lease # 0)
          /\ r.answer = "none" =>
                /\ \A k \in r.expired : ~db[k].pending /\ db[k].left <= 0
                /\ \A k \in KeysOf(r.node) : db[k] = NoRow \/ k \in r.expired
                /\ \A T \in {Ids, Ips} : Cardinality(Rows(T) \ r.expired) < Capacity
    /\ \A T \in {Ids, Ips} : Cardinality(Rows(T)) <= Capacity
    /\ \A k \in Keys : db[k].pending => db[k].dur = Long

(* What protects a key until it may be sampled again: a pending row, or    *)
(* one that lasts long enough.                                             *)
QuietIsRecorded ==
    /\ \A k \in Keys : quiet[k] > 0 =>
          /\ db[k] # NoRow
          /\ db[k].pending \/ (db[k].left >= quiet[k] /\ db[k].dur >= quiet[k])
    /\ \A r \in Leased(Live) \cup reserving : \A k \in KeysOf(r.node) : quiet[k] = 0
    /\ \A s \in settling : \A k \in KeysOf(s.node) :
          IF s.op = "abandon" THEN quiet[k] = 0
          ELSE quiet[k] <= s.left /\ quiet[k] <= s.dur

(* Without a storage error, memory knows of all that the table holds.      *)
MemoryIsComplete ==
    /\ \A c, d \in inflight : KeysOf(c) \cap KeysOf(d) # {} => c = d
    /\ \A c \in inflight : \A k \in KeysOf(c) : mem[k] # Absent
    /\ \A r \in reserving, c \in inflight : KeysOf(r.node) \cap KeysOf(c) # {} => c = r.node
    /\ \A r \in reserving : Admitted(r) => /\ r.node \in inflight
                                           /\ \A k \in KeysOf(r.node) : mem[k] = 0
    /\ NodesOf(Live) \subseteq inflight /\ (Live # {} => session)
    /\ \A r \in Leased(Live) : \A k \in KeysOf(r.node) : mem[k] = 0
    /\ \A T \in {Ids, Ips} : Cardinality(Present(mem, T)) <= Capacity
    /\ \A k \in Keys : /\ quiet[k] > 0 => mem[k] >= quiet[k]
                       /\ ~db[k].pending /\ db[k].left > 0 => mem[k] >= db[k].left
                       /\ db[k].pending => k \in KeysOfAll(Leased(Live) \cup settling
                                              \cup {r \in reserving : r.answer # "none"})
    /\ \A s \in settling : \A k \in KeysOf(s.node) :
          s.op = "settle" /\ s.left > 0 => mem[k] >= s.left

(* What is left to do when the loop has left its normal course.            *)
StopsAreClean ==
    /\ pc # "loop" => Live = {}
    /\ pc = "rotate" => \A r \in reserving : ~r.mine
    /\ pc \in {"flush", "exited"} \/ fault => ~session
    /\ pc = "exited" => reserving = {} /\ settling = {}
    /\ ~session => inflight = {} /\ ready = {}

SamplerInv ==
    /\ SamplerTypes
    /\ WorkIsApart
    /\ RowsAreHeld
    /\ QuietIsRecorded
    /\ ~fault => MemoryIsComplete
    /\ StopsAreClean

=============================================================================
