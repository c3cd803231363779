----------------------------- MODULE Collector -----------------------------
(***************************************************************************)
(* The collector task (collection/scheduler.rs, lifecycle.rs and mod.rs):  *)
(* one select loop that claims jobs for a bounded set of workers, commits  *)
(* their results, admits announces, and pauses or stops; then `finish',    *)
(* which hands every claim back.                                           *)
(*                                                                         *)
(* Between two awaits of the collector the workers, the announcing nodes,  *)
(* the session's stop token and its fault notice all move, so each await   *)
(* is one step here.  A database call may succeed, fail without effect, or *)
(* commit and lose its answer.  The rows are those of FetchJobs, reduced   *)
(* to who may work on them; a job's generation is left to that module.     *)
(***************************************************************************)
EXTENDS Naturals, FiniteSets

CONSTANTS
    Jobs,           \* swarm keys
    Same,           \* Same[j]: the keys of the torrent that j belongs to
    Announced,      \* the keys that the nodes announce
    Concurrency     \* config.concurrency

ASSUME JobAssumption ==
    /\ IsFiniteSet(Jobs) /\ Announced \subseteq Jobs
    /\ Same \in [Jobs -> SUBSET Jobs] /\ \A j \in Jobs : j \in Same[j]
ASSUME ConcurrencyAssumption == Concurrency \in Nat \ {0}

VARIABLES
    row,        \* the fetch_jobs row of each key
    worker,     \* the worker of each key, with its outcome until it is reaped
    hand,       \* the worker result or announce that the collector carries
    pc,         \* the await at which the collector stands
    storage_paused,
    cancelled,  \* work_cancel, which every worker watches
    closed,     \* ingress.paused, which every node reads
    queue,      \* the announces in the ingress channel
    errors,     \* "storage" or "other" for each error recorded so far
    writable,   \* finish still trusts the database
    stop,       \* the session asked for an orderly end
    notice,     \* an unread pause notification of the session
    fetched     \* the keys for which a worker returned verified metadata

vars == <<row, worker, hand, pc, storage_paused, cancelled, closed, queue, errors,
          writable, stop, notice, fetched>>
env == <<stop, notice, fetched>>
flags == <<storage_paused, cancelled, closed>>

Rows == {"unknown", "ready", "running", "failed", "deferred", "done"}
Outcomes == {"success", "remote", "local", "control", "panic"}
Empty == [job |-> "nobody", out |-> "none"]
Tasks == {j \in Jobs : worker[j] \in {"busy"} \cup Outcomes}
Finishing == pc \in {"finish", "reap", "interrupted", "drain", "ended"}

Init ==
    /\ row \in [Jobs -> {"unknown", "ready"}]
    /\ worker = [j \in Jobs |-> "none"]
    /\ hand = Empty
    /\ pc = "start"
    /\ storage_paused = FALSE /\ cancelled = FALSE /\ closed = FALSE
    /\ queue = {}
    /\ errors = {}
    /\ writable = TRUE
    /\ stop = FALSE /\ notice = FALSE
    /\ fetched = {}

-----------------------------------------------------------------------------
(* Leaving run_inner with an error, which supervise records.               *)
Fail(e) == errors' = errors \cup {e} /\ pc' = "finish"

(* What a committed transaction does to the rows.  A result whose row is   *)
(* no longer running is Stale and changes nothing.                         *)
Settled(j) ==
    IF row[j] = "running"
    THEN [k \in Jobs |-> IF k \in Same[j] THEN "done" ELSE row[k]] ELSE row
PutBack(j, state) == IF row[j] = "running" THEN [row EXCEPT ![j] = state] ELSE row
Committed(j, out) ==
    CASE out = "success" -> Settled(j)
      [] out = "remote"  -> PutBack(j, "failed")
      [] out = "local"   -> PutBack(j, "deferred")
Admitted(j) == IF row[j] = "unknown" THEN [row EXCEPT ![j] = "ready"] ELSE row

(* run_inner first asks every node for its address family.                 *)
Start ==
    /\ pc = "start"
    /\ (pc' = "select" /\ UNCHANGED errors) \/ Fail("other")
    /\ UNCHANGED <<row, worker, hand, flags, queue, writable, env>>

-----------------------------------------------------------------------------
(* The branches of the select, taken in any order when several are ready.  *)

SelectStop ==
    /\ pc = "select" /\ stop
    /\ pc' = "finish"
    /\ UNCHANGED <<row, worker, hand, flags, queue, errors, writable, env>>

(* Entering the storage pause: no more work, no more announces.            *)
EnterPause == storage_paused' = TRUE /\ cancelled' = TRUE /\ closed' = TRUE

SelectFault ==
    /\ pc = "select" /\ notice
    /\ notice' = FALSE
    /\ EnterPause
    /\ pc' = "pauseFault"
    /\ UNCHANGED <<row, worker, hand, queue, errors, writable, stop, fetched>>

(* The session dropped its end of the pause notification.                  *)
SelectSupervisorGone ==
    /\ pc = "select"
    /\ Fail("other")
    /\ UNCHANGED <<row, worker, hand, flags, queue, writable, env>>

(* A worker that panicked or lost its node keeps its claim in interrupted. *)
SelectWorkerForgetting(j) ==
    /\ pc = "select" /\ worker[j] \in Outcomes
    /\ worker' = [worker EXCEPT ![j] = "none"]
    /\ IF worker[j] \in {"control", "panic"}
       THEN Fail("other") /\ UNCHANGED hand
       ELSE hand' = [job |-> j, out |-> worker[j]] /\ pc' = "apply" /\ UNCHANGED errors
    /\ UNCHANGED <<row, flags, queue, writable, env>>
SelectWorkerUnlessPaused(j) ==
    /\ pc = "select" /\ worker[j] \in Outcomes /\ ~storage_paused
    /\ IF worker[j] \in {"control", "panic"}
       THEN /\ worker' = [worker EXCEPT ![j] = "interrupted"]
            /\ Fail("other") /\ UNCHANGED hand
       ELSE /\ worker' = [worker EXCEPT ![j] = "none"]
            /\ hand' = [job |-> j, out |-> worker[j]]
            /\ pc' = "apply" /\ UNCHANGED errors
    /\ UNCHANGED <<row, flags, queue, writable, env>>
SelectWorker(j) ==
    /\ pc = "select" /\ worker[j] \in Outcomes
    /\ IF worker[j] \in {"control", "panic"}
       THEN /\ worker' = [worker EXCEPT ![j] = "interrupted"]
            /\ Fail("other") /\ UNCHANGED hand
       ELSE /\ worker' = [worker EXCEPT ![j] = "none"]
            /\ hand' = [job |-> j, out |-> worker[j]]
            /\ pc' = "apply" /\ UNCHANGED errors
    /\ UNCHANGED <<row, flags, queue, writable, env>>

SelectAnnounce(j) ==
    /\ pc = "select" /\ ~storage_paused /\ j \in queue
    /\ queue' = queue \ {j}
    /\ hand' = [job |-> j, out |-> "announce"]
    /\ pc' = "announce"
    /\ UNCHANGED <<row, worker, flags, errors, writable, env>>

(* The capacity is checked on every fifth tick, the status logged on every *)
(* sixtieth, also while paused.                                            *)
SelectTick ==
    /\ pc = "select"
    /\ pc' \in (IF storage_paused THEN {"status"} ELSE {"capacity", "backfill"})
    /\ UNCHANGED <<row, worker, hand, flags, queue, errors, writable, env>>

-----------------------------------------------------------------------------
(* What follows a branch.                                                  *)

(* pause tells the nodes to stop sampling.                                 *)
PauseNodes ==
    /\ pc \in {"pauseFault", "pauseTick"}
    /\ \/ pc = "pauseFault" /\ pc' = "select" /\ UNCHANGED errors
       \/ pc = "pauseTick" /\ pc' \in {"select", "status"} /\ UNCHANGED errors
       \/ Fail("other")
    /\ UNCHANGED <<row, worker, hand, flags, queue, writable, env>>

(* apply_running_outcome; the freed place is given away at once unless the *)
(* collector is paused or stopping.                                        *)
AfterApplyAlways == "reclaim"
AfterApply == IF ~storage_paused /\ ~stop THEN "reclaim" ELSE "select"
Apply ==
    /\ pc = "apply"
    /\ hand' = Empty
    /\ \/ row' = Committed(hand.job, hand.out) /\ pc' = AfterApply /\ UNCHANGED errors
       \/ row' \in {row, Committed(hand.job, hand.out)} /\ Fail("storage")
    /\ UNCHANGED <<worker, flags, queue, writable, env>>

(* accept_announce; without a free slot the row stays as it is.            *)
AcceptAnnounce ==
    /\ pc = "announce"
    /\ hand' = Empty
    /\ row' \in {row, Admitted(hand.job)}
    /\ (pc' = "select" /\ UNCHANGED errors) \/ Fail("storage")
    /\ UNCHANGED <<worker, flags, queue, writable, env>>

(* check_storage_capacity.                                                 *)
CheckCapacity ==
    /\ pc = "capacity"
    /\ \/ pc' = "backfill" /\ UNCHANGED <<flags, errors>>
       \/ EnterPause /\ pc' = "pauseTick" /\ UNCHANGED errors
       \/ \E e \in {"storage", "other"} : Fail(e) /\ UNCHANGED flags
    /\ UNCHANGED <<row, worker, hand, queue, writable, env>>

(* The recent and the history page.                                        *)
Backfill ==
    /\ pc = "backfill"
    /\ \E A \in SUBSET {j \in Jobs : row[j] = "unknown"} :
          row' = [j \in Jobs |-> IF j \in A THEN "ready" ELSE row[j]]
    /\ (pc' = "claim" /\ UNCHANGED errors) \/ Fail("storage")
    /\ UNCHANGED <<worker, hand, flags, queue, writable, env>>

(* claim_workers, from a tick or after a result: one claim per step until  *)
(* the places or the due jobs run out.                                     *)
Claiming == pc \in {"claim", "reclaim"}
AfterClaim == IF pc = "claim" THEN "sampling" ELSE "select"
ClaimWorker(j) ==
    /\ Claiming /\ Cardinality(Tasks) < Concurrency
    /\ row[j] = "ready"
    /\ row' = [row EXCEPT ![j] = "running"]
    /\ \/ worker' = [worker EXCEPT ![j] = "busy"] /\ UNCHANGED <<pc, errors>>
       \/ Fail("storage") /\ UNCHANGED worker
    /\ UNCHANGED <<hand, flags, queue, writable, env>>
ClaimEnds ==
    /\ Claiming
    /\ \/ /\ Cardinality(Tasks) >= Concurrency \/ \A j \in Jobs : row[j] # "ready"
          /\ pc' = AfterClaim /\ UNCHANGED errors
       \/ Cardinality(Tasks) < Concurrency /\ Fail("storage")
    /\ UNCHANGED <<row, worker, hand, flags, queue, writable, env>>

(* update_sampling_backpressure: a capacity or backlog pause stops the     *)
(* sampling of the nodes but leaves the announces open.                    *)
IngressWithSampling(samplingPaused) == samplingPaused
IngressAfter(samplingPaused) == storage_paused
UpdateSampling ==
    /\ pc = "sampling"
    /\ \/ pc' \in {"select", "status"} /\ UNCHANGED <<closed, errors>>
       \/ Fail("storage") /\ UNCHANGED closed
       \/ \E samplingPaused \in BOOLEAN :
             /\ closed' = IngressAfter(samplingPaused)
             /\ (pc' \in {"select", "status"} /\ UNCHANGED errors) \/ Fail("other")
    /\ UNCHANGED <<row, worker, hand, storage_paused, cancelled, queue, writable, env>>

LogStatus ==
    /\ pc = "status"
    /\ (pc' = "select" /\ UNCHANGED errors) \/ Fail("storage")
    /\ UNCHANGED <<row, worker, hand, flags, queue, writable, env>>

-----------------------------------------------------------------------------
(* finish.                                                                 *)

Finish ==
    /\ pc = "finish"
    /\ closed' = TRUE /\ cancelled' = TRUE
    /\ errors' \in {errors, errors \cup {"other"}}
    /\ writable' = ("storage" \notin errors)
    /\ pc' = "reap"
    /\ UNCHANGED <<row, worker, hand, storage_paused, queue, env>>

(* save_outcome keeps a success and defers everything else.                *)
KeptAsReported(out) == out
KeptNothing(out) == "local"
Kept(out) == IF out = "success" THEN "success" ELSE "local"
AsReported(out) == IF out \in {"control", "panic"} THEN "local" ELSE out
ErrorOf(out) == IF out \in {"control", "panic"} THEN {"other"} ELSE {}
Save(j, out) ==
    IF writable
    THEN \/ /\ row' = Committed(j, Kept(AsReported(out)))
            /\ errors' = errors \cup ErrorOf(out) /\ UNCHANGED writable
         \/ /\ row' \in {row, Committed(j, Kept(AsReported(out)))}
            /\ errors' = errors \cup ErrorOf(out) \cup {"storage"} /\ writable' = FALSE
    ELSE errors' = errors \cup ErrorOf(out) /\ UNCHANGED <<row, writable>>

ReapWhileWritable(j) ==
    /\ pc = "reap" /\ worker[j] \in Outcomes /\ writable
    /\ worker' = [worker EXCEPT ![j] = "none"]
    /\ Save(j, worker[j])
    /\ UNCHANGED <<hand, pc, flags, queue, env>>
ReapWorker(j) ==
    /\ pc = "reap" /\ worker[j] \in Outcomes
    /\ worker' = [worker EXCEPT ![j] = "none"]
    /\ Save(j, worker[j])
    /\ UNCHANGED <<hand, pc, flags, queue, env>>
ReapEnds ==
    /\ pc = "reap" /\ Tasks = {}
    /\ pc' = "interrupted"
    /\ UNCHANGED <<row, worker, hand, flags, queue, errors, writable, env>>

HandBack(j) ==
    /\ pc = "interrupted" /\ worker[j] = "interrupted"
    /\ worker' = [worker EXCEPT ![j] = "none"]
    /\ Save(j, "local")
    /\ UNCHANGED <<hand, pc, flags, queue, env>>

(* Announces that were accepted before the end are stored, unless the      *)
(* database failed or the collection was paused to protect it.             *)
MayDrainWhenClean == errors = {} /\ ~storage_paused
MayDrain == writable /\ ~storage_paused
HandBackEnds ==
    /\ pc = "interrupted" /\ \A j \in Jobs : worker[j] # "interrupted"
    /\ pc' = IF MayDrain THEN "drain" ELSE "ended"
    /\ UNCHANGED <<row, worker, hand, flags, queue, errors, writable, env>>
Drain ==
    /\ pc = "drain"
    /\ \/ /\ queue = {} /\ pc' = "ended"
          /\ UNCHANGED <<row, queue, errors>>
       \/ \E j \in queue :
             /\ queue' = queue \ {j}
             /\ row' \in {row, Admitted(j)}
             /\ \/ UNCHANGED <<pc, errors>>
                \/ pc' = "ended" /\ errors' = errors \cup {"storage"}
    /\ UNCHANGED <<worker, hand, flags, writable, env>>

-----------------------------------------------------------------------------
(* The others.                                                             *)

(* run_job watches the cancellation before its own work.                   *)
WorkerEnds(j) ==
    /\ worker[j] = "busy"
    /\ \E out \in (IF cancelled THEN {"local"} ELSE Outcomes) :
          /\ worker' = [worker EXCEPT ![j] = out]
          /\ fetched' = IF out = "success" THEN fetched \cup {j} ELSE fetched
    /\ UNCHANGED <<row, hand, pc, flags, queue, errors, writable, stop, notice>>

(* A retry delay passes.                                                   *)
Due(j) ==
    /\ row[j] \in {"failed", "deferred"} /\ ~Finishing
    /\ row' = [row EXCEPT ![j] = "ready"]
    /\ UNCHANGED <<worker, hand, pc, flags, queue, errors, writable, env>>

(* FetchIngress::announce, dropped when the ingress is closed.             *)
Announce(j) ==
    /\ ~closed
    /\ queue' = queue \cup {j}
    /\ UNCHANGED <<row, worker, hand, pc, flags, errors, writable, env>>

RequestStop ==
    /\ ~stop /\ stop' = TRUE
    /\ UNCHANGED <<row, worker, hand, pc, flags, queue, errors, writable, notice, fetched>>
PublishFault ==
    /\ ~notice /\ notice' = TRUE
    /\ UNCHANGED <<row, worker, hand, pc, flags, queue, errors, writable, stop, fetched>>

CollectorStep ==
    \/ Start
    \/ PauseNodes \/ Apply \/ AcceptAnnounce
    \/ CheckCapacity \/ Backfill
    \/ \E j \in Jobs : ClaimWorker(j)
    \/ ClaimEnds \/ UpdateSampling \/ LogStatus
    \/ Finish
    \/ \E j \in Jobs : ReapWorker(j) \/ HandBack(j)
    \/ ReapEnds \/ HandBackEnds \/ Drain
Next ==
    \/ CollectorStep
    \/ SelectStop \/ SelectFault \/ SelectSupervisorGone \/ SelectTick
    \/ \E j \in Jobs : SelectWorker(j) \/ SelectAnnounce(j)
    \/ \E j \in Jobs : WorkerEnds(j) \/ Due(j)
    \/ \E j \in Announced : Announce(j)
    \/ RequestStop \/ PublishFault

Spec == Init /\ [][Next]_vars

(* Every await of the collector returns (StorageQueue, and the nodes'      *)
(* command loops), a worker has a deadline, and select draws its branches  *)
(* at random, so one that is ready again and again is taken.               *)
FairSpec ==
    /\ Spec
    /\ WF_vars(CollectorStep)
    /\ SF_vars(SelectStop)
    /\ \A j \in Jobs : WF_vars(WorkerEnds(j)) /\ SF_vars(SelectWorker(j))

-----------------------------------------------------------------------------
(* Properties.                                                             *)

(* A running row is in somebody's hands: a worker's, interrupted, or the   *)
(* collector's own.  Only a failed database call may leave a row running   *)
(* with nobody to hand it back before the next start recovers it.          *)
NoOrphan ==
    \A j \in Jobs : row[j] = "running" =>
        worker[j] # "none" \/ hand.job = j \/ "storage" \in errors

(* Metadata that a worker verified is stored when the collector ends       *)
(* without a database error, however it came to end: stop, pause, panic of *)
(* another worker, or a lost node.                                         *)
FetchedIsStored ==
    pc = "ended" /\ "storage" \notin errors => \A j \in fetched : row[j] = "done"

(* Announces that were accepted are not left in the channel by an end that *)
(* could still write them.                                                 *)
AnnouncesDrained ==
    pc = "ended" /\ "storage" \notin errors /\ ~storage_paused => queue = {}

(* The three together: an end loses no claim, no metadata, no announce.    *)
NothingIsLost == NoOrphan /\ FetchedIsStored /\ AnnouncesDrained

(* The announce entrance closes with the storage pause and only with it,   *)
(* while the collector runs.                                               *)
IngressFollowsStorage == ~Finishing => (closed <=> storage_paused)

(* Nothing is claimed once the workers' cancellation is set: the claim     *)
(* would be cancelled at once and taken again, over and over.              *)
NoClaimOnceCancelled ==
    [][(\E j \in Jobs : row[j] # "running" /\ row'[j] = "running") => ~cancelled]_vars

(* Ending charges no key with a remote failure, not even one whose peer    *)
(* failed while the end was under way.                                     *)
ShutdownChargesNobody ==
    [][Finishing => \A j \in Jobs : row'[j] = "failed" => row[j] = "failed"]_vars

(* Stop and pause are orderly: the entrance follows the pause, no claim is *)
(* made that would be cancelled, and nobody is charged for the end.        *)
StopsInOrder == []IngressFollowsStorage /\ NoClaimOnceCancelled /\ ShutdownChargesNobody

(* A paused collector gets all its workers back.                           *)
PausedQuiesces == storage_paused ~> Tasks = {}

(* A stop request ends the collector, whatever it is doing.                *)
StopEnds == stop ~> pc = "ended"

=============================================================================
