-------------------------- MODULE CollectorProofs --------------------------
(***************************************************************************)
(* The collector loses no claim and no verified metadata, for any number   *)
(* of keys and workers.  The argument follows a claim from the row to the  *)
(* worker, from the worker into the collector's hand or the list of        *)
(* interrupted claims, and back into the row; a database error is the only *)
(* way to leave that path, and it stays on record.                         *)
(*                                                                         *)
(* Then what the collector decides with: the rotation of the claim classes *)
(* and the pause of the samplers, for all limits.                          *)
(***************************************************************************)
EXTENDS Collector, ClaimPolicy, Backpressure, TLAPS

PCs == {"start", "select", "pauseFault", "pauseTick", "apply", "announce", "capacity",
        "backfill", "claim", "reclaim", "sampling", "status", "finish", "reap",
        "interrupted", "drain", "ended"}
Results == {"success", "remote", "local"}

TypeOK ==
    /\ row \in [Jobs -> Rows]
    /\ worker \in [Jobs -> {"none", "busy", "interrupted"} \cup Outcomes]
    /\ hand \in {Empty} \cup [job : Jobs, out : Results \cup {"announce"}]
    /\ pc \in PCs
    /\ storage_paused \in BOOLEAN /\ cancelled \in BOOLEAN /\ closed \in BOOLEAN
    /\ queue \subseteq Jobs /\ fetched \subseteq Jobs
    /\ errors \subseteq {"storage", "other"}
    /\ writable \in BOOLEAN /\ stop \in BOOLEAN /\ notice \in BOOLEAN

(* The collector carries a result only to `apply' and an announce only to  *)
(* `announce'.                                                             *)
HandMatchesPc ==
    /\ pc = "apply" => hand \in [job : Jobs, out : Results] /\ worker[hand.job] = "none"
    /\ pc = "announce" => hand.out = "announce"
    /\ pc \notin {"apply", "announce"} => hand = Empty

(* finish stops trusting the database only after an error of it.           *)
DistrustIsRecorded == ~writable => "storage" \in errors

Carries(j) == hand.job = j /\ hand.out \in Results

(* As long as the database did its work, a key is running or settled       *)
(* exactly while somebody answers for its claim, and verified metadata is  *)
(* stored or still on its way.                                             *)
ClaimsAccounted ==
    "storage" \notin errors =>
        \A j \in Jobs :
            /\ row[j] = "running" => worker[j] # "none" \/ Carries(j)
            /\ worker[j] # "none" \/ Carries(j) => row[j] \in {"running", "done"}
            /\ j \in fetched =>
                  row[j] = "done" \/ worker[j] = "success"
                    \/ (hand.job = j /\ hand.out = "success")

(* The workers are gone when reaping ends.                                 *)
ReapedInOrder ==
    pc \in {"interrupted", "drain", "ended"} =>
        \A j \in Jobs : worker[j] \in {"none", "interrupted"}

(* The flags follow the storage pause until the end closes everything.     *)
FlagsFollowPause ==
    /\ ~Finishing => (closed <=> storage_paused) /\ (cancelled <=> storage_paused)
    /\ Finishing /\ pc # "finish" => closed
    /\ pc \in {"capacity", "backfill", "claim", "reclaim", "sampling"} => ~storage_paused
    /\ pc = "ended" /\ "storage" \notin errors /\ ~storage_paused => queue = {}

IndInv ==
    /\ TypeOK
    /\ HandMatchesPc
    /\ DistrustIsRecorded
    /\ ClaimsAccounted
    /\ ReapedInOrder
    /\ FlagsFollowPause

-----------------------------------------------------------------------------
(* A committed result takes its own key out of running, settles at most    *)
(* other keys of the same torrent, and is ignored when it is stale.        *)
LEMMA CommittedRows ==
    ASSUME TypeOK, NEW j \in Jobs, NEW out \in Results
    PROVE  /\ Committed(j, out) \in [Jobs -> Rows]
           /\ Committed(j, out)[j] # "running"
           /\ row[j] # "running" => Committed(j, out) = row
           /\ row[j] = "running" /\ out = "success" => Committed(j, out)[j] = "done"
           /\ \A k \in Jobs \ {j} : Committed(j, out)[k] \in {row[k], "done"}
<1>1. CASE out = "success"
  BY <1>1, JobAssumption DEF Committed, Settled, TypeOK, Rows
<1>2. CASE out = "remote"
  BY <1>2 DEF Committed, PutBack, TypeOK, Rows
<1>3. CASE out = "local"
  BY <1>3 DEF Committed, PutBack, TypeOK, Rows
<1> QED
  BY <1>1, <1>2, <1>3 DEF Results

(* Admission touches only keys without a row.                              *)
LEMMA AdmittedRows ==
    ASSUME TypeOK, NEW j \in Jobs
    PROVE  /\ Admitted(j) \in [Jobs -> Rows]
           /\ \A k \in Jobs : Admitted(j)[k] = row[k]
                              \/ (row[k] = "unknown" /\ Admitted(j)[k] = "ready")
  BY DEF Admitted, TypeOK, Rows

(* The collector starts without workers.                                   *)
THEOREM InitIndInv == Init => IndInv
<1> SUFFICES ASSUME Init PROVE IndInv
  OBVIOUS
<1>1. TypeOK
  BY DEF Init, TypeOK, Rows, PCs
<1>2. HandMatchesPc /\ DistrustIsRecorded /\ ReapedInOrder /\ FlagsFollowPause
  BY DEF Init, HandMatchesPc, DistrustIsRecorded, ReapedInOrder, FlagsFollowPause, Finishing
<1>3. ClaimsAccounted
  BY DEF Init, ClaimsAccounted, Carries, Empty, Results
<1> QED
  BY <1>1, <1>2, <1>3 DEF IndInv

(* Steps that leave rows, workers and the hand alone cannot lose a claim.  *)
LEMMA QuietStep ==
    ASSUME IndInv, UNCHANGED <<row, worker, hand, fetched>>, errors \subseteq errors'
    PROVE  ClaimsAccounted'
  BY DEF IndInv, ClaimsAccounted, Carries

-----------------------------------------------------------------------------
(* The steps of the select loop that touch neither rows nor workers.       *)
LEMMA SelectSteps ==
    ASSUME IndInv,
           \/ Start \/ SelectStop \/ SelectFault \/ SelectSupervisorGone \/ SelectTick
           \/ PauseNodes \/ CheckCapacity \/ ClaimEnds \/ UpdateSampling \/ LogStatus
           \/ Finish
    PROVE  IndInv'
<1> USE DEF Fail, flags, env
<1>1. UNCHANGED <<row, worker, hand, fetched, queue>> /\ errors \subseteq errors'
  BY DEF Start, SelectStop, SelectFault, SelectSupervisorGone, SelectTick,
         PauseNodes, CheckCapacity, ClaimEnds, UpdateSampling, LogStatus, Finish
<1>2. ClaimsAccounted'
  BY <1>1, QuietStep
<1>3. CASE Start
  BY <1>1, <1>2, <1>3 DEF Start, IndInv, TypeOK, HandMatchesPc, DistrustIsRecorded,
     ReapedInOrder, FlagsFollowPause, Finishing, PCs
<1>4. CASE SelectStop \/ SelectSupervisorGone \/ SelectTick
  BY <1>1, <1>2, <1>4 DEF SelectStop, SelectSupervisorGone, SelectTick, IndInv, TypeOK,
     HandMatchesPc, DistrustIsRecorded, ReapedInOrder, FlagsFollowPause, Finishing, PCs
<1>5. CASE SelectFault
  BY <1>1, <1>2, <1>5 DEF SelectFault, EnterPause, IndInv, TypeOK, HandMatchesPc,
     DistrustIsRecorded, ReapedInOrder, FlagsFollowPause, Finishing, PCs
<1>6. CASE PauseNodes
  BY <1>1, <1>2, <1>6 DEF PauseNodes, IndInv, TypeOK, HandMatchesPc, DistrustIsRecorded,
     ReapedInOrder, FlagsFollowPause, Finishing, PCs
<1>7. CASE CheckCapacity
  <2>1. /\ pc = "capacity" /\ hand = Empty /\ ~storage_paused /\ ~closed /\ ~cancelled
        /\ UNCHANGED <<writable, stop, notice>>
    BY <1>7 DEF CheckCapacity, IndInv, HandMatchesPc, FlagsFollowPause, Finishing
  <2>2. \/ pc' = "backfill" /\ UNCHANGED <<flags, errors>>
        \/ EnterPause /\ pc' = "pauseTick" /\ UNCHANGED errors
        \/ pc' = "finish" /\ errors' \subseteq {"storage", "other"} /\ UNCHANGED flags
    BY <1>7 DEF CheckCapacity, IndInv, TypeOK
  <2>3. TypeOK'
    BY <1>1, <2>1, <2>2 DEF IndInv, TypeOK, EnterPause, PCs
  <2>4. FlagsFollowPause'
    BY <2>1, <2>2 DEF FlagsFollowPause, EnterPause, Finishing
  <2>5. HandMatchesPc' /\ DistrustIsRecorded' /\ ReapedInOrder'
    BY <1>1, <2>1, <2>2 DEF IndInv, HandMatchesPc, DistrustIsRecorded, ReapedInOrder
  <2> QED
    BY <1>2, <2>3, <2>4, <2>5 DEF IndInv
<1>8. CASE ClaimEnds
  BY <1>1, <1>2, <1>8 DEF ClaimEnds, Claiming, AfterClaim, IndInv, TypeOK, HandMatchesPc,
     DistrustIsRecorded, ReapedInOrder, FlagsFollowPause, Finishing, PCs
<1>9. CASE UpdateSampling
  BY <1>1, <1>2, <1>9 DEF UpdateSampling, IngressAfter, IndInv, TypeOK, HandMatchesPc,
     DistrustIsRecorded, ReapedInOrder, FlagsFollowPause, Finishing, PCs
<1>10. CASE LogStatus
  BY <1>1, <1>2, <1>10 DEF LogStatus, IndInv, TypeOK, HandMatchesPc, DistrustIsRecorded,
     ReapedInOrder, FlagsFollowPause, Finishing, PCs
<1>11. CASE Finish
  BY <1>1, <1>2, <1>11 DEF Finish, IndInv, TypeOK, HandMatchesPc, DistrustIsRecorded,
     ReapedInOrder, FlagsFollowPause, Finishing, PCs
<1> QED
  BY <1>3, <1>4, <1>5, <1>6, <1>7, <1>8, <1>9, <1>10, <1>11

-----------------------------------------------------------------------------
(* A result passes from the worker into the hand, or its claim into the    *)
(* list of interrupted ones.                                               *)
LEMMA SelectWorkerStep ==
    ASSUME IndInv, NEW j \in Jobs, SelectWorker(j)
    PROVE  IndInv'
<1> USE DEF Fail, flags, env
<1>1. /\ pc = "select" /\ hand = Empty /\ worker[j] \in Outcomes
      /\ UNCHANGED <<row, storage_paused, cancelled, closed, queue, writable, stop, notice, fetched>>
  BY DEF SelectWorker, IndInv, HandMatchesPc
<1>2. CASE worker[j] \in {"control", "panic"}
  <2>1. /\ worker' = [worker EXCEPT ![j] = "interrupted"]
        /\ errors' = errors \cup {"other"} /\ pc' = "finish" /\ hand' = hand
    BY <1>2 DEF SelectWorker
  <2>2. TypeOK'
    BY <1>1, <2>1 DEF IndInv, TypeOK, PCs
  <2>3. ClaimsAccounted'
    BY <1>1, <1>2, <2>1 DEF IndInv, TypeOK, ClaimsAccounted, Carries
  <2>4. HandMatchesPc' /\ DistrustIsRecorded' /\ ReapedInOrder' /\ FlagsFollowPause'
    BY <1>1, <2>1 DEF IndInv, HandMatchesPc, DistrustIsRecorded, ReapedInOrder,
       FlagsFollowPause, Finishing
  <2> QED
    BY <2>2, <2>3, <2>4 DEF IndInv
<1>3. CASE worker[j] \notin {"control", "panic"}
  <2>1. /\ worker' = [worker EXCEPT ![j] = "none"]
        /\ hand' = [job |-> j, out |-> worker[j]]
        /\ errors' = errors /\ pc' = "apply"
    BY <1>3 DEF SelectWorker
  <2>2. worker[j] \in Results
    BY <1>1, <1>3 DEF Outcomes, Results
  <2>3. TypeOK'
    BY <1>1, <2>1, <2>2 DEF IndInv, TypeOK, PCs
  <2>4. ClaimsAccounted'
    <3>1. \A k \in Jobs : ~Carries(k)
      BY <1>1 DEF Carries, Empty, Results
    <3>2. Carries(j)' /\ \A k \in Jobs \ {j} : ~Carries(k)' /\ worker'[k] = worker[k]
      BY <2>1, <2>2 DEF Carries, IndInv, TypeOK
    <3> QED
      BY <1>1, <2>1, <2>2, <3>1, <3>2 DEF IndInv, TypeOK, ClaimsAccounted, Empty, Outcomes
  <2>5. HandMatchesPc'
    BY <2>1, <2>2 DEF IndInv, TypeOK, HandMatchesPc, Results
  <2>6. DistrustIsRecorded' /\ ReapedInOrder' /\ FlagsFollowPause'
    BY <1>1, <2>1 DEF IndInv, DistrustIsRecorded, ReapedInOrder, FlagsFollowPause, Finishing
  <2> QED
    BY <2>3, <2>4, <2>5, <2>6 DEF IndInv
<1> QED
  BY <1>2, <1>3

(* The result in the hand goes to the database.                            *)
LEMMA ApplyStep ==
    ASSUME IndInv, Apply
    PROVE  IndInv'
<1> USE DEF Fail, flags, env
<1> DEFINE j == hand.job
           out == hand.out
<1>1. /\ pc = "apply" /\ hand' = Empty /\ j \in Jobs /\ out \in Results /\ worker[j] = "none"
      /\ UNCHANGED <<worker, storage_paused, cancelled, closed, queue, writable, stop, notice, fetched>>
  BY DEF Apply, IndInv, HandMatchesPc
<1>2. \/ row' = Committed(j, out) /\ pc' = AfterApply /\ errors' = errors
      \/ row' \in {row, Committed(j, out)} /\ errors' = errors \cup {"storage"} /\ pc' = "finish"
  BY DEF Apply
<1>3. TypeOK
  BY DEF IndInv
<1> HIDE DEF j, out
<1>4. /\ Committed(j, out) \in [Jobs -> Rows]
      /\ Committed(j, out)[j] # "running"
      /\ row[j] # "running" => Committed(j, out) = row
      /\ row[j] = "running" /\ out = "success" => Committed(j, out)[j] = "done"
      /\ \A k \in Jobs \ {j} : Committed(j, out)[k] \in {row[k], "done"}
  BY <1>1, <1>3, CommittedRows
<1>5. TypeOK'
  BY <1>1, <1>2, <1>3, <1>4 DEF TypeOK, PCs, AfterApply
<1>6. ClaimsAccounted'
  <2> SUFFICES ASSUME "storage" \notin errors', NEW k \in Jobs
               PROVE  /\ row'[k] = "running" => worker'[k] # "none" \/ Carries(k)'
                      /\ worker'[k] # "none" \/ Carries(k)' => row'[k] \in {"running", "done"}
                      /\ k \in fetched' =>
                            row'[k] = "done" \/ worker'[k] = "success"
                              \/ (hand'.job = k /\ hand'.out = "success")
    BY DEF ClaimsAccounted
  <2>1. row' = Committed(j, out) /\ "storage" \notin errors
    BY <1>2
  <2>2. ~Carries(k)'
    BY <1>1 DEF Carries, Empty, Results
  <2>3. Carries(k) => k = j
    BY DEF Carries, j
  <2>4. hand.job = k /\ hand.out = "success" => k = j /\ out = "success"
    BY DEF j, out
  <2>5. /\ row[k] = "running" => worker[k] # "none" \/ Carries(k)
        /\ worker[k] # "none" \/ Carries(k) => row[k] \in {"running", "done"}
        /\ k \in fetched => row[k] = "done" \/ worker[k] = "success"
                                \/ (hand.job = k /\ hand.out = "success")
    BY <2>1 DEF IndInv, ClaimsAccounted
  <2>6. Carries(j)
    BY <1>1 DEF Carries, j, out
  <2>7. CASE k = j
    BY <1>1, <1>4, <2>1, <2>2, <2>4, <2>5, <2>6, <2>7
  <2>8. CASE k # j
    BY <1>1, <1>4, <2>1, <2>2, <2>3, <2>4, <2>5, <2>8
  <2> QED
    BY <2>7, <2>8
<1>7. HandMatchesPc' /\ DistrustIsRecorded' /\ ReapedInOrder'
  BY <1>1, <1>2 DEF IndInv, HandMatchesPc, DistrustIsRecorded, ReapedInOrder, AfterApply
<1>8. FlagsFollowPause'
  BY <1>1, <1>2 DEF IndInv, FlagsFollowPause, AfterApply, Finishing
<1> QED
  BY <1>5, <1>6, <1>7, <1>8 DEF IndInv

-----------------------------------------------------------------------------
(* Rows that only move from unknown, or from a delay, to ready leave every *)
(* claim where it is.                                                      *)
LEMMA IdleRows ==
    ASSUME IndInv, UNCHANGED <<worker, fetched>>, errors \subseteq errors',
           NEW k \in Jobs, ~Carries(k), ~Carries(k)', "storage" \notin errors',
           \/ row'[k] = row[k]
           \/ row[k] \in {"unknown", "failed", "deferred"} /\ row'[k] = "ready"
    PROVE  /\ row'[k] = "running" => worker'[k] # "none" \/ Carries(k)'
           /\ worker'[k] # "none" \/ Carries(k)' => row'[k] \in {"running", "done"}
           /\ k \in fetched' =>
                  row'[k] = "done" \/ worker'[k] = "success"
                    \/ (hand'.job = k /\ hand'.out = "success")
<1>1. /\ row[k] = "running" => worker[k] # "none"
      /\ worker[k] # "none" => row[k] \in {"running", "done"}
      /\ k \in fetched => row[k] = "done" \/ worker[k] = "success"
  BY DEF IndInv, ClaimsAccounted, Carries, Results
<1> QED
  BY <1>1

(* Announces travel through the hand without touching a claim.             *)
LEMMA AnnounceSteps ==
    ASSUME IndInv, NEW j \in Jobs,
           SelectAnnounce(j) \/ Announce(j)
    PROVE  IndInv'
<1> USE DEF flags, env
<1>1. CASE SelectAnnounce(j)
  <2>1. /\ pc = "select" /\ hand = Empty /\ ~storage_paused
        /\ hand' = [job |-> j, out |-> "announce"] /\ pc' = "announce"
        /\ queue' = queue \ {j}
        /\ UNCHANGED <<row, worker, storage_paused, cancelled, closed, errors, writable, stop,
                       notice, fetched>>
    BY <1>1 DEF SelectAnnounce, IndInv, HandMatchesPc
  <2>2. TypeOK'
    BY <2>1 DEF IndInv, TypeOK, PCs
  <2>3. ClaimsAccounted'
    <3>1. \A k \in Jobs : ~Carries(k) /\ ~Carries(k)'
      BY <2>1 DEF Carries, Empty, Results
    <3> QED
      BY <2>1, <3>1, IdleRows DEF ClaimsAccounted
  <2>4. HandMatchesPc' /\ DistrustIsRecorded' /\ ReapedInOrder' /\ FlagsFollowPause'
    BY <2>1 DEF IndInv, HandMatchesPc, DistrustIsRecorded, ReapedInOrder,
       FlagsFollowPause, Finishing
  <2> QED
    BY <2>2, <2>3, <2>4 DEF IndInv
<1>2. CASE Announce(j)
  <2>1. ClaimsAccounted'
    BY <1>2, QuietStep DEF Announce
  <2> QED
    BY <1>2, <2>1 DEF Announce, IndInv, TypeOK, HandMatchesPc, DistrustIsRecorded,
       ReapedInOrder, FlagsFollowPause, Finishing
<1> QED
  BY <1>1, <1>2

(* The session's requests only set their own flag.                         *)
LEMMA QuietEnvSteps ==
    ASSUME IndInv, RequestStop \/ PublishFault
    PROVE  IndInv'
<1> USE DEF flags, env
<1>1. ClaimsAccounted'
  BY QuietStep DEF RequestStop, PublishFault
<1>2. /\ UNCHANGED <<row, worker, hand, pc, storage_paused, cancelled, closed, queue, errors,
                     writable, fetched>>
      /\ (stop' = TRUE /\ notice' = notice) \/ (notice' = TRUE /\ stop' = stop)
  BY DEF RequestStop, PublishFault
<1>3. TypeOK'
  BY <1>2 DEF IndInv, TypeOK
<1>4. HandMatchesPc' /\ DistrustIsRecorded' /\ ReapedInOrder' /\ FlagsFollowPause'
  BY <1>2 DEF IndInv, HandMatchesPc, DistrustIsRecorded, ReapedInOrder,
     FlagsFollowPause, Finishing
<1> QED
  BY <1>1, <1>3, <1>4 DEF IndInv

(* Admissions and elapsed delays only make rows ready.                     *)
LEMMA AdmissionSteps ==
    ASSUME IndInv, AcceptAnnounce \/ Backfill \/ Drain \/ (\E j \in Jobs : Due(j))
    PROVE  IndInv'
<1> USE DEF Fail, flags, env
<1>1. TypeOK
  BY DEF IndInv
<1>2. CASE AcceptAnnounce
  <2>1. /\ pc = "announce" /\ hand.out = "announce" /\ hand.job \in Jobs /\ hand' = Empty
        /\ row' \in {row, Admitted(hand.job)}
        /\ \/ pc' = "select" /\ errors' = errors
           \/ pc' = "finish" /\ errors' = errors \cup {"storage"}
        /\ UNCHANGED <<worker, storage_paused, cancelled, closed, queue, writable, stop, notice, fetched>>
    BY <1>1, <1>2 DEF AcceptAnnounce, IndInv, HandMatchesPc, TypeOK, Empty
  <2>2. /\ row' \in [Jobs -> Rows]
        /\ \A k \in Jobs : row'[k] = row[k] \/ (row[k] = "unknown" /\ row'[k] = "ready")
    BY <1>1, <2>1, AdmittedRows DEF TypeOK
  <2>3. \A k \in Jobs : ~Carries(k) /\ ~Carries(k)'
    BY <2>1 DEF Carries, Empty, Results
  <2>4. ClaimsAccounted'
    BY <2>1, <2>2, <2>3, IdleRows DEF ClaimsAccounted
  <2>5. TypeOK'
    BY <1>1, <2>1, <2>2 DEF TypeOK, PCs
  <2>6. HandMatchesPc' /\ DistrustIsRecorded' /\ ReapedInOrder' /\ FlagsFollowPause'
    BY <2>1 DEF IndInv, HandMatchesPc, DistrustIsRecorded, ReapedInOrder,
       FlagsFollowPause, Finishing
  <2> QED
    BY <2>4, <2>5, <2>6 DEF IndInv
<1>3. CASE Backfill
  <2>1. PICK A \in SUBSET {j \in Jobs : row[j] = "unknown"} :
           row' = [j \in Jobs |-> IF j \in A THEN "ready" ELSE row[j]]
    BY <1>3 DEF Backfill
  <2>2. /\ pc = "backfill" /\ hand = Empty /\ hand' = hand
        /\ \/ pc' = "claim" /\ errors' = errors
           \/ pc' = "finish" /\ errors' = errors \cup {"storage"}
        /\ UNCHANGED <<worker, storage_paused, cancelled, closed, queue, writable, stop, notice, fetched>>
    BY <1>3 DEF Backfill, IndInv, HandMatchesPc
  <2>3. /\ row' \in [Jobs -> Rows]
        /\ \A k \in Jobs : row'[k] = row[k] \/ (row[k] = "unknown" /\ row'[k] = "ready")
    BY <1>1, <2>1 DEF TypeOK, Rows
  <2>4. \A k \in Jobs : ~Carries(k) /\ ~Carries(k)'
    BY <2>2 DEF Carries, Empty, Results
  <2>5. ClaimsAccounted'
    BY <2>2, <2>3, <2>4, IdleRows DEF ClaimsAccounted
  <2>6. TypeOK'
    BY <1>1, <2>2, <2>3 DEF TypeOK, PCs
  <2>7. HandMatchesPc' /\ DistrustIsRecorded' /\ ReapedInOrder' /\ FlagsFollowPause'
    BY <2>2 DEF IndInv, HandMatchesPc, DistrustIsRecorded, ReapedInOrder,
       FlagsFollowPause, Finishing
  <2> QED
    BY <2>5, <2>6, <2>7 DEF IndInv
<1>4. CASE Drain
  <2>1. /\ pc = "drain" /\ hand = Empty /\ hand' = hand
        /\ UNCHANGED <<worker, storage_paused, cancelled, closed, writable, stop, notice, fetched>>
    BY <1>4 DEF Drain, IndInv, HandMatchesPc
  <2>2. /\ row' \in [Jobs -> Rows]
        /\ \A k \in Jobs : row'[k] = row[k] \/ (row[k] = "unknown" /\ row'[k] = "ready")
    BY <1>1, <1>4, AdmittedRows DEF Drain, TypeOK
  <2>3. /\ queue' \subseteq queue
        /\ \/ pc' = "drain" /\ errors' = errors
           \/ pc' = "ended" /\ errors' = errors /\ queue' = {}
           \/ pc' = "ended" /\ errors' = errors \cup {"storage"}
    BY <1>4, <2>1 DEF Drain
  <2>4. \A k \in Jobs : ~Carries(k) /\ ~Carries(k)'
    BY <2>1 DEF Carries, Empty, Results
  <2>5. ClaimsAccounted'
    BY <2>1, <2>2, <2>3, <2>4, IdleRows DEF ClaimsAccounted
  <2>6. TypeOK'
    BY <1>1, <2>1, <2>2, <2>3 DEF TypeOK, PCs
  <2>7. HandMatchesPc' /\ DistrustIsRecorded' /\ ReapedInOrder' /\ FlagsFollowPause'
    BY <2>1, <2>3 DEF IndInv, HandMatchesPc, DistrustIsRecorded, ReapedInOrder,
       FlagsFollowPause, Finishing
  <2> QED
    BY <2>5, <2>6, <2>7 DEF IndInv
<1>5. ASSUME NEW j \in Jobs, Due(j) PROVE IndInv'
  <2>1. /\ row[j] \in {"failed", "deferred"} /\ row' = [row EXCEPT ![j] = "ready"]
        /\ UNCHANGED <<worker, hand, pc, storage_paused, cancelled, closed, queue, errors, writable,
                       stop, notice, fetched>>
    BY <1>5 DEF Due
  <2>2. /\ row' \in [Jobs -> Rows] /\ row'[j] = "ready"
        /\ \A k \in Jobs \ {j} : row'[k] = row[k]
    BY <1>1, <2>1 DEF TypeOK, Rows
  <2>3. ClaimsAccounted'
    BY <2>1, <2>2 DEF IndInv, ClaimsAccounted, Carries
  <2>4. TypeOK'
    BY <1>1, <2>1, <2>2 DEF TypeOK
  <2>5. HandMatchesPc' /\ DistrustIsRecorded' /\ ReapedInOrder' /\ FlagsFollowPause'
    BY <2>1 DEF IndInv, HandMatchesPc, DistrustIsRecorded, ReapedInOrder,
       FlagsFollowPause, Finishing
  <2> QED
    BY <2>3, <2>4, <2>5 DEF IndInv
<1> QED
  BY <1>2, <1>3, <1>4, <1>5

-----------------------------------------------------------------------------
(* A claim gets its worker, unless the answer of the database was lost.    *)
LEMMA ClaimStep ==
    ASSUME IndInv, NEW j \in Jobs, ClaimWorker(j)
    PROVE  IndInv'
<1> USE DEF Fail, flags, env
<1>1. /\ pc \in {"claim", "reclaim"} /\ hand = Empty /\ hand' = hand
      /\ row[j] = "ready" /\ row' = [row EXCEPT ![j] = "running"]
      /\ \/ worker' = [worker EXCEPT ![j] = "busy"] /\ pc' = pc /\ errors' = errors
         \/ worker' = worker /\ pc' = "finish" /\ errors' = errors \cup {"storage"}
      /\ UNCHANGED <<storage_paused, cancelled, closed, queue, writable, stop, notice, fetched>>
  BY DEF ClaimWorker, Claiming, IndInv, HandMatchesPc
<1>2. TypeOK'
  BY <1>1 DEF IndInv, TypeOK, PCs, Rows
<1>3. ClaimsAccounted'
  <2>1. \A k \in Jobs : ~Carries(k) /\ ~Carries(k)'
    BY <1>1 DEF Carries, Empty, Results
  <2>2. /\ row'[j] = "running"
        /\ \A k \in Jobs \ {j} : row'[k] = row[k] /\ worker'[k] = worker[k]
    BY <1>1 DEF IndInv, TypeOK
  <2>3. "storage" \notin errors' => worker'[j] = "busy" /\ "storage" \notin errors
    BY <1>1 DEF IndInv, TypeOK
  <2>4. "storage" \notin errors => j \notin fetched
    BY <1>1, <2>1 DEF IndInv, ClaimsAccounted, Carries, Results
  <2> QED
    BY <1>1, <2>1, <2>2, <2>3, <2>4 DEF IndInv, ClaimsAccounted
<1>4. HandMatchesPc' /\ DistrustIsRecorded' /\ ReapedInOrder' /\ FlagsFollowPause'
  BY <1>1 DEF IndInv, HandMatchesPc, DistrustIsRecorded, ReapedInOrder,
     FlagsFollowPause, Finishing
<1> QED
  BY <1>2, <1>3, <1>4 DEF IndInv

(* A worker ends with its outcome, and verified metadata with it.          *)
LEMMA WorkerStep ==
    ASSUME IndInv, NEW j \in Jobs, WorkerEnds(j)
    PROVE  IndInv'
<1> USE DEF flags
<1>1. PICK out \in Outcomes :
         /\ worker[j] = "busy" /\ worker' = [worker EXCEPT ![j] = out]
         /\ fetched' = IF out = "success" THEN fetched \cup {j} ELSE fetched
         /\ UNCHANGED <<row, hand, pc, storage_paused, cancelled, closed, queue, errors, writable,
                        stop, notice>>
  BY DEF WorkerEnds, Outcomes
<1>2. TypeOK'
  BY <1>1 DEF IndInv, TypeOK
<1>3. ClaimsAccounted'
  <2>1. worker'[j] = out /\ \A k \in Jobs \ {j} : worker'[k] = worker[k]
    BY <1>1 DEF IndInv, TypeOK
  <2>2. \A k \in Jobs : Carries(k)' <=> Carries(k)
    BY <1>1 DEF Carries
  <2> QED
    BY <1>1, <2>1, <2>2 DEF IndInv, ClaimsAccounted, Outcomes
<1>4. HandMatchesPc' /\ DistrustIsRecorded' /\ ReapedInOrder' /\ FlagsFollowPause'
  BY <1>1 DEF IndInv, TypeOK, HandMatchesPc, DistrustIsRecorded, ReapedInOrder,
     FlagsFollowPause, Finishing
<1> QED
  BY <1>2, <1>3, <1>4 DEF IndInv

(* Handing a claim back in finish: the row leaves running, or a database   *)
(* error is on record.                                                     *)
LEMMA HandBackStep ==
    ASSUME IndInv, NEW j \in Jobs, ReapWorker(j) \/ HandBack(j)
    PROVE  IndInv'
<1> USE DEF flags, env
<1>1. PICK out \in Outcomes :
         /\ pc \in {"reap", "interrupted"} /\ hand = Empty
         /\ worker[j] \in {out, "interrupted"}
         /\ worker' = [worker EXCEPT ![j] = "none"]
         /\ Save(j, out)
         /\ UNCHANGED <<hand, pc, storage_paused, cancelled, closed, queue, stop, notice, fetched>>
  BY DEF ReapWorker, HandBack, IndInv, HandMatchesPc, Outcomes
<1> DEFINE kept == Kept(AsReported(out))
<1>2. kept \in Results /\ (out = "success" => kept = "success")
  BY DEF Kept, AsReported, Results, Outcomes
<1>3. \/ row' = Committed(j, kept) /\ "storage" \notin errors' \ errors /\ writable' = writable
      \/ row' \in {row, Committed(j, kept)} /\ "storage" \in errors'
  BY <1>1 DEF Save, ErrorOf, IndInv, DistrustIsRecorded
<1>4. /\ errors \subseteq errors' /\ errors' \subseteq {"storage", "other"}
      /\ writable' \in BOOLEAN /\ (~writable' => "storage" \in errors')
  BY <1>1 DEF Save, ErrorOf, IndInv, TypeOK, DistrustIsRecorded
<1> HIDE DEF kept
<1>5. TypeOK
  BY DEF IndInv
<1>6. /\ Committed(j, kept) \in [Jobs -> Rows]
      /\ Committed(j, kept)[j] # "running"
      /\ row[j] # "running" => Committed(j, kept) = row
      /\ row[j] = "running" /\ kept = "success" => Committed(j, kept)[j] = "done"
      /\ \A k \in Jobs \ {j} : Committed(j, kept)[k] \in {row[k], "done"}
  BY <1>2, <1>5, CommittedRows
<1>7. TypeOK'
  <2>1. row' \in [Jobs -> Rows]
    BY <1>3, <1>5, <1>6 DEF TypeOK
  <2> QED
    BY <1>1, <1>4, <1>5, <2>1 DEF TypeOK
<1>8. ClaimsAccounted'
  <2> SUFFICES ASSUME "storage" \notin errors', NEW k \in Jobs
               PROVE  /\ row'[k] = "running" => worker'[k] # "none" \/ Carries(k)'
                      /\ worker'[k] # "none" \/ Carries(k)' => row'[k] \in {"running", "done"}
                      /\ k \in fetched' =>
                            row'[k] = "done" \/ worker'[k] = "success"
                              \/ (hand'.job = k /\ hand'.out = "success")
    BY DEF ClaimsAccounted
  <2>1. row' = Committed(j, kept) /\ "storage" \notin errors
    BY <1>3, <1>4
  <2>2. ~Carries(k) /\ ~Carries(k)'
    BY <1>1 DEF Carries, Empty, Results
  <2>3. /\ row[k] = "running" => worker[k] # "none"
        /\ worker[k] # "none" => row[k] \in {"running", "done"}
        /\ k \in fetched => row[k] = "done" \/ worker[k] = "success"
    BY <1>1, <2>1, <2>2 DEF IndInv, ClaimsAccounted, Empty
  <2>4. CASE k = j
    BY <1>1, <1>2, <1>5, <1>6, <2>1, <2>2, <2>3, <2>4 DEF TypeOK, Outcomes
  <2>5. CASE k # j
    BY <1>1, <1>5, <1>6, <2>1, <2>2, <2>3, <2>5 DEF TypeOK
  <2> QED
    BY <2>4, <2>5
<1>9. HandMatchesPc' /\ DistrustIsRecorded'
  BY <1>1, <1>4 DEF IndInv, HandMatchesPc, DistrustIsRecorded
<1>10. ReapedInOrder'
  BY <1>1, <1>5 DEF IndInv, ReapedInOrder, TypeOK
<1>11. FlagsFollowPause'
  BY <1>1, <1>4 DEF IndInv, FlagsFollowPause, Finishing
<1> QED
  BY <1>7, <1>8, <1>9, <1>10, <1>11 DEF IndInv

(* Reaping and handing back end when nobody is left.                       *)
LEMMA ReapEndSteps ==
    ASSUME IndInv, ReapEnds \/ HandBackEnds
    PROVE  IndInv'
<1> USE DEF flags, env
<1>1. /\ UNCHANGED <<row, worker, hand, storage_paused, cancelled, closed, queue, errors, writable,
                     stop, notice, fetched>>
      /\ pc \in {"reap", "interrupted"} /\ hand = Empty
  BY DEF ReapEnds, HandBackEnds, IndInv, HandMatchesPc
<1>2. ClaimsAccounted'
  BY <1>1, QuietStep
<1>3. CASE ReapEnds
  <2>1. pc' = "interrupted" /\ \A j \in Jobs : worker[j] \in {"none", "interrupted"}
    BY <1>3 DEF ReapEnds, Tasks, IndInv, TypeOK
  <2> QED
    BY <1>1, <1>2, <2>1 DEF IndInv, TypeOK, HandMatchesPc, DistrustIsRecorded,
       ReapedInOrder, FlagsFollowPause, Finishing, PCs
<1>4. CASE HandBackEnds
  <2>1. /\ pc = "interrupted"
        /\ \/ pc' = "drain"
           \/ pc' = "ended" /\ (~writable \/ storage_paused)
    BY <1>4 DEF HandBackEnds, MayDrain
  <2> QED
    BY <1>1, <1>2, <2>1 DEF IndInv, TypeOK, HandMatchesPc, DistrustIsRecorded,
       ReapedInOrder, FlagsFollowPause, Finishing, PCs
<1> QED
  BY <1>3, <1>4

-----------------------------------------------------------------------------
(* The nodes announce only keys that the model knows.                      *)
LEMMA AnnouncedAreJobs == \A j \in Announced : j \in Jobs
  BY JobAssumption

(* Every step keeps the invariant.                                         *)
THEOREM NextIndInv == IndInv /\ [Next]_vars => IndInv'
<1> SUFFICES ASSUME IndInv, [Next]_vars PROVE IndInv'
  OBVIOUS
<1>1. CASE UNCHANGED vars
  BY <1>1 DEF vars, IndInv, TypeOK, HandMatchesPc, DistrustIsRecorded, ClaimsAccounted,
     Carries, ReapedInOrder, FlagsFollowPause, Finishing
<1>2. CASE Start \/ SelectStop \/ SelectFault \/ SelectSupervisorGone \/ SelectTick
             \/ PauseNodes \/ CheckCapacity \/ ClaimEnds \/ UpdateSampling \/ LogStatus
             \/ Finish
  BY <1>2, SelectSteps
<1>3. CASE Apply
  BY <1>3, ApplyStep
<1>4. CASE AcceptAnnounce \/ Backfill \/ Drain \/ (\E j \in Jobs : Due(j))
  BY <1>4, AdmissionSteps
<1>5. CASE ReapEnds \/ HandBackEnds
  BY <1>5, ReapEndSteps
<1>6. ASSUME NEW j \in Jobs, SelectWorker(j) PROVE IndInv'
  BY <1>6, SelectWorkerStep
<1>7. ASSUME NEW j \in Jobs, SelectAnnounce(j) \/ Announce(j) PROVE IndInv'
  BY <1>7, AnnounceSteps
<1>8. CASE RequestStop \/ PublishFault
  BY <1>8, QuietEnvSteps
<1>9. ASSUME NEW j \in Jobs, ClaimWorker(j) PROVE IndInv'
  BY <1>9, ClaimStep
<1>10. ASSUME NEW j \in Jobs, WorkerEnds(j) PROVE IndInv'
  BY <1>10, WorkerStep
<1>11. ASSUME NEW j \in Jobs, ReapWorker(j) \/ HandBack(j) PROVE IndInv'
  BY <1>11, HandBackStep
<1> QED
  BY <1>1, <1>2, <1>3, <1>4, <1>5, <1>6, <1>7, <1>8, <1>9, <1>10, <1>11, AnnouncedAreJobs
     DEF Next, CollectorStep

(* The invariant holds throughout.                                         *)
THEOREM Invariance == Spec => []IndInv
<1> QED
  BY InitIndInv, NextIndInv, PTL DEF Spec

(* A running row is in somebody's hands unless a database call of the      *)
(* collector failed (scheduler.rs, finish).                                *)
THEOREM NoClaimIsLost == Spec => []NoOrphan
<1>1. IndInv => NoOrphan
  BY DEF IndInv, ClaimsAccounted, NoOrphan, Carries
<1> QED
  BY <1>1, Invariance, PTL

(* However the collector ends without a database error, what a worker      *)
(* verified is stored.                                                     *)
THEOREM NoMetadataIsLost == Spec => []FetchedIsStored
<1>1. IndInv => FetchedIsStored
  BY DEF IndInv, TypeOK, ClaimsAccounted, HandMatchesPc, ReapedInOrder, FetchedIsStored, Empty
<1> QED
  BY <1>1, Invariance, PTL

(* An end that can still write leaves no accepted announce behind.         *)
THEOREM NoAnnounceIsLost == Spec => []AnnouncesDrained
<1>1. IndInv => AnnouncesDrained
  BY DEF IndInv, FlagsFollowPause, AnnouncesDrained
<1> QED
  BY <1>1, Invariance, PTL

(* The three together: the collector loses no claim, metadata or announce. *)
THEOREM CollectorLosesNothing == Spec => []NothingIsLost
<1>1. NoOrphan /\ FetchedIsStored /\ AnnouncesDrained <=> NothingIsLost
  BY DEF NothingIsLost
<1> QED
  BY <1>1, NoClaimIsLost, NoMetadataIsLost, NoAnnounceIsLost, PTL

(* While the collector runs, the announce entrance is closed exactly by    *)
(* the storage pause (scheduler.rs, update_sampling_backpressure).         *)
THEOREM IngressIsPauseOnly == Spec => []IngressFollowsStorage
<1>1. IndInv => IngressFollowsStorage
  BY DEF IndInv, FlagsFollowPause, IngressFollowsStorage
<1> QED
  BY <1>1, Invariance, PTL

-----------------------------------------------------------------------------
(* How a row can change at all: only a claim makes it running and only the *)
(* result that the running collector applies makes it failed.              *)
RowMoves(k) ==
    \/ row'[k] = row[k]
    \/ row'[k] \in {"ready", "done", "deferred"}
    \/ row'[k] = "running" /\ Claiming
    \/ row'[k] = "failed" /\ pc = "apply"

(* A committed transaction settles, defers or fails.                       *)
LEMMA CommittedMoves ==
    ASSUME TypeOK, NEW j \in Jobs, NEW out \in Results, NEW k \in Jobs
    PROVE  /\ Committed(j, out)[k] \in {row[k], "done", "failed", "deferred"}
           /\ out # "remote" => Committed(j, out)[k] \in {row[k], "done", "deferred"}
<1>1. CASE out = "success"
  BY <1>1 DEF Committed, Settled, TypeOK
<1>2. CASE out = "remote"
  BY <1>2 DEF Committed, PutBack, TypeOK
<1>3. CASE out = "local"
  BY <1>3 DEF Committed, PutBack, TypeOK
<1> QED
  BY <1>1, <1>2, <1>3 DEF Results

(* Every step of the system changes rows in these ways only.               *)
LEMMA RowsMove ==
    ASSUME IndInv, [Next]_vars, NEW k \in Jobs
    PROVE  RowMoves(k)
<1> USE DEF RowMoves, flags, env
<1>0. TypeOK
  BY DEF IndInv
<1>1. CASE row' = row
  BY <1>1
<1>2. CASE Apply
  <2>1. pc = "apply" /\ hand.job \in Jobs /\ hand.out \in Results
    BY <1>2 DEF Apply, IndInv, HandMatchesPc
  <2>2. row'[k] \in {row[k], Committed(hand.job, hand.out)[k]}
    BY <1>2 DEF Apply
  <2> QED
    BY <2>1, <2>2, <1>0, CommittedMoves
<1>3. CASE AcceptAnnounce
  BY <1>3, <1>0 DEF AcceptAnnounce, Admitted, TypeOK
<1>4. CASE Backfill
  BY <1>4 DEF Backfill
<1>5. CASE Drain
  BY <1>5, <1>0 DEF Drain, Admitted, TypeOK
<1>6. ASSUME NEW j \in Jobs, Due(j) PROVE RowMoves(k)
  BY <1>6, <1>0 DEF Due, TypeOK
<1>7. ASSUME NEW j \in Jobs, ClaimWorker(j) PROVE RowMoves(k)
  BY <1>7, <1>0 DEF ClaimWorker, TypeOK
<1>8. ASSUME NEW j \in Jobs, ReapWorker(j) \/ HandBack(j) PROVE RowMoves(k)
  <2>1. PICK out \in Outcomes : Save(j, out)
    BY <1>8 DEF ReapWorker, HandBack, Outcomes
  <2> DEFINE kept == Kept(AsReported(out))
  <2>2. kept \in Results /\ kept # "remote"
    BY DEF Kept, Results
  <2>3. row' = row \/ row' = Committed(j, kept)
    BY <2>1 DEF Save
  <2> QED
    BY <2>2, <2>3, <1>0, CommittedMoves
<1>9. CASE UNCHANGED vars
  BY <1>9, <1>1 DEF vars
<1>10. CASE \/ Start \/ SelectStop \/ SelectFault \/ SelectSupervisorGone \/ SelectTick
            \/ PauseNodes \/ CheckCapacity \/ ClaimEnds \/ UpdateSampling \/ LogStatus
            \/ Finish \/ ReapEnds \/ HandBackEnds \/ RequestStop \/ PublishFault
  BY <1>10, <1>1 DEF Start, SelectStop, SelectFault, SelectSupervisorGone, SelectTick,
     PauseNodes, CheckCapacity, ClaimEnds, UpdateSampling, LogStatus, Finish, ReapEnds,
     HandBackEnds, RequestStop, PublishFault
<1>11. ASSUME NEW j \in Jobs,
              SelectWorker(j) \/ SelectAnnounce(j) \/ WorkerEnds(j) \/ Announce(j)
       PROVE  RowMoves(k)
  BY <1>11, <1>1 DEF SelectWorker, SelectAnnounce, WorkerEnds, Announce
<1> HIDE DEF RowMoves
<1> QED
  BY <1>2, <1>3, <1>4, <1>5, <1>6, <1>7, <1>8, <1>9, <1>10, <1>11, AnnouncedAreJobs
     DEF Next, CollectorStep

(* No claim is made once the workers are cancelled.                        *)
THEOREM CancelledClaimsNothing == Spec => NoClaimOnceCancelled
<1>1. IndInv /\ [Next]_vars =>
        [(\E j \in Jobs : row[j] # "running" /\ row'[j] = "running") => ~cancelled]_vars
  <2> SUFFICES ASSUME IndInv, [Next]_vars,
                      NEW j \in Jobs, row[j] # "running", row'[j] = "running"
               PROVE  ~cancelled
    OBVIOUS
  <2>1. Claiming
    BY RowsMove DEF RowMoves
  <2> QED
    BY <2>1 DEF Claiming, IndInv, FlagsFollowPause, Finishing
<1> QED
  BY <1>1, Invariance, PTL DEF Spec, NoClaimOnceCancelled

(* Ending the collection charges no key with a remote failure (scheduler.rs,*)
(* save_outcome).                                                          *)
THEOREM EndChargesNobody == Spec => ShutdownChargesNobody
<1>1. IndInv /\ [Next]_vars =>
        [Finishing => \A j \in Jobs : row'[j] = "failed" => row[j] = "failed"]_vars
  <2> SUFFICES ASSUME IndInv, [Next]_vars, Finishing,
                      NEW j \in Jobs, row'[j] = "failed"
               PROVE  row[j] = "failed"
    OBVIOUS
  <2> QED
    BY RowsMove DEF RowMoves, Finishing
<1> QED
  BY <1>1, Invariance, PTL DEF Spec, ShutdownChargesNobody

(* The collector's stop and pause are orderly.                             *)
THEOREM CollectorStopsInOrder == Spec => StopsInOrder
  BY IngressIsPauseOnly, CancelledClaimsNothing, EndChargesNobody, PTL DEF StopsInOrder

-----------------------------------------------------------------------------
(* The claim policy: every class is served within its patience, whatever   *)
(* is due.                                                                 *)

(* How many slots, counted back from slot t, prefer other classes.         *)
SlotsSince ==
    [Hint    |-> [t \in 0..7 |-> <<0, 0, 1, 2, 0, 1, 2, 3>>[t + 1]],
     Recent  |-> [t \in 0..7 |-> <<2, 3, 0, 1, 2, 3, 0, 1>>[t + 1]],
     Retry   |-> [t \in 0..7 |-> <<1, 2, 3, 0, 1, 2, 3, 0>>[t + 1]],
     History |-> [t \in 0..7 |-> <<3, 4, 5, 6, 7, 0, 1, 2>>[t + 1]]]

(* A class has been passed over only in slots that prefer other classes.   *)
PassedInv ==
    /\ turn \in 0..7
    /\ due \in [ClaimClass -> Nat]
    /\ passed \in [ClaimClass -> Nat]
    /\ \A c \in ClaimClass : passed[c] <= SlotsSince[c][turn]

(* A slot that prefers another class adds one to the count, and no class   *)
(* waits through more slots than its patience.                             *)
LEMMA Slots ==
    ASSUME NEW t \in 0..7, NEW c \in ClaimClass
    PROVE  /\ SlotsSince[c][t] \in Nat /\ SlotsSince[c][t] <= Patience[c]
           /\ SlotsSince[c][(t + 1) % 8] \in Nat
           /\ ROTATION[t + 1] # c => SlotsSince[c][(t + 1) % 8] = SlotsSince[c][t] + 1
  <1>1. /\ (t + 1) % 8 = IF t = 7 THEN 0 ELSE t + 1
        /\ t \in {0, 1, 2, 3, 4, 5, 6, 7}
    OBVIOUS
  <1>2. CASE c = "Hint"
    BY <1>1, <1>2 DEF SlotsSince, Patience, ROTATION
  <1>3. CASE c = "Recent"
    BY <1>1, <1>3 DEF SlotsSince, Patience, ROTATION
  <1>4. CASE c = "Retry"
    BY <1>1, <1>4 DEF SlotsSince, Patience, ROTATION
  <1>5. CASE c = "History"
    BY <1>1, <1>5 DEF SlotsSince, Patience, ROTATION
  <1> QED
    BY <1>2, <1>3, <1>4, <1>5 DEF ClaimClass

(* The preferred class is served whenever it has a due job.                *)
LEMMA PreferredIsServed ==
    ASSUME PassedInv, NEW c \in ClaimClass, Served(c),
           NEW d \in ClaimClass, d = ROTATION[turn + 1], due[d] > 0
    PROVE  c = d
<1>1. SUFFICES ASSUME c # d PROVE FALSE
  OBVIOUS
<1>2. order_for(ROTATION[turn + 1], d, c)
  BY <1>1 DEF order_for
<1>3. due[d] = 0
  BY <1>2 DEF Served
<1> QED
  BY <1>3

(* The invariant is inductive: the collector's claims, whatever becomes    *)
(* due meanwhile, and restarts of the rotation all keep it.                *)
THEOREM PatienceHolds == PolicySpec => []NoClassIsStarved
<1>1. PolicyInit => PassedInv
  BY Slots DEF PolicyInit, PassedInv, ClaimClass
<1>2. PassedInv /\ [PolicyNext]_policyVars => PassedInv'
  <2> SUFFICES ASSUME PassedInv, [PolicyNext]_policyVars PROVE PassedInv'
    OBVIOUS
  <2>1. CASE Claim
    <3>1. PICK c \in ClaimClass :
            /\ Served(c)
            /\ turn' = (turn + 1) % 8
            /\ due' = [due EXCEPT ![c] = @ - 1]
            /\ passed' = [d \in ClaimClass |->
                             IF d = c \/ due'[d] = 0 THEN 0 ELSE passed[d] + 1]
      BY <2>1 DEF Claim, on_claimed, ROTATION
    <3>2. due[c] > 0
      BY <3>1 DEF Served
    <3>3. turn' \in 0..7 /\ due' \in [ClaimClass -> Nat] /\ passed' \in [ClaimClass -> Nat]
      BY <3>1, <3>2 DEF PassedInv
    <3>4. ASSUME NEW d \in ClaimClass PROVE passed'[d] <= SlotsSince[d][turn']
      <4>1. CASE d = c \/ due'[d] = 0
        <5>1. passed'[d] = 0
          BY <3>1, <4>1
        <5>2. SlotsSince[d][turn'] \in Nat
          BY <3>3, Slots
        <5> QED
          BY <5>1, <5>2
      <4>2. CASE d # c /\ due'[d] # 0
        <5>1. due[d] > 0
          BY <3>1, <4>2 DEF PassedInv
        <5>2. ROTATION[turn + 1] # d
          BY <3>1, <4>2, <5>1, PreferredIsServed
        <5>3. SlotsSince[d][turn'] = SlotsSince[d][turn] + 1 /\ SlotsSince[d][turn] \in Nat
          BY <3>1, <5>2, Slots DEF PassedInv
        <5>4. passed'[d] = passed[d] + 1 /\ passed[d] \in Nat /\ passed[d] <= SlotsSince[d][turn]
          BY <3>1, <4>2 DEF PassedInv
        <5> QED
          BY <5>3, <5>4
      <4> QED
        BY <4>1, <4>2
    <3> QED
      BY <3>3, <3>4 DEF PassedInv
  <2>2. CASE \E c \in ClaimClass : BecomesDue(c)
    BY <2>2 DEF BecomesDue, PassedInv
  <2>3. CASE \E c \in ClaimClass, d \in ClaimClass : Reclassified(c, d)
    <3>1. PICK c \in ClaimClass, d \in ClaimClass : Reclassified(c, d)
      BY <2>3
    <3>2. turn' = turn /\ due' \in [ClaimClass -> Nat]
      BY <3>1 DEF Reclassified, PassedInv
    <3>3. passed' = passed \/ passed' = [passed EXCEPT ![c] = 0]
      BY <3>1 DEF Reclassified
    <3>4. \A k \in ClaimClass : passed'[k] = passed[k] \/ passed'[k] = 0
      BY <3>3 DEF PassedInv
    <3>5. passed' \in [ClaimClass -> Nat]
      BY <3>3 DEF PassedInv
    <3> QED
      BY <3>2, <3>4, <3>5, Slots DEF PassedInv
  <2>4. CASE NewRun
    BY <2>4, Slots DEF NewRun, PassedInv
  <2>5. CASE UNCHANGED policyVars
    BY <2>5 DEF policyVars, PassedInv
  <2> QED
    BY <2>1, <2>2, <2>3, <2>4, <2>5 DEF PolicyNext
<1>3. PassedInv => NoClassIsStarved
  <2> SUFFICES ASSUME PassedInv, NEW c \in ClaimClass PROVE passed[c] <= Patience[c]
    BY DEF NoClassIsStarved
  <2>1. /\ SlotsSince[c][turn] \in Nat /\ SlotsSince[c][turn] <= Patience[c]
        /\ passed[c] \in Nat /\ passed[c] <= SlotsSince[c][turn] /\ Patience[c] \in Nat
    BY Slots DEF PassedInv, Patience, ClaimClass
  <2> QED
    BY <2>1
<1> QED
  BY <1>1, <1>2, <1>3, PTL DEF PolicySpec

-----------------------------------------------------------------------------
(* The pause of the samplers.  The flag that the nodes have is the verdict *)
(* at every step, and account was called at least once before a pause, so  *)
(* that no paused time is missed; the wait for recovery never runs longer  *)
(* than the calm it stands for.                                            *)

Age == 0..Cap
PressureType ==
    /\ capacity \in BOOLEAN /\ backlog \in BOOLEAN /\ storage \in BOOLEAN /\ sampling \in BOOLEAN
    /\ since \in Age \cup {None} /\ last \in Age \cup {None}
    /\ pausedMs \in Age /\ calm \in Age /\ stopped \in Age
    /\ recent \in Nat
PauseIsSeen == paused => last # None
WaitIsCalm ==
    /\ ~backlog => since = None
    /\ since # None => since <= calm
PressureInv == PressureType /\ PauseIsAccounted /\ PauseIsSeen /\ WaitIsCalm

(* Saturating sums.                                                        *)
LEMMA SatSums ==
    ASSUME NEW m \in Age, NEW n \in Age
    PROVE  /\ Sat(m + n) \in Age /\ Sat(m + 0) = m /\ Sat(m + 1) \in Age
           /\ Sat(Sat(m + n) + 1) = Sat(m + Sat(n + 1))
           /\ m <= n => Sat(m + 1) <= Sat(n + 1)
  BY PressureAssumption DEF Age, Sat

(* The low mark is a number.                                               *)
LEMMA LowIsNat == low \in Nat
<1>1. MaxActive \in Nat /\ 4 * concurrency \in Nat
  BY PressureAssumption
<1>2. \E m \in {MaxActive, 4 * concurrency} : \A n \in {MaxActive, 4 * concurrency} : m =< n
  BY <1>1
<1>3. recent_limit \in {MaxActive, 4 * concurrency}
  BY <1>2 DEF recent_limit, Min
<1> QED
  BY <1>1, <1>3 DEF low

(* account brings paused_ms up to the time really paused.                  *)
LEMMA AccountStep ==
    ASSUME PressureInv, account
    PROVE  pausedMs' = stopped /\ last' = 0 /\ pausedMs' \in Age /\ last' \in Age
<1>1. /\ pausedMs \in Age /\ stopped \in Age /\ 0 \in Age
      /\ last \in Age \cup {None}
      /\ stopped = Sat(pausedMs + IF paused /\ last # None THEN last ELSE 0)
  BY PressureAssumption DEF PressureInv, PressureType, PauseIsAccounted, PausedTimeIsExact, Age
<1>2. last' = 0 /\ pausedMs' = IF last # None /\ paused THEN Sat(pausedMs + last) ELSE pausedMs
  BY DEF account
<1>3. CASE last # None /\ paused
  BY <1>1, <1>2, <1>3
<1>4. CASE ~(last # None /\ paused)
  BY <1>1, <1>2, <1>4, SatSums
<1> QED
  BY <1>1, <1>2, <1>3, <1>4

(* After account, whatever the verdict becomes.                            *)
LEMMA AccountedAfter ==
    ASSUME PressureInv, account, stopped' = stopped
    PROVE  PausedTimeIsExact' /\ PauseIsSeen'
<1>1. pausedMs' = stopped /\ last' = 0 /\ stopped \in Age /\ 0 \in Age
  BY AccountStep, PressureAssumption DEF PressureInv, PressureType, Age
<1>2. stopped = Sat(pausedMs' + 0)
  BY <1>1, SatSums
<1>3. (IF paused' /\ last' # None THEN last' ELSE 0) = 0
  BY <1>1
<1>4. PausedTimeIsExact'
  BY <1>2, <1>3 DEF PausedTimeIsExact, Sat
<1> QED
  BY <1>1, <1>4 DEF PauseIsSeen, None

(* What a reading of the queue does to the backlog and its wait.           *)
LEMMA BacklogStep ==
    ASSUME PressureInv, BacklogAfterReading
    PROVE  /\ backlog' \in BOOLEAN /\ since' \in Age \cup {None}
           /\ ~backlog' => since' = None
           /\ since' # None => since' <= calm /\ recent <= low
           /\ backlog /\ ~backlog' => calm >= Recovery
<1>1. /\ backlog \in BOOLEAN /\ since \in Age \cup {None} /\ calm \in Age /\ Recovery \in Nat
      /\ (~backlog => since = None) /\ (since # None => since <= calm)
      /\ 0 \in Age /\ (\A n \in Age : n \in Nat) /\ None \notin Age
  BY PressureAssumption DEF PressureInv, PressureType, WaitIsCalm, Age, None
<1>2. CASE ~backlog
  <2>1. backlog' = (recent >= high) /\ since' = since
    BY <1>2 DEF BacklogAfterReading
  <2>2. backlog' \in BOOLEAN
    BY <2>1
  <2> QED
    BY <1>1, <1>2, <2>1, <2>2
<1>3. CASE backlog /\ recent <= low
  <2> DEFINE age == IF since = None THEN 0 ELSE since
  <2>1. backlog' = (age < Recovery) /\ since' = IF age < Recovery THEN age ELSE None
    BY <1>3 DEF BacklogAfterReading
  <2>2. age \in Age /\ age <= calm
    BY <1>1
  <2>3. backlog' \in BOOLEAN /\ (~backlog' => ~(age < Recovery))
    <3>1. backlog' = (age < Recovery)
      BY <2>1
    <3> HIDE DEF age
    <3>2. backlog' \in BOOLEAN
      BY <3>1
    <3>3. ASSUME ~backlog' PROVE ~(age < Recovery)
      BY <3>1, <3>3
    <3> QED
      BY <3>2, <3>3
  <2> HIDE DEF age
  <2>4. since' \in Age \cup {None} /\ (since' # None => since' = age) /\ (~(age < Recovery) => since' = None)
    BY <2>1, <2>2
  <2>5. ~backlog' => calm >= Recovery
    BY <1>1, <2>2, <2>3
  <2> QED
    BY <1>3, <2>2, <2>3, <2>4, <2>5
<1>4. CASE backlog /\ ~(recent <= low)
  BY <1>1, <1>4 DEF BacklogAfterReading
<1> QED
  BY <1>1, <1>2, <1>3, <1>4

LEMMA TickStep ==
    ASSUME PressureInv, Tick
    PROVE  PressureInv' /\ (backlog /\ ~backlog' => calm >= Recovery)
<1> DEFINE reading == cycle = 0
<1>1. /\ account /\ storage' = FALSE /\ capacity' = CapacityAfter /\ pause
      /\ IF Freshness /\ reading THEN BacklogAfterReading ELSE UNCHANGED <<backlog, since>>
      /\ calm' = IF Freshness /\ reading /\ recent > low THEN 0 ELSE calm
      /\ stopped' = stopped /\ recent' = recent
  BY DEF Tick, update, load
<1>2. /\ backlog' \in BOOLEAN /\ since' \in Age \cup {None} /\ (~backlog' => since' = None)
      /\ since' # None => since' <= calm'
      /\ backlog /\ ~backlog' => calm >= Recovery
  <2>1. CASE Freshness /\ reading
    <3>1. BacklogAfterReading
      BY <1>1, <2>1
    <3>2. /\ backlog' \in BOOLEAN /\ since' \in Age \cup {None}
          /\ ~backlog' => since' = None
          /\ since' # None => since' <= calm /\ recent <= low
          /\ backlog /\ ~backlog' => calm >= Recovery
      BY <3>1, BacklogStep
    <3>3. CASE since' = None
      BY <3>2, <3>3
    <3>4. CASE since' # None
      <4>1. recent <= low /\ since' <= calm
        BY <3>2, <3>4
      <4>2. recent \in Nat /\ low \in Nat
        BY LowIsNat DEF PressureInv, PressureType
      <4>3. ~(recent > low)
        BY <4>1, <4>2
      <4>4. calm' = calm
        BY <1>1, <4>3
      <4> QED
        BY <3>2, <4>1, <4>4
    <3> QED
      BY <3>3, <3>4
  <2>2. CASE ~(Freshness /\ reading)
    <3>1. backlog' = backlog /\ since' = since /\ calm' = calm
      BY <1>1, <2>2
    <3> QED
      BY <3>1 DEF PressureInv, PressureType, WaitIsCalm
  <2> QED
    BY <2>1, <2>2
<1>3. calm' \in Age /\ stopped' \in Age /\ pausedMs' \in Age /\ last' \in Age /\ recent' \in Nat
  BY <1>1, AccountStep, PressureAssumption DEF PressureInv, PressureType, Age
<1>4. capacity' \in BOOLEAN /\ storage' \in BOOLEAN
  <2>1. capacity' = (active >= resumeBelow) \/ capacity' = (active >= MaxActive)
    BY <1>1, Zenon DEF CapacityAfter
  <2>2. capacity' \in BOOLEAN
    <3>1. CASE capacity' = (active >= resumeBelow)
      BY <3>1
    <3>2. CASE capacity' = (active >= MaxActive)
      BY <3>2
    <3> QED
      BY <2>1, <3>1, <3>2
  <2> QED
    BY <1>1, <2>2
<1>5. SamplingFollowsVerdict' /\ sampling' \in BOOLEAN
  <2>1. sampling' = IF paused' # paused THEN ~paused' ELSE sampling
    BY <1>1 DEF pause
  <2>2. sampling \in BOOLEAN /\ paused \in BOOLEAN /\ paused' \in BOOLEAN /\ (sampling <=> ~paused)
    BY <1>2, <1>4 DEF PressureInv, PressureType, PauseIsAccounted, SamplingFollowsVerdict, paused
  <2>3. CASE paused' # paused
    BY <2>1, <2>2, <2>3 DEF SamplingFollowsVerdict
  <2>4. CASE paused' = paused
    BY <2>1, <2>2, <2>4 DEF SamplingFollowsVerdict
  <2> QED
    BY <2>3, <2>4
<1>6. PausedTimeIsExact' /\ PauseIsSeen'
  BY <1>1, AccountedAfter
<1> QED
  BY <1>2, <1>3, <1>4, <1>5, <1>6 DEF PressureInv, PressureType, PauseIsAccounted, WaitIsCalm

LEMMA StoragePauseStep ==
    ASSUME PressureInv, StoragePause
    PROVE  PressureInv' /\ backlog' = backlog
<1>1. /\ account /\ storage' = TRUE /\ sampling' = FALSE /\ stopped' = stopped
      /\ UNCHANGED <<recent, capacity, backlog, since, calm>>
  BY DEF StoragePause, load
<1>2. PausedTimeIsExact' /\ PauseIsSeen'
  BY <1>1, AccountedAfter
<1>3. SamplingFollowsVerdict'
  BY <1>1 DEF SamplingFollowsVerdict, paused
<1>4. pausedMs' \in Age /\ last' \in Age
  BY <1>1, AccountStep
<1>5. WaitIsCalm'
  BY <1>1 DEF PressureInv, WaitIsCalm
<1>6. PressureType'
  BY <1>1, <1>4 DEF PressureInv, PressureType
<1> QED
  BY <1>1, <1>2, <1>3, <1>5, <1>6 DEF PressureInv, PauseIsAccounted

LEMMA LogStep ==
    ASSUME PressureInv, Log
    PROVE  PressureInv' /\ backlog' = backlog
<1>1. /\ account /\ UNCHANGED <<recent, capacity, backlog, storage, since, sampling, calm, stopped>>
  BY DEF Log, reasons, load
<1>2. PausedTimeIsExact' /\ PauseIsSeen'
  BY <1>1, AccountedAfter
<1>3. SamplingFollowsVerdict'
  BY <1>1 DEF PressureInv, PauseIsAccounted, SamplingFollowsVerdict, paused
<1>4. pausedMs' \in Age /\ last' \in Age
  BY <1>1, AccountStep
<1>5. WaitIsCalm'
  BY <1>1 DEF PressureInv, WaitIsCalm
<1>6. PressureType'
  BY <1>1, <1>4 DEF PressureInv, PressureType
<1> QED
  BY <1>1, <1>2, <1>3, <1>5, <1>6 DEF PressureInv, PauseIsAccounted

(* Time passes for the nodes and for the ages alike.                       *)
LEMMA ElapseStep ==
    ASSUME PressureInv, Elapse
    PROVE  PressureInv' /\ backlog' = backlog
<1>1. /\ since' = Older(since) /\ last' = Older(last) /\ calm' = Sat(calm + 1)
      /\ stopped' = IF sampling THEN stopped ELSE Sat(stopped + 1)
      /\ UNCHANGED <<recent, capacity, backlog, storage, pausedMs, sampling>>
  BY DEF Elapse, load
<1>2. /\ since \in Age \cup {None} /\ last \in Age \cup {None} /\ None \notin Age
      /\ pausedMs \in Age /\ calm \in Age /\ stopped \in Age
      /\ (sampling <=> ~paused) /\ sampling \in BOOLEAN /\ paused' = paused
      /\ paused => last # None
      /\ stopped = Sat(pausedMs + IF paused /\ last # None THEN last ELSE 0)
  BY <1>1, PressureAssumption
     DEF PressureInv, PressureType, PauseIsAccounted, SamplingFollowsVerdict, PausedTimeIsExact,
         PauseIsSeen, Age, None, paused
<1>3. /\ since' \in Age \cup {None} /\ last' \in Age \cup {None}
      /\ (since = None <=> since' = None) /\ (last = None <=> last' = None)
      /\ since # None => since' = Sat(since + 1)
      /\ last # None => last' = Sat(last + 1)
  <2>1. \A m \in Age : Sat(m + 1) \in Age
    BY SatSums
  <2> QED
    BY <1>1, <1>2, <2>1 DEF Older
<1>4. calm' \in Age /\ stopped' \in Age
  BY <1>1, <1>2, SatSums
<1>5. PausedTimeIsExact'
  <2>1. CASE paused
    <3>1. last \in Age /\ last' = Sat(last + 1) /\ last' # None /\ stopped = Sat(pausedMs + last)
      BY <1>2, <1>3, <2>1
    <3>2. stopped' = Sat(stopped + 1)
      BY <1>1, <1>2, <2>1
    <3>3. Sat(Sat(pausedMs + last) + 1) = Sat(pausedMs + Sat(last + 1))
      BY <1>2, <3>1, SatSums
    <3>4. stopped' = Sat(pausedMs' + last')
      BY <1>1, <3>1, <3>2, <3>3
    <3> QED
      BY <1>2, <2>1, <3>1, <3>4 DEF PausedTimeIsExact, Sat
  <2>2. CASE ~paused
    <3>1. stopped' = stopped /\ pausedMs' = pausedMs /\ ~paused' /\ stopped = Sat(pausedMs + 0)
      BY <1>1, <1>2, <2>2
    <3> QED
      BY <3>1 DEF PausedTimeIsExact, Sat
  <2> QED
    BY <2>1, <2>2
<1>6. WaitIsCalm'
  <2>1. since # None => since' <= calm'
    <3> SUFFICES ASSUME since # None PROVE since' <= calm'
      OBVIOUS
    <3>1. since \in Age /\ since <= calm /\ since' = Sat(since + 1)
      BY <1>2, <1>3 DEF PressureInv, WaitIsCalm
    <3> QED
      BY <1>1, <1>2, <3>1, SatSums
  <2> QED
    BY <1>1, <1>3, <2>1 DEF PressureInv, WaitIsCalm
<1>7. PressureType'
  BY <1>1, <1>3, <1>4 DEF PressureInv, PressureType
<1>8. SamplingFollowsVerdict' /\ PauseIsSeen'
  BY <1>1, <1>2, <1>3 DEF SamplingFollowsVerdict, PauseIsSeen
<1> QED
  BY <1>1, <1>5, <1>6, <1>7, <1>8 DEF PressureInv, PauseIsAccounted

(* Steps that touch none of the reasons and ages.                          *)
LEMMA PressureStutter ==
    ASSUME PressureInv, recent' \in Nat,
           UNCHANGED <<capacity, backlog, storage, since, last, pausedMs, sampling, calm, stopped>>
    PROVE  PressureInv' /\ backlog' = backlog
<1>1. PressureType'
  BY DEF PressureInv, PressureType
<1>2. SamplingFollowsVerdict' /\ PauseIsSeen' /\ WaitIsCalm'
  BY DEF PressureInv, PauseIsAccounted, SamplingFollowsVerdict, PauseIsSeen, WaitIsCalm, paused
<1>3. PausedTimeIsExact'
  BY DEF PressureInv, PauseIsAccounted, PausedTimeIsExact, paused, Sat
<1> QED
  BY <1>1, <1>2, <1>3 DEF PressureInv, PauseIsAccounted

LEMMA PressureStep ==
    PressureInv /\ [PressureNext]_pressureVars
        => PressureInv' /\ (backlog /\ ~backlog' => calm >= Recovery)
<1> SUFFICES ASSUME PressureInv, [PressureNext]_pressureVars
             PROVE  PressureInv' /\ (backlog /\ ~backlog' => calm >= Recovery)
  OBVIOUS
<1>1. CASE Tick
  BY <1>1, TickStep
<1>2. CASE StoragePause
  BY <1>2, StoragePauseStep
<1>3. CASE Log
  BY <1>3, LogStep
<1>4. CASE Elapse
  BY <1>4, ElapseStep
<1>5. CASE Load \/ UNCHANGED pressureVars
  <2>1. UNCHANGED <<capacity, backlog, storage, since, last, pausedMs, sampling, calm, stopped>>
    BY <1>5 DEF Load, reasons, pressureVars
  <2>2. recent' \in Nat
    <3>1. CASE Load
      BY <3>1, PressureAssumption DEF Load
    <3>2. CASE UNCHANGED pressureVars
      BY <3>2 DEF pressureVars, PressureInv, PressureType
    <3> QED
      BY <1>5, <3>1, <3>2
  <2> QED
    BY <2>1, <2>2, PressureStutter
<1> QED
  BY <1>1, <1>2, <1>3, <1>4, <1>5 DEF PressureNext

LEMMA PressureStart == PressureInit => PressureInv
<1> SUFFICES ASSUME PressureInit PROVE PressureInv
  OBVIOUS
<1>1. 0 \in Age /\ Cap \in Age
  BY PressureAssumption DEF Age
<1>2. PressureType
  BY <1>1 DEF PressureInit, PressureType
<1>3. SamplingFollowsVerdict /\ PauseIsSeen /\ WaitIsCalm /\ ~paused
  BY DEF PressureInit, SamplingFollowsVerdict, PauseIsSeen, WaitIsCalm, paused
<1>4. PausedTimeIsExact
  <2>1. Sat(0 + 0) = 0
    BY <1>1, SatSums
  <2> QED
    BY <1>3, <2>1 DEF PressureInit, PausedTimeIsExact
<1> QED
  BY <1>2, <1>3, <1>4 DEF PressureInv, PauseIsAccounted

(* The nodes sample exactly while no reason to pause is set, and paused_ms *)
(* is the time they were really paused, for any limits and any load.       *)
THEOREM PauseIsFollowed == PressureSpec => []PauseIsAccounted
<1>1. PressureInv => PauseIsAccounted
  BY DEF PressureInv
<1> QED
  BY <1>1, PressureStart, PressureStep, PTL DEF PressureSpec

(* Sampling resumes from a backlog only after the whole recovery time      *)
(* without a reading above the low mark.                                   *)
THEOREM RecoveryIsCalm == PressureSpec => ResumeNeedsCalm
<1>1. PressureInv /\ [PressureNext]_pressureVars => [backlog /\ ~backlog' => calm >= Recovery]_pressureVars
  BY PressureStep
<1>2. PressureInv /\ [PressureNext]_pressureVars => PressureInv'
  BY PressureStep
<1> QED
  BY <1>1, <1>2, PressureStart, PTL DEF PressureSpec, ResumeNeedsCalm

(* The pause of the samplers is just: told to the nodes, counted exactly,  *)
(* and lifted only after a full recovery time of calm.                     *)
THEOREM PauseIsJustified == PressureSpec => PauseIsJust
  BY PauseIsFollowed, RecoveryIsCalm DEF PauseIsJust

=============================================================================
