---------------------------- MODULE Backpressure ----------------------------
(***************************************************************************)
(* When the collector lets the nodes sample: the three pause reasons of    *)
(* collection/backpressure.rs, driven by the one-second tick of run_inner, *)
(* by storage faults and by the minute log, with the flag that reaches the *)
(* samplers.                                                               *)
(*                                                                         *)
(* The code keeps UTC readings and uses only their differences, so this    *)
(* module keeps the ages of those readings.                                *)
(***************************************************************************)
EXTENDS Integers, FiniteSetsExt

CONSTANTS
    Freshness,      \* mode: Freshness or Capacity
    MaxActive,      \* max_active
    concurrency,    \* worker limit
    Recovery,       \* the 30 seconds of calm before sampling resumes
    RefreshEvery,   \* ticks between two readings of the first-attempt queue
    Cap             \* where paused_ms and the ages saturate

ASSUME PressureAssumption ==
    /\ Freshness \in BOOLEAN /\ MaxActive \in Nat /\ concurrency \in Nat /\ Recovery \in Nat
    /\ RefreshEvery \in Nat \ {0} /\ Cap \in Nat

VARIABLES
    active, recent,     \* what the database holds: active jobs, and Q
    capacity, backlog, storage,
    since,              \* age of recovery_since, or None
    last,               \* age of last_at, or None
    pausedMs,           \* paused_ms
    cycle,              \* cycles modulo RefreshEvery
    ticked,             \* the interval has ticked
    sampling,           \* the nodes sample; set by pause_sampling alone
    calm,               \* age of the last reading of Q above the low mark
    stopped             \* how long the nodes have really been paused

load == <<active, recent>>
reasons == <<capacity, backlog, storage, since>>
pressureVars == <<active, recent, capacity, backlog, storage, since, last, pausedMs,
                  cycle, ticked, sampling, calm, stopped>>

None == -1
Sat(n) == IF n > Cap THEN Cap ELSE n
Older(age) == IF age = None THEN None ELSE Sat(age + 1)

recent_limit == Min({MaxActive, 4 * concurrency})
high == recent_limit
low == recent_limit \div 4
resumeBelow == Max({(MaxActive * 8) \div 10, 1})

paused == capacity \/ backlog \/ storage

PressureInit ==
    /\ active = 0 /\ recent = 0
    /\ capacity = FALSE /\ backlog = FALSE /\ storage = FALSE
    /\ since = None /\ last = None
    /\ pausedMs = 0
    /\ cycle = 0
    /\ ticked = TRUE
    /\ sampling = TRUE
    /\ calm = Cap
    /\ stopped = 0

(* account: the time since the last call counts if it was spent paused.    *)
account ==
    /\ pausedMs' = IF last # None /\ paused THEN Sat(pausedMs + last) ELSE pausedMs
    /\ last' = 0

CapacityAfterTruncated ==
    IF capacity THEN active >= Max({(MaxActive \div 10) * 8, 1}) ELSE active >= MaxActive
CapacityAfter == IF capacity THEN active >= resumeBelow ELSE active >= MaxActive

(* The backlog reason after a reading of Q: set at the high mark, cleared  *)
(* after Recovery of uninterrupted readings at or below the low mark.      *)
BacklogKeepingStart ==
    IF ~backlog THEN backlog' = (recent >= high) /\ since' = since
    ELSE IF recent <= low
         THEN LET age == IF since = None THEN 0 ELSE since
              IN  /\ backlog' = (age < Recovery)
                  /\ since' = IF age < Recovery THEN age ELSE None
         ELSE backlog' = backlog /\ since' = since
BacklogAfterReading ==
    IF ~backlog THEN backlog' = (recent >= high) /\ since' = since
    ELSE IF recent <= low
         THEN LET age == IF since = None THEN 0 ELSE since
              IN  /\ backlog' = (age < Recovery)
                  /\ since' = IF age < Recovery THEN age ELSE None
         ELSE backlog' = backlog /\ since' = None

(* update, with or without a reading of Q, for a healthy store.            *)
update(reading) ==
    /\ account
    /\ storage' = FALSE
    /\ capacity' = CapacityAfter
    /\ IF Freshness /\ reading THEN BacklogAfterReading ELSE UNCHANGED <<backlog, since>>

(* The flag is sent to the nodes only when the overall verdict changed.    *)
pauseOnCapacity == sampling' = IF capacity' # capacity THEN ~capacity' ELSE sampling
pause == sampling' = IF paused' # paused THEN ~paused' ELSE sampling

(* update_sampling_backpressure, at the end of a tick that was not paused  *)
(* by the store.                                                           *)
Tick ==
    LET reading == cycle = 0
    IN  /\ ticked /\ ~storage
        /\ update(reading)
        /\ pause
        /\ cycle' = (cycle + 1) % RefreshEvery
        /\ ticked' = FALSE
        /\ calm' = IF Freshness /\ reading /\ recent > low THEN 0 ELSE calm
        /\ UNCHANGED <<load, stopped>>

(* A fault notification or a full state directory: storage stays set until *)
(* the process is restarted.                                               *)
StoragePause ==
    /\ ~storage
    /\ account
    /\ storage' = TRUE
    /\ sampling' = FALSE
    /\ UNCHANGED <<load, capacity, backlog, since, cycle, ticked, calm, stopped>>

(* log, once a minute and at the end.                                      *)
Log ==
    /\ account
    /\ UNCHANGED <<load, reasons, cycle, ticked, sampling, calm, stopped>>

(* Jobs come and go; Q counts some of the active ones.                     *)
Load ==
    /\ active' \in 0..MaxActive
    /\ recent' \in 0..active'
    /\ load' # load
    /\ UNCHANGED <<reasons, last, pausedMs, cycle, ticked, sampling, calm, stopped>>

Elapse ==
    /\ ticked' = TRUE
    /\ since' = Older(since)
    /\ last' = Older(last)
    /\ calm' = Sat(calm + 1)
    /\ stopped' = IF sampling THEN stopped ELSE Sat(stopped + 1)
    /\ UNCHANGED <<load, capacity, backlog, storage, pausedMs, cycle, sampling>>

PressureNext == Tick \/ StoragePause \/ Log \/ Load \/ Elapse

PressureSpec == PressureInit /\ [][PressureNext]_pressureVars

(* The interval keeps ticking and the loop keeps serving it.               *)
PressureFairSpec == PressureSpec /\ WF_pressureVars(Elapse) /\ WF_pressureVars(Tick)

-----------------------------------------------------------------------------
(* The nodes sample exactly while no reason to pause is set, although the  *)
(* flag is only sent when the verdict changes.                             *)
SamplingFollowsVerdict == sampling <=> ~paused

(* paused_ms, brought up to date, is the time the nodes were really        *)
(* paused, wherever the updates and the logs fell.                         *)
PausedTimeIsExact ==
    stopped = Sat(pausedMs + IF paused /\ last # None THEN last ELSE 0)

(* The nodes sample exactly while no reason to pause is set, and the time  *)
(* they were paused is accounted for to the tick.                          *)
PauseIsAccounted == SamplingFollowsVerdict /\ PausedTimeIsExact

(* Backlog is lifted only after a full Recovery without a reading above    *)
(* the low mark: a reading in between starts the wait afresh.              *)
ResumeNeedsCalm == [][backlog /\ ~backlog' => calm >= Recovery]_pressureVars

(* A pause is just: the nodes sample exactly while no reason to pause is   *)
(* set, the paused time is exact, and a backlog is lifted only after a     *)
(* full Recovery of calm.                                                  *)
PauseIsJust == []PauseIsAccounted /\ ResumeNeedsCalm

(* When the queues stay short and the store works, sampling comes back.    *)
quiet == recent <= low /\ active < resumeBelow /\ ~storage
QuietResumes == <>[]quiet => <>[]sampling

=============================================================================
