------------------------------ MODULE Session ------------------------------
(***************************************************************************)
(* The session (app/session): it owns the long-lived tasks, learns of      *)
(* their faults through a watch cell that keeps only the latest value, and *)
(* closes everything in stages under one deadline.                         *)
(*                                                                         *)
(* next_fault is a future that the application polls in a select and drops *)
(* whenever another branch wins; its await on the nodes is where other     *)
(* tasks run.  Faults carry what the code compares: a storage error, or    *)
(* one of the fatal kinds.                                                 *)
(***************************************************************************)
EXTENDS Naturals, Sequences, FiniteSets

CONSTANTS
    Nodes,
    Started,        \* the roles of the tasks that the configuration starts
    StorageErrors,  \* distinct values of StorageError
    MaxErrors       \* bound on the errors that one collector records

ASSUME NodeAssumption == IsFiniteSet(Nodes) /\ Nodes # {}
ASSUME ErrorAssumption == IsFiniteSet(StorageErrors) /\ MaxErrors \in Nat \ {0}

FatalFaults == {"collector_failed", "task_exited", "task_failed", "database_exited"}
ASSUME FaultAssumption == (FatalFaults \cup {"none"}) \cap StorageErrors = {}

VARIABLES
    current,    \* FaultReporter.current
    unread,     \* errors.has_changed
    held,       \* the fault whose pause next_fault awaits, or "none"
    cmds,       \* StoragePause commands that a node has not run yet
    sampling,   \* the nodes' samplers run
    task,       \* each supervised task; one that never started counts as joined
    out,        \* the storage errors or recorded errors a task ends with
    ingest,     \* sampled batches of a node: all saved, some left, or lost
    log,        \* FaultLog is not empty
    stage,      \* "run", then the stages of shutdown_inner
    asked,      \* the nodes were told to shut down
    database,   \* the SQLite thread
    result,     \* of shutdown
    culprit     \* something other than a storage error went wrong

sessionVars == <<current, unread, held, cmds, sampling, task, out, ingest, log, stage,
                 asked, database, result, culprit>>
watch == <<current, unread>>

Fetch == <<"fetch">>
Catalog == <<"catalog">>
Dispatcher(n) == <<"dispatcher", n>>
Snapshot(n) == <<"snapshot", n>>
Sample(n) == <<"sample", n>>
Roles == {Fetch, Catalog} \cup {Dispatcher(n) : n \in Nodes}
            \cup {Snapshot(n) : n \in Nodes} \cup {Sample(n) : n \in Nodes}
ASSUME StartedAssumption ==
    Started \subseteq Roles /\ \A n \in Nodes : Dispatcher(n) \in Started

Ended == {"ok", "err", "panic"}
Closing == stage # "run"
NodeRuns(n) == task[Dispatcher(n)] = "running"

SessionInit ==
    /\ current = "none" /\ unread = FALSE /\ held = "none" /\ cmds = {}
    /\ sampling = [n \in Nodes |-> Sample(n) \in Started]
    /\ task = [r \in Roles |-> IF r \in Started THEN "running" ELSE "joined"]
    /\ out = [r \in Roles |-> <<>>]
    /\ ingest = [n \in Nodes |-> "saved"]
    /\ log = FALSE
    /\ stage = "run" /\ asked = FALSE /\ database = "open" /\ result = "none"
    /\ culprit = FALSE

-----------------------------------------------------------------------------
(* publish keeps the first fatal fault; a repeated fault notifies nobody.  *)
(* So of several in a row the first fatal one stays, or else the last.     *)
FirstFatal(fs, i) == fs[i] \in FatalFaults /\ \A j \in 1 .. i - 1 : fs[j] \notin FatalFaults
Published(fs) ==
    IF \E i \in DOMAIN fs : fs[i] \in FatalFaults
    THEN fs[CHOOSE i \in DOMAIN fs : FirstFatal(fs, i)]
    ELSE fs[Len(fs)]
PublishAll(fs) ==
    /\ current' = IF current \in FatalFaults \/ fs = <<>> THEN current ELSE Published(fs)
    /\ unread' = (unread \/ (current \notin FatalFaults /\ \E i \in DOMAIN fs : fs[i] # current))
Publish(f) == PublishAll(<<f>>)

-----------------------------------------------------------------------------
(* The tasks.                                                              *)

(* The collector reports an error before it winds down with it.            *)
CollectorError(f) ==
    /\ task[Fetch] \in {"running", "failing"} /\ Len(out[Fetch]) < MaxErrors
    /\ task' = [task EXCEPT ![Fetch] = "failing"]
    /\ out' = [out EXCEPT ![Fetch] = Append(@, f)]
    /\ log' = TRUE
    /\ Publish(f)
    /\ culprit' = (culprit \/ f = "collector_failed")
    /\ UNCHANGED <<held, cmds, sampling, ingest, stage, asked, database, result>>
FetchEnds ==
    /\ task[Fetch] = "failing" \/ (task[Fetch] = "running" /\ Closing)
    /\ task' = [task EXCEPT ![Fetch] = IF @ = "failing" THEN "err" ELSE "ok"]
    /\ UNCHANGED <<watch, held, cmds, sampling, out, ingest, log, stage, asked, database,
                   result, culprit>>

(* The snapshot and catalogue tasks stop on request or on a storage error. *)
KeeperFails(r, e) ==
    /\ task[r] = "running"
    /\ task' = [task EXCEPT ![r] = "err"]
    /\ out' = [out EXCEPT ![r] = <<e>>]
    /\ UNCHANGED <<watch, held, cmds, sampling, ingest, log, stage, asked, database, result,
                   culprit>>
KeeperStops(r) ==
    /\ task[r] = "running" /\ Closing
    /\ task' = [task EXCEPT ![r] = "ok"]
    /\ UNCHANGED <<watch, held, cmds, sampling, out, ingest, log, stage, asked, database,
                   result, culprit>>

(* A sample consumer that cannot save publishes the error, has its node    *)
(* pause, and then ends with what it could not save.                       *)
SampleFails(n, e) ==
    /\ task[Sample(n)] = "running"
    /\ task' = [task EXCEPT ![Sample(n)] = "failing"]
    /\ out' = [out EXCEPT ![Sample(n)] = <<e>>]
    /\ ingest' = [ingest EXCEPT ![n] = "left"]
    /\ cmds' = IF NodeRuns(n) THEN cmds \cup {<<n, e>>} ELSE cmds
    /\ Publish(e)
    /\ UNCHANGED <<held, sampling, log, stage, asked, database, result, culprit>>
SampleEnds(n) ==
    /\ \/ task[Sample(n)] = "failing" /\ <<n, out[Sample(n)][1]>> \notin cmds
       \/ task[Sample(n)] = "running" /\ ~sampling[n]
    /\ task' = [task EXCEPT ![Sample(n)] = IF @ = "failing" THEN "err" ELSE "ok"]
    /\ UNCHANGED <<watch, held, cmds, sampling, out, ingest, log, stage, asked, database,
                   result, culprit>>

(* A node meets a storage error of its own, or runs a StoragePause: both   *)
(* report the error and stop the sampler.                                  *)
NodeStorageFault(n, e) ==
    /\ NodeRuns(n)
    /\ sampling' = [sampling EXCEPT ![n] = FALSE]
    /\ Publish(e)
    /\ UNCHANGED <<held, cmds, task, out, ingest, log, stage, asked, database, result, culprit>>
RunPause(n, e) ==
    /\ <<n, e>> \in cmds
    /\ cmds' = cmds \ {<<n, e>>}
    /\ sampling' = [sampling EXCEPT ![n] = FALSE]
    /\ Publish(e)
    /\ UNCHANGED <<held, task, out, ingest, log, stage, asked, database, result, culprit>>

(* A dispatcher returns when it is asked to, or because its socket failed. *)
DispatcherEnds(n) ==
    /\ NodeRuns(n)
    /\ task' = [task EXCEPT ![Dispatcher(n)] = "ok"]
    /\ sampling' = [sampling EXCEPT ![n] = FALSE]
    /\ cmds' = {c \in cmds : c[1] # n}
    /\ culprit' = (culprit \/ ~asked)
    /\ UNCHANGED <<watch, held, out, ingest, log, stage, asked, database, result>>

TaskPanics(r) ==
    /\ task[r] \in {"running", "failing"}
    /\ task' = [task EXCEPT ![r] = "panic"]
    /\ sampling' = [n \in Nodes |-> sampling[n] /\ r # Dispatcher(n)]
    /\ cmds' = {c \in cmds : r # Dispatcher(c[1])}
    /\ ingest' = [n \in Nodes |-> IF r = Sample(n) THEN "lost" ELSE ingest[n]]
    /\ culprit' = TRUE
    /\ UNCHANGED <<watch, held, out, log, stage, asked, database, result>>

DatabaseDies ==
    /\ database = "open"
    /\ database' = "gone"
    /\ culprit' = TRUE
    /\ UNCHANGED <<watch, held, cmds, sampling, task, out, ingest, log, stage, asked, result>>

-----------------------------------------------------------------------------
(* accept_task: which faults the end of a task stands for.  A consumer     *)
(* whose channel closed because of a storage pause has done its job.       *)
TaskExitedUnlessClosing(r) == IF Closing THEN <<>> ELSE <<"task_exited">>
TaskFaultsStrict(r) ==
    CASE task[r] = "panic" -> <<"task_failed">>
      [] task[r] = "err"   -> out[r]
      [] OTHER             -> TaskExitedUnlessClosing(r)
TaskFaults(r) ==
    CASE task[r] = "panic" -> <<"task_failed">>
      [] task[r] = "err"   -> out[r]
      [] task[r] = "ok" /\ r \in {Sample(n) : n \in Nodes} /\ current \in StorageErrors -> <<>>
      [] OTHER             -> TaskExitedUnlessClosing(r)
AcceptTask(r) ==
    /\ task[r] \in Ended
    /\ task' = [task EXCEPT ![r] = "joined"]
    /\ PublishAll(TaskFaults(r))
    /\ log' = (log \/ TaskFaults(r) # <<>>)
    /\ UNCHANGED <<held, cmds, sampling, out, ingest, stage, asked, database, result, culprit>>

(* next_fault.                                                             *)
Idle == stage = "run" /\ held = "none"

(* A fatal fault is returned at once and the application shuts down.       *)
ReturnFatal ==
    /\ Idle /\ unread /\ current \in FatalFaults
    /\ unread' = FALSE
    /\ stage' = "fetch"
    /\ UNCHANGED <<current, held, cmds, sampling, task, out, ingest, log, asked, database, result,
                   culprit>>

(* A storage fault is returned when every node has stopped sampling, and   *)
(* the application carries on.  The watch cell is marked as read then.     *)
PauseCommands(e) == {<<n, e>> : n \in {m \in Nodes : NodeRuns(m)}}
BeginPauseMarkingRead ==
    /\ Idle /\ unread /\ current \in StorageErrors
    /\ held' = current
    /\ unread' = FALSE
    /\ cmds' = cmds \cup PauseCommands(current)
    /\ UNCHANGED <<current, sampling, task, out, ingest, log, stage, asked, database, result,
                   culprit>>
BeginPause ==
    /\ Idle /\ unread /\ current \in StorageErrors
    /\ held' = current
    /\ cmds' = cmds \cup PauseCommands(current)
    /\ UNCHANGED <<watch, sampling, task, out, ingest, log, stage, asked, database, result, culprit>>
EndPause ==
    /\ stage = "run" /\ held # "none"
    /\ \A n \in Nodes : <<n, held>> \notin cmds
    /\ unread' = FALSE
    /\ held' = "none"
    /\ UNCHANGED <<current, cmds, sampling, task, out, ingest, log, stage, asked, database, result,
                   culprit>>

(* Another branch of the application's select wins: the future is dropped, *)
(* the commands it sent are not.                                           *)
DropNextFault ==
    /\ stage = "run" /\ held # "none"
    /\ held' = "none"
    /\ UNCHANGED <<watch, cmds, sampling, task, out, ingest, log, stage, asked, database, result,
                   culprit>>

SeeDatabaseGone ==
    /\ Idle /\ ~unread /\ database = "gone"
    /\ Publish("database_exited")
    /\ UNCHANGED <<held, cmds, sampling, task, out, ingest, log, stage, asked, database, result,
                   culprit>>
AcceptRunning(r) == Idle /\ ~unread /\ AcceptTask(r)

-----------------------------------------------------------------------------
(* shutdown.                                                               *)

(* A signal, or a bootstrap task that ended.                               *)
Signal ==
    /\ stage = "run"
    /\ stage' = "fetch" /\ held' = "none"
    /\ UNCHANGED <<watch, cmds, sampling, task, out, ingest, log, asked, database, result, culprit>>

AcceptClosing(r) ==
    /\ stage = "tasks" \/ (stage = "fetch" /\ task[Fetch] # "joined")
    /\ AcceptTask(r)
CollectorReaped ==
    /\ stage = "fetch" /\ task[Fetch] = "joined"
    /\ stage' = "sampling"
    /\ UNCHANGED <<watch, held, cmds, sampling, task, out, ingest, log, asked, database, result,
                   culprit>>
StopSamplers ==
    /\ stage = "sampling"
    /\ stage' = "nodes"
    /\ sampling' = [n \in Nodes |-> FALSE]
    /\ log' \in {log, TRUE}
    /\ UNCHANGED <<watch, held, cmds, task, out, ingest, asked, database, result, culprit>>
ShutNodesLater ==
    /\ stage = "nodes"
    /\ stage' = "tasks"
    /\ UNCHANGED <<watch, held, cmds, sampling, task, out, ingest, log, asked, database, result,
                   culprit>>
ShutNodes ==
    /\ stage = "nodes"
    /\ stage' = "tasks" /\ asked' = TRUE
    /\ log' \in {log, TRUE}
    /\ UNCHANGED <<watch, held, cmds, sampling, task, out, ingest, database, result, culprit>>
TasksReaped ==
    /\ stage = "tasks" /\ \A r \in Roles : task[r] = "joined"
    /\ stage' = "save"
    /\ UNCHANGED <<watch, held, cmds, sampling, task, out, ingest, log, asked, database, result,
                   culprit>>

(* Contacts are saved and what a consumer had left is tried once more; a   *)
(* node whose retry fails, like any other failure here, goes to the log.   *)
SaveNodes ==
    /\ stage = "save"
    /\ \E S \in SUBSET {n \in Nodes : ingest[n] = "left"} :
          /\ S # {} => database = "open"
          /\ ingest' = [n \in Nodes |-> IF n \in S THEN "saved" ELSE ingest[n]]
    /\ log' \in {log \/ \E n \in Nodes : ingest'[n] = "left", TRUE}
    /\ stage' = "close"
    /\ UNCHANGED <<watch, held, cmds, sampling, task, out, asked, database, result, culprit>>

(* The last published fault joins the log, the database thread is closed   *)
(* and the log decides the result.                                         *)
ClosedOkForgettingCurrent == ~log /\ database = "open"
ClosedOk == ~log /\ current = "none" /\ database = "open"
CloseDatabase ==
    /\ stage = "close"
    /\ stage' = "done"
    /\ database' \in (IF database = "open" THEN {"closed", "gone"} ELSE {"gone"})
    /\ result' = IF ClosedOk /\ database' = "closed" THEN "ok" ELSE "failed"
    /\ UNCHANGED <<watch, held, cmds, sampling, task, out, ingest, log, asked, culprit>>

Deadline ==
    /\ Closing /\ stage # "done"
    /\ stage' = "done" /\ result' = "failed"
    /\ UNCHANGED <<watch, held, cmds, sampling, task, out, ingest, log, asked, database, culprit>>

-----------------------------------------------------------------------------
Keepers == {Catalog} \cup {Snapshot(n) : n \in Nodes}
TaskStep ==
    \/ \E f \in StorageErrors \cup {"collector_failed"} : CollectorError(f)
    \/ FetchEnds
    \/ \E r \in Keepers : KeeperStops(r) \/ \E e \in StorageErrors : KeeperFails(r, e)
    \/ \E n \in Nodes : SampleEnds(n) \/ DispatcherEnds(n)
    \/ \E n \in Nodes, e \in StorageErrors :
          SampleFails(n, e) \/ NodeStorageFault(n, e) \/ RunPause(n, e)
    \/ \E r \in Roles : TaskPanics(r)
    \/ DatabaseDies
SupervisorStep ==
    \/ ReturnFatal \/ BeginPause \/ EndPause \/ DropNextFault \/ SeeDatabaseGone
    \/ \E r \in Roles : AcceptRunning(r)
ShutdownStep ==
    \/ \E r \in Roles : AcceptClosing(r)
    \/ CollectorReaped \/ StopSamplers \/ ShutNodes \/ TasksReaped
    \/ SaveNodes \/ CloseDatabase
SessionNext ==
    \/ stage # "done" /\ TaskStep
    \/ SupervisorStep
    \/ Signal
    \/ ShutdownStep
    \/ Deadline

SessionSpec == SessionInit /\ [][SessionNext]_sessionVars

(* A node runs its commands, a task that was told to stop stops, and the   *)
(* supervisor is polled.  The deadline is not relied upon.                 *)
SessionFairSpec ==
    /\ SessionSpec
    /\ WF_sessionVars(FetchEnds)
    /\ \A r \in Keepers : WF_sessionVars(KeeperStops(r))
    /\ \A n \in Nodes :
          /\ WF_sessionVars(SampleEnds(n))
          /\ WF_sessionVars(asked /\ DispatcherEnds(n))
          /\ \A e \in StorageErrors : WF_sessionVars(RunPause(n, e))
    /\ WF_sessionVars(ReturnFatal) /\ WF_sessionVars(EndPause)
    /\ WF_sessionVars(BeginPause) /\ WF_sessionVars(SeeDatabaseGone)
    /\ \A r \in Roles : WF_sessionVars(AcceptRunning(r))
    /\ WF_sessionVars(ShutdownStep)

-----------------------------------------------------------------------------
(* Properties.                                                             *)

(* When a storage fault counts as read, no node samples any more, also     *)
(* when the first attempt to pause the nodes was dropped half way or       *)
(* another storage error arrived in the middle of it.                      *)
ReadMeansPaused ==
    stage = "run" /\ ~unread /\ current \in StorageErrors
        => \A n \in Nodes : ~sampling[n]

(* Storage errors alone, of whatever tasks and in whatever order, and the  *)
(* ends of tasks that follow from them, never become a fatal fault.        *)
StorageFaultIsSurvivable == current \in FatalFaults => culprit

(* Storage errors alone never become a fatal fault, and once one counts as *)
(* read no node samples any more.                                          *)
FaultsAreContained == StorageFaultIsSurvivable /\ ReadMeansPaused

(* A shutdown that reports success left nothing behind: every task was     *)
(* reaped, every sampled batch is saved, the database thread confirmed its *)
(* end, and no fault was ever published.                                   *)
OkIsComplete ==
    result = "ok" =>
        /\ \A r \in Roles : task[r] = "joined"
        /\ \A n \in Nodes : ingest[n] = "saved"
        /\ database = "closed" /\ current = "none"

(* The stages complete without the deadline: nobody waits for a task that  *)
(* was not told to stop, in the order in which they are told.              *)
ShutdownEnds == Closing ~> stage = "done"

(* A fatal fault ends the session ("the exit of a critical task ends the   *)
(* whole session", faults.rs), however it falls among storage faults.      *)
FatalEndsSession == current \in FatalFaults ~> Closing

=============================================================================
