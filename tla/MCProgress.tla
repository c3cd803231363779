----------------------------- MODULE MCProgress -----------------------------
(***************************************************************************)
(* Components whose progress is checked, each on its own as in MCTables:   *)
(* the storage thread with its queue, the pause of the samplers, the       *)
(* consumer of samples, the lookup that maintains the routing table, and   *)
(* the application with its bootstrap.                                     *)
(* The fairness of each is that of its module, for the part that moves.    *)
(***************************************************************************)
EXTENDS StorageQueue, SampleIngest, Backpressure, Maintenance, Bootstrap

VARIABLE part

(* Three callers that compete for four bytes and two places in the queue,  *)
(* and one whose payload never fits.                                       *)
MCBytes == [c \in Callers |-> CASE c = "a" -> 3 [] c = "b" -> 2 [] c = "z" -> 0 [] OTHER -> 5]

(* Sizes around the segment boundary: none, one less, exactly one segment, *)
(* and two segments and a bit.                                             *)
MCBatchSize == [empty |-> 0, short |-> 1, full |-> 2, long |-> 5]

(* The table knows where each node is; others claim the nearest of them at *)
(* the address of the next.  Of the four nodes three are remembered, so    *)
(* that an answer may name one too many.                                   *)
MCClaims ==
    {[c \in Candidates |-> [address |-> c, verified |-> TRUE]],
     [c \in Candidates |-> [address |-> IF c = 1 THEN 2 ELSE c, verified |-> FALSE]]}

(* Two names that share an address and have more of them than are taken.   *)
MCResolves == <<<<"a", "x", "a", "b">>, <<"b", "c", "d">>>>

allVars == <<part, vars, pressureVars, ingestVars, maintenanceVars, bootVars>>

Only(p) ==
    /\ part = p /\ UNCHANGED part
    /\ p # "queue" => UNCHANGED vars
    /\ p # "backpressure" => UNCHANGED pressureVars
    /\ p # "ingest" => UNCHANGED ingestVars
    /\ p # "maintenance" => UNCHANGED maintenanceVars
    /\ p # "bootstrap" => UNCHANGED bootVars

ProgressInit ==
    /\ part \in {"queue", "backpressure", "ingest", "maintenance", "bootstrap"}
    /\ Init /\ PressureInit /\ IngestInit /\ LookupInit /\ BootInit
ProgressNext ==
    \/ Only("queue") /\ Next
    \/ Only("backpressure") /\ PressureNext
    \/ Only("ingest") /\ IngestNext
    \/ Only("maintenance") /\ LookupNext
    \/ Only("bootstrap") /\ BootNext

Queue == part = "queue"
Pausing == part = "backpressure"
Ingest == part = "ingest"
Lookup == part = "maintenance"
Application == part = "bootstrap"
ProgressSpec ==
    /\ ProgressInit /\ [][ProgressNext]_allVars
    /\ WF_vars(Queue /\ Acquire) /\ WF_vars(Queue /\ Sending)
    /\ WF_vars(Queue /\ Thread) /\ WF_vars(Queue /\ AllHandlesDropped)
    /\ WF_pressureVars(Pausing /\ Elapse) /\ WF_pressureVars(Pausing /\ Tick)
    /\ WF_ingestVars(Ingest /\ Consumer)
    /\ WF_maintenanceVars(Lookup /\ Advance) /\ WF_maintenanceVars(Lookup /\ OtherEvent)
    /\ SF_maintenanceVars(Lookup /\ TakeAll) /\ SF_maintenanceVars(Lookup /\ Timeout)
    /\ WF_bootVars(Application /\ Step("v4")) /\ WF_bootVars(Application /\ TaskJoined)
    /\ WF_bootVars(Application /\ Lifecycle)
=============================================================================
