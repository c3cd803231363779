---------------------------- MODULE StorageQueue ----------------------------
(***************************************************************************)
(* The SQLite thread and its command queue (storage/mod.rs).  Callers take *)
(* byte permits, then a place in the bounded queue, then wait for a reply; *)
(* any of these waits may be dropped.  The permits travel with the command *)
(* and come back when the thread has run it or thrown it away.  The owner  *)
(* closes the queue with a Shutdown command and waits for the thread to    *)
(* close the connection and release the directory lock.                    *)
(*                                                                         *)
(* A caller makes one call.  Tokio's semaphore and channel serve their     *)
(* waiters in order of arrival.                                            *)
(***************************************************************************)
EXTENDS Integers, Sequences, FiniteSetsExt, SequencesExt

CONSTANTS
    Callers,
    Bytes,              \* Bytes[c]: the payload that caller c asks for
    ByteCapacity,       \* byte_capacity
    CommandCapacity     \* command_capacity

ASSUME CallerAssumption == IsFiniteSet(Callers) /\ "owner" \notin Callers
                           /\ Bytes \in [Callers -> Nat]
ASSUME CapacityAssumption == ByteCapacity \in Nat \ {0} /\ CommandCapacity \in Nat \ {0}

VARIABLES
    caller,     \* what each caller awaits, or how its call ended
    permits,    \* free permits of the byte semaphore
    budget,     \* callers waiting for permits, in order
    senders,    \* callers (and the owner) waiting for a place in the queue
    queue,      \* the commands in the queue, named by who sent them
    thread,     \* what the thread does
    lock,       \* the thread holds the directory lock
    owner,      \* what the owner awaits, or how shutdown ended; "never": no open
    executed,   \* the commands that ran, in order
    ahead       \* the commands that were queued before the owner's

vars == <<caller, permits, budget, senders, queue, thread, lock, owner, executed,
          ahead>>

Waiting == {"budget", "send", "reply"}
Ended == {"idle", "ok", "closed", "capacity", "dropped"}

Size(c) == IF c \in Callers THEN Bytes[c] ELSE 0
SizeOf(S) == MapThenSumSet(Size, S)
ReceiverOpen == thread = "serving"
opened == owner \notin {"opening", "never"}

Init ==
    /\ caller = [c \in Callers |-> "idle"]
    /\ permits = ByteCapacity
    /\ budget = <<>>
    /\ senders = <<>>
    /\ queue = <<>>
    /\ thread = "opening"
    /\ lock = FALSE
    /\ owner = "opening"
    /\ executed = <<>>
    /\ ahead = {}

-----------------------------------------------------------------------------
(* open: the thread takes the lock and migrates, then reports; if nobody   *)
(* listens any more it must not stay behind with the lock.                 *)
OpenDatabase ==
    /\ thread = "opening"
    /\ \/ thread' = "ready" /\ lock' = TRUE /\ UNCHANGED owner
       \/ /\ thread' = "gone" /\ UNCHANGED lock
          /\ owner' = "never"
    /\ UNCHANGED <<caller, permits, budget, senders, queue, executed, ahead>>

Ready ==
    /\ thread = "ready"
    /\ IF owner = "opening"
       THEN thread' = "serving" /\ owner' = "open" /\ UNCHANGED lock
       ELSE thread' = "gone" /\ lock' = FALSE /\ UNCHANGED owner
    /\ UNCHANGED <<caller, permits, budget, senders, queue, executed, ahead>>

-----------------------------------------------------------------------------
(* Callers.                                                                *)

(* budget: an oversized payload is refused at once.                        *)
Begin(c) ==
    /\ caller[c] = "idle" /\ opened
    /\ IF Bytes[c] > ByteCapacity
       THEN caller' = [caller EXCEPT ![c] = "capacity"] /\ UNCHANGED budget
       ELSE caller' = [caller EXCEPT ![c] = "budget"] /\ budget' = Append(budget, c)
    /\ UNCHANGED <<permits, senders, queue, thread, lock, owner, executed, ahead>>

(* The first waiter gets its permits as soon as there are enough.          *)
Acquire ==
    /\ budget # <<>>
    /\ LET c == Head(budget)
       IN  /\ permits >= Bytes[c]
           /\ permits' = permits - Bytes[c]
           /\ caller' = [caller EXCEPT ![c] = "send"]
           /\ senders' = Append(senders, c)
    /\ budget' = Tail(budget)
    /\ UNCHANGED <<queue, thread, lock, owner, executed, ahead>>

(* A place in the queue goes to the first sender.                          *)
Enqueue ==
    /\ ReceiverOpen /\ senders # <<>> /\ Len(queue) < CommandCapacity
    /\ LET c == Head(senders)
       IN  /\ queue' = Append(queue, c)
           /\ IF c = "owner"
              THEN owner' = "queued" /\ ahead' = ToSet(queue) /\ UNCHANGED caller
              ELSE /\ caller' = [caller EXCEPT ![c] = "reply"]
                   /\ UNCHANGED <<owner, ahead>>
    /\ senders' = Tail(senders)
    /\ UNCHANGED <<permits, budget, thread, lock, executed>>

(* send on a channel whose receiver is gone: the command is dropped with   *)
(* its permits and the call returns Closed.                                *)
SendFails ==
    /\ ~ReceiverOpen /\ senders # <<>>
    /\ LET c == Head(senders)
       IN  /\ permits' = permits + Size(c)
           /\ IF c = "owner"
              THEN owner' = "closed" /\ UNCHANGED caller
              ELSE caller' = [caller EXCEPT ![c] = "closed"] /\ UNCHANGED owner
    /\ senders' = Tail(senders)
    /\ UNCHANGED <<budget, queue, thread, lock, executed, ahead>>

(* The caller's future is dropped: it leaves the line, but a command that  *)
(* is already queued stays there with its permits.                         *)
DropReturningPermits(c) ==
    /\ caller[c] \in Waiting
    /\ caller' = [caller EXCEPT ![c] = "dropped"]
    /\ budget' = RemoveFirst(budget, c)
    /\ senders' = RemoveFirst(senders, c)
    /\ permits' = IF caller[c] # "budget" THEN permits + Bytes[c] ELSE permits
    /\ UNCHANGED <<queue, thread, lock, owner, executed, ahead>>
Drop(c) ==
    /\ caller[c] \in Waiting
    /\ caller' = [caller EXCEPT ![c] = "dropped"]
    /\ budget' = RemoveFirst(budget, c)
    /\ senders' = RemoveFirst(senders, c)
    /\ permits' = IF caller[c] = "send" THEN permits + Bytes[c] ELSE permits
    /\ UNCHANGED <<queue, thread, lock, owner, executed, ahead>>

-----------------------------------------------------------------------------
(* The thread.                                                             *)

Execute ==
    /\ thread = "serving" /\ queue # <<>> /\ Head(queue) # "owner"
    /\ LET c == Head(queue)
       IN  /\ executed' = Append(executed, c)
           /\ permits' = permits + Bytes[c]
           /\ caller' = IF caller[c] = "reply" THEN [caller EXCEPT ![c] = "ok"] ELSE caller
    /\ queue' = Tail(queue)
    /\ UNCHANGED <<budget, senders, thread, lock, owner, ahead>>

(* Dropping the receiver throws away what is behind the barrier: permits   *)
(* return, and the callers see their reply channel close.                  *)
AbandonedAsOk ==
    [c \in Callers |-> IF caller[c] = "reply" THEN "ok" ELSE caller[c]]
AbandonedCallers ==
    [c \in Callers |-> IF caller[c] = "reply" THEN "closed" ELSE caller[c]]
DropReceiver(barrier) ==
    /\ permits' = permits + SizeOf({queue[i] : i \in (1 + barrier)..Len(queue)})
    /\ caller' = AbandonedCallers
    /\ queue' = <<>>

AbandonLeavingPermits ==
    /\ thread = "serving" /\ queue # <<>> /\ Head(queue) = "owner"
    /\ permits' = permits
    /\ caller' = AbandonedCallers
    /\ queue' = <<>>
    /\ thread' = "closing"
    /\ UNCHANGED <<budget, senders, lock, owner, executed, ahead>>

BarrierFirst ==
    /\ thread = "serving" /\ "owner" \in ToSet(queue)
    /\ permits' = permits + SizeOf(ToSet(queue) \ {"owner"})
    /\ caller' = AbandonedCallers
    /\ queue' = <<>>
    /\ thread' = "closing"
    /\ UNCHANGED <<budget, senders, lock, owner, executed, ahead>>

(* The Shutdown command ends the loop.                                     *)
ReachBarrier ==
    /\ thread = "serving" /\ queue # <<>> /\ Head(queue) = "owner"
    /\ DropReceiver(1)
    /\ thread' = "closing"
    /\ UNCHANGED <<budget, senders, lock, owner, executed, ahead>>

(* The connection is closed and the lock released before the owner hears   *)
(* whether SQLite closed without an error.                                 *)
Close ==
    /\ thread = "closing"
    /\ lock' = FALSE
    /\ thread' = "unlocked"
    /\ UNCHANGED <<caller, permits, budget, senders, queue, owner, executed, ahead>>
Confirm ==
    /\ thread = "unlocked"
    /\ thread' = "gone"
    /\ owner' \in IF owner = "queued" THEN {"ok", "closed"} ELSE {owner}
    /\ UNCHANGED <<caller, permits, budget, senders, queue, lock, executed, ahead>>

(* An operation panics, before or after its commit: the stack unwinds      *)
(* through the receiver, the connection and the lock, and nobody confirms  *)
(* the shutdown.                                                           *)
Panic ==
    /\ thread = "serving" /\ queue # <<>> /\ Head(queue) # "owner"
    /\ DropReceiver(0)
    /\ thread' = "gone"
    /\ lock' = FALSE
    /\ owner' = IF owner = "queued" THEN "closed" ELSE owner
    /\ executed' \in {executed, Append(executed, Head(queue))}
    /\ UNCHANGED <<budget, senders, ahead>>

-----------------------------------------------------------------------------
(* The owner: shutdown waits in the same line as the callers.  Giving up,  *)
(* at any point, does not withdraw a barrier that is queued.               *)
Shutdown ==
    /\ owner = "open"
    /\ owner' = "send"
    /\ senders' = Append(senders, "owner")
    /\ UNCHANGED <<caller, permits, budget, queue, thread, lock, executed, ahead>>

GiveUp ==
    /\ owner \in {"opening", "open", "send", "queued"}
    /\ owner' = IF owner = "opening" THEN "never" ELSE "dropped"
    /\ senders' = RemoveFirst(senders, "owner")
    /\ UNCHANGED <<caller, permits, budget, queue, thread, lock, executed, ahead>>

(* With every handle dropped the channel ends and so does the loop.        *)
SenderKeptByThread == thread = "serving" /\ FALSE /\ UNCHANGED vars
AllHandlesDropped ==
    /\ thread = "serving" /\ queue = <<>> /\ senders = <<>> /\ budget = <<>>
    /\ owner = "dropped" /\ \A c \in Callers : caller[c] \in Ended \ {"idle"}
    /\ thread' = "closing"
    /\ UNCHANGED <<caller, permits, budget, senders, queue, lock, owner, executed, ahead>>

Thread == OpenDatabase \/ Ready \/ Execute \/ ReachBarrier \/ Close \/ Confirm
Sending == Enqueue \/ SendFails

Next ==
    \/ \E c \in Callers : Begin(c) \/ Drop(c)
    \/ Acquire \/ Sending \/ Thread \/ Panic
    \/ Shutdown \/ GiveUp \/ AllHandlesDropped

Spec == Init /\ [][Next]_vars

(* The runtime polls what is ready and the thread keeps taking commands.   *)
FairSpec ==
    Spec /\ WF_vars(Acquire) /\ WF_vars(Sending) /\ WF_vars(Thread) /\ WF_vars(AllHandlesDropped)

-----------------------------------------------------------------------------
(* The permits are with the callers that wait for a place, with the queued *)
(* commands, or free: a dropped call returns none early and none is lost.  *)
PermitsConserved ==
    permits + SizeOf(ToSet(senders) \cup ToSet(queue)) = ByteCapacity

(* A call that was answered ran exactly once; one that was refused, or     *)
(* thrown away behind the barrier, did not run.  Closed leaves it open     *)
(* only for the command on which the thread died.                          *)
Runs(c) == Cardinality({i \in DOMAIN executed : executed[i] = c})
AnswersAreTruthful ==
    \A c \in Callers :
        /\ Runs(c) <= 1
        /\ caller[c] = "ok" => Runs(c) = 1
        /\ caller[c] \in {"capacity", "budget", "send"} => Runs(c) = 0
        /\ caller[c] = "closed" => Runs(c) = 0 \/ Last(executed) = c

(* When the owner is told that the store is closed, all that was queued    *)
(* before its command has run, also for callers that gave up, nothing is   *)
(* left that could still run, and the directory lock is free.              *)
ConfirmedIsComplete ==
    owner = "ok" => /\ ahead \subseteq ToSet(executed)
                    /\ queue = <<>> /\ ~ReceiverOpen
                    /\ ~lock

(* The three together.                                                     *)
StoreIsTruthful == PermitsConserved /\ AnswersAreTruthful /\ ConfirmedIsComplete

(* The inductive invariant behind the theorems of StorageQueueProofs: the  *)
(* types, where a caller stands in each state of its call, where the owner *)
(* stands and what is ahead of its barrier, and the thread's life.         *)
TypeOK ==
    /\ caller \in [Callers -> Waiting \cup Ended]
    /\ permits \in Nat
    /\ budget \in Seq(Callers) /\ executed \in Seq(Callers)
    /\ senders \in Seq(Callers \cup {"owner"}) /\ queue \in Seq(Callers \cup {"owner"})
    /\ thread \in {"opening", "ready", "serving", "closing", "unlocked", "gone"}
    /\ lock \in BOOLEAN
    /\ owner \in {"opening", "never", "open", "send", "queued", "ok", "closed", "dropped"}
    /\ ahead \subseteq Callers
NobodyStandsTwice ==
    IsInjective(budget) /\ IsInjective(senders) /\ IsInjective(queue) /\ IsInjective(executed)
CallersStandWhereTheyWait ==
    \A c \in Callers :
        /\ c \in ToSet(budget) <=> caller[c] = "budget"
        /\ c \in ToSet(senders) <=> caller[c] = "send"
        /\ caller[c] = "reply" => c \in ToSet(queue)
        /\ c \in ToSet(queue) => caller[c] \in {"reply", "dropped"} /\ c \notin ToSet(executed)
        /\ c \in ToSet(executed) => caller[c] \in {"ok", "closed", "dropped"}
        /\ caller[c] = "ok" => c \in ToSet(executed)
        /\ caller[c] = "closed" => /\ thread \in {"closing", "unlocked", "gone"}
                                   /\ c \in ToSet(executed) => Last(executed) = c
        /\ ~opened => caller[c] = "idle"
OwnerStandsBehind ==
    /\ "owner" \in ToSet(senders) <=> owner = "send"
    /\ "owner" \in ToSet(queue) => owner \in {"queued", "dropped"}
    /\ owner = "queued" => \/ "owner" \in ToSet(queue)
                           \/ thread \in {"closing", "unlocked"} /\ ahead \subseteq ToSet(executed)
    /\ \A i \in DOMAIN queue : owner = "queued" /\ queue[i] = "owner"
          => ahead \subseteq ToSet(executed) \cup {queue[j] : j \in 1..(i - 1)}
    /\ owner = "ok" => thread = "gone" /\ ahead \subseteq ToSet(executed)
ThreadLives ==
    /\ thread # "serving" => queue = <<>>
    /\ thread \in {"opening", "ready"} => ~opened
    /\ lock => thread \in {"ready", "serving", "closing"}
IndInv ==
    /\ TypeOK
    /\ NobodyStandsTwice
    /\ CallersStandWhereTheyWait
    /\ OwnerStandsBehind
    /\ ThreadLives
    /\ PermitsConserved

(* No call waits forever: it is answered, refused or closed, also when the *)
(* store shuts down around it.                                             *)
NobodyHangs == \A c \in Callers : caller[c] \in Waiting ~> caller[c] \in Ended

(* Once the owner and the callers are done, however they ended, or when    *)
(* open was given up, the thread goes and the state directory can be       *)
(* opened again.                                                           *)
Over == \/ owner = "never"
        \/ /\ owner \in {"ok", "closed", "dropped"}
           /\ \A c \in Callers : caller[c] \in Ended \ {"idle"}
LockIsReleased == Over ~> (thread = "gone" /\ ~lock)

(* The store lets go of its callers, and of the directory in the end.      *)
StoreLetsGo == NobodyHangs /\ LockIsReleased

=============================================================================
