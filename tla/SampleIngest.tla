---------------------------- MODULE SampleIngest ----------------------------
(***************************************************************************)
(* The consumer of one node's sample batches (collection/ingest): it saves *)
(* a batch in segments and moves its offset only on the database's word.   *)
(* A failed save returns the state, with the unfinished batch and the rest *)
(* of the channel, to the session, which runs it again while it closes.    *)
(*                                                                         *)
(* A save may fail without effect or commit and lose its answer; saving a  *)
(* segment twice is harmless (SaveHashes of FetchJobs).                    *)
(***************************************************************************)
EXTENDS Naturals, Sequences, FiniteSetsExt

CONSTANTS
    Batches,        \* the batches that the sampler may send
    BatchSize,      \* BatchSize[b]: how many hashes batch b has
    Segment,        \* hashes per transaction, 1024
    output_capacity \* of the channel

NoBatch == "none"
ASSUME IngestAssumption ==
    /\ BatchSize \in [Batches -> Nat] /\ Segment \in Nat \ {0} /\ NoBatch \notin Batches

VARIABLES
    sent,       \* batches that the sampler put into the channel
    open,       \* the sampler still holds its end of the channel
    channel,    \* batches in the channel
    current,    \* the batch at work, or NoBatch
    offset,     \* hashes of it whose save was confirmed
    saved,      \* <<b, i>> for every hash that is in the database
    dropped,    \* batches that the consumer is done with
    run         \* the consumer task, then the session's second run

ingestVars == <<sent, open, channel, current, offset, saved, dropped, run>>

Hashes(b) == {b} \X (1..BatchSize[b])

IngestInit ==
    /\ sent = {} /\ open = TRUE /\ channel = <<>>
    /\ current = NoBatch /\ offset = 0
    /\ saved = {} /\ dropped = {}
    /\ run = "running"

(* The sampler reserves a place before it asks a node for samples.         *)
Send(b) ==
    /\ open /\ b \notin sent /\ Len(channel) < output_capacity
    /\ sent' = sent \cup {b}
    /\ channel' = Append(channel, b)
    /\ UNCHANGED <<open, current, offset, saved, dropped, run>>
CloseChannel ==
    /\ open
    /\ open' = FALSE
    /\ UNCHANGED <<sent, channel, current, offset, saved, dropped, run>>

-----------------------------------------------------------------------------
Consuming == run \in {"running", "again"}

RecvKeepingOffset ==
    /\ Consuming /\ current = NoBatch /\ channel # <<>>
    /\ current' = Head(channel)
    /\ channel' = Tail(channel)
    /\ UNCHANGED <<sent, open, offset, saved, dropped, run>>
Recv ==
    /\ Consuming /\ current = NoBatch /\ channel # <<>>
    /\ current' = Head(channel)
    /\ channel' = Tail(channel)
    /\ offset' = 0
    /\ UNCHANGED <<sent, open, saved, dropped, run>>

(* The next segment, and where it ends.                                    *)
SegmentEndShort == Min({offset + Segment, BatchSize[current] - 1})
SegmentEnd == Min({offset + Segment, BatchSize[current]})
Unconfirmed == {current} \X ((offset + 1)..SegmentEnd)

SaveOk ==
    /\ Consuming /\ current # NoBatch /\ offset < BatchSize[current]
    /\ saved' = saved \cup Unconfirmed
    /\ offset' = SegmentEnd
    /\ UNCHANGED <<sent, open, channel, current, dropped, run>>

(* The database refuses the segment, or commits it and the answer is lost. *)
SaveFailsAdvancing ==
    /\ Consuming /\ current # NoBatch /\ offset < BatchSize[current]
    /\ saved' \in {saved, saved \cup Unconfirmed}
    /\ offset' = SegmentEnd
    /\ run' = IF run = "running" THEN "returned" ELSE "failed"
    /\ UNCHANGED <<sent, open, channel, current, dropped>>
SaveFails ==
    /\ Consuming /\ current # NoBatch /\ offset < BatchSize[current]
    /\ saved' \in {saved, saved \cup Unconfirmed}
    /\ run' = IF run = "running" THEN "returned" ELSE "failed"
    /\ UNCHANGED <<sent, open, channel, current, offset, dropped>>

BatchDone ==
    /\ Consuming /\ current # NoBatch /\ offset >= BatchSize[current]
    /\ dropped' = dropped \cup {current}
    /\ current' = NoBatch
    /\ UNCHANGED <<sent, open, channel, offset, saved, run>>

(* recv returns None: the channel is closed and empty.                     *)
RecvEnds ==
    /\ Consuming /\ current = NoBatch /\ channel = <<>> /\ ~open
    /\ run' = "ok"
    /\ UNCHANGED <<sent, open, channel, current, offset, saved, dropped>>

(* shutdown_inner runs the returned state once more when the nodes, and    *)
(* with them the samplers, are gone.                                       *)
RunAgain ==
    /\ run = "returned" /\ ~open
    /\ run' = "again"
    /\ UNCHANGED <<sent, open, channel, current, offset, saved, dropped>>

Consumer == Recv \/ SaveOk \/ BatchDone \/ RecvEnds \/ RunAgain
IngestNext == (\E b \in Batches : Send(b)) \/ CloseChannel \/ Consumer \/ SaveFails

IngestSpec == IngestInit /\ [][IngestNext]_ingestVars

(* The database answers every call, and the runtime polls the consumer.    *)
(* No save has to fail.                                                    *)
IngestFairSpec == IngestSpec /\ WF_ingestVars(Consumer)

-----------------------------------------------------------------------------
(* A batch that the consumer let go is in the database to the last hash,   *)
(* whichever of its saves failed, committed unheard, or was repeated.      *)
DroppedIsSaved == \A b \in dropped : Hashes(b) \subseteq saved

(* When the consumer reports success, at its first or at its second run,   *)
(* everything that the sampler ever sent is in the database.               *)
OkMeansAllSaved == run = "ok" => \A b \in sent : Hashes(b) \subseteq saved

(* What the consumer let go, or reported as done, is in the database.      *)
SamplesAreSaved == DroppedIsSaved /\ OkMeansAllSaved

(* The consumer ends once the sampler is gone: it neither waits for more   *)
(* nor goes round and round on one segment.                                *)
ConsumerEnds == ~open ~> run \in {"ok", "failed"}

=============================================================================
