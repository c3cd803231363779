---------------------------- MODULE PeerSession ----------------------------
(***************************************************************************)
(* One attempt to fetch the metadata of a hash from one peer               *)
(* (collection/peer/mod.rs, peer/session/mod.rs, peer/wire/mod.rs):        *)
(* connection, standard handshake, extension handshakes that may come in   *)
(* pieces and again, a window of piece requests, and the check of the      *)
(* whole.                                                                  *)
(*                                                                         *)
(* The peer sends any frame at any time, honest or not.  Sizes are counted *)
(* in blocks, contents are the block of the true metadata or another one.  *)
(* The clock stops at every deadline until its timeout has been taken, so  *)
(* no frame is read once a deadline has come, and an action takes no time  *)
(* except the ones that wait.                                              *)
(***************************************************************************)
EXTENDS Integers, FiniteSets

CONSTANTS
    TrueSize,             \* blocks of the metadata that the hash names
    max_metadata_size,    \* in blocks
    request_window,
    max_received_frames,
    connect_timeout, handshake_timeout, piece_timeout, peer_timeout

ASSUME PeerAssumption ==
    /\ TrueSize \in Nat /\ max_metadata_size \in Nat /\ request_window \in Nat
    /\ connect_timeout \in Nat /\ handshake_timeout \in Nat
    /\ piece_timeout \in Nat /\ peer_timeout \in Nat

Sizes == 0 .. max_metadata_size + 1
Pieces == 0 .. max_metadata_size
None == 0 - 1

VARIABLES
    peer_stage,       \* Stage, "ended" once there is a result
    peer_result,      \* "none", "success" or the PeerError
    now,
    handshake_deadline,
    remote_id,        \* the peer has named an identifier for ut_metadata
    metadata_size,
    deadlines,        \* requested pieces that have not come, by their deadline
    content,          \* the pieces that have come
    next,             \* the first piece that was not requested
    received,         \* how many different pieces have come
    frames,
    honest,           \* history: everything the peer said about the data is true
    progress          \* history: when the transfer began or last got a new piece

peerVars == <<peer_stage, peer_result, now, handshake_deadline, remote_id, metadata_size,
              deadlines, content, next, received, frames, honest, progress>>
transfer == <<deadlines, content, next, received, progress>>

PeerInit ==
    /\ peer_stage = "connect" /\ peer_result = "none" /\ now = 0 /\ handshake_deadline = None
    /\ remote_id = FALSE /\ metadata_size = None
    /\ deadlines = [p \in {} |-> 0] /\ content = [p \in {} |-> "true"]
    /\ next = 0 /\ received = 0 /\ frames = 0 /\ honest = TRUE /\ progress = 0

-----------------------------------------------------------------------------
Count == metadata_size        \* Pieces::complete.len()
Transferring == peer_stage = "transfer"
First(S) == CHOOSE t \in S : \A u \in S : t <= u

(* Pieces::deadline: the earliest deadline of a requested piece.  With     *)
(* none, the session is sending the first request since the transfer began *)
(* or since the last piece came, and has piece_timeout for that.           *)
RenewedByFrames ==
    IF frames > 0 THEN now + piece_timeout ELSE progress + piece_timeout
deadline ==
    IF DOMAIN deadlines = {} THEN progress + piece_timeout
    ELSE First({deadlines[p] : p \in DOMAIN deadlines})

(* The deadline of whatever the session waits for.                         *)
StageDeadline ==
    CASE peer_stage = "connect" -> connect_timeout
      [] Transferring -> deadline
      [] OTHER -> handshake_deadline

End(r) == peer_stage' = "ended" /\ peer_result' = r

-----------------------------------------------------------------------------
(* Time, timeouts and the network.                                         *)

ClockTicks ==
    /\ peer_stage # "ended" /\ now < peer_timeout /\ now < StageDeadline
    /\ now' = now + 1
    /\ UNCHANGED <<peer_stage, peer_result, handshake_deadline, remote_id, metadata_size,
                   transfer, frames, honest>>

StageTimeout ==
    /\ peer_stage # "ended" /\ now >= StageDeadline
    /\ End("timeout")
    /\ UNCHANGED <<now, handshake_deadline, remote_id, metadata_size, transfer, frames, honest>>

(* tokio::time::timeout around fetch_peer in fetch_one.                    *)
PeerTimeout ==
    /\ peer_stage # "ended" /\ now >= peer_timeout
    /\ End("peer_timeout")
    /\ UNCHANGED <<now, handshake_deadline, remote_id, metadata_size, transfer, frames, honest>>

(* The peer closes the connection or the network breaks.                   *)
Breaks ==
    /\ peer_stage # "ended" /\ End("io")
    /\ UNCHANGED <<now, handshake_deadline, remote_id, metadata_size, transfer, frames, honest>>

(* fetch_one is cancelled, or fetch_peer's future dropped by its caller.   *)
Cancel ==
    /\ peer_stage # "ended" /\ End("cancelled")
    /\ UNCHANGED <<now, handshake_deadline, remote_id, metadata_size, transfer, frames, honest>>

Waits == now < StageDeadline /\ now < peer_timeout

-----------------------------------------------------------------------------
(* Connection and standard handshake.                                      *)

Connected ==
    /\ peer_stage = "connect" /\ Waits
    /\ peer_stage' = "standard_handshake" /\ handshake_deadline' = now + handshake_timeout
    /\ UNCHANGED <<peer_result, now, remote_id, metadata_size, transfer, frames, honest>>

exchange_handshake(reply) ==
    /\ peer_stage = "standard_handshake" /\ Waits
    /\ CASE reply = "ok" -> peer_stage' = "extension_handshake" /\ UNCHANGED peer_result
         [] reply = "no_extensions" -> End("unsupported")
         [] reply = "other_hash" -> End("handshake_hash_mismatch")
         [] reply = "other_protocol" -> End("protocol")
    /\ UNCHANGED <<now, handshake_deadline, remote_id, metadata_size, transfer, frames, honest>>

-----------------------------------------------------------------------------
(* Frames.                                                                 *)

(* request_pieces: the next request goes out while the window has room.    *)
InWindow ==
    Transferring /\ next < Count /\ Cardinality(DOMAIN deadlines) < request_window
request_pieces ==
    /\ InWindow /\ now < peer_timeout
    /\ now < deadline
    /\ deadlines' = [p \in DOMAIN deadlines \cup {next} |->
                        IF p = next THEN now + piece_timeout ELSE deadlines[p]]
    /\ next' = next + 1
    /\ UNCHANGED <<peer_stage, peer_result, now, handshake_deadline, remote_id, metadata_size,
                   content, received, frames, honest, progress>>

(* receive_frame: the budget counts every frame.                           *)
Reads ==
    /\ peer_stage \in {"extension_handshake", "transfer"} /\ ~InWindow /\ Waits
    /\ frames' = frames + 1
OverBudget == frames + 1 > max_received_frames
receive_frame ==
    /\ Reads /\ OverBudget /\ End("limit")
    /\ UNCHANGED <<now, handshake_deadline, remote_id, metadata_size, transfer, honest>>

(* A keepalive, a message of another kind or of an unknown type, or a      *)
(* request of the peer, which is rejected.                                 *)
IgnoredFrame ==
    /\ Reads /\ ~OverBudget
    /\ UNCHANGED <<peer_stage, peer_result, now, handshake_deadline, remote_id, metadata_size,
                   transfer, honest>>

(* A frame that does not parse, or metadata before it was negotiated.      *)
BrokenFrame ==
    /\ Reads /\ ~OverBudget /\ End("protocol")
    /\ UNCHANGED <<now, handshake_deadline, remote_id, metadata_size, transfer, honest>>

(* apply_extension: an identifier (0 withdraws it), a size, both or none.  *)
apply_extension(id, size) ==
    LET known == remote_id \/ id = 1
        final == IF size # None THEN size ELSE metadata_size
        starts == ~Transferring /\ known /\ final # None
    IN /\ Reads /\ ~OverBudget
       /\ IF id = 0 THEN End("unsupported") /\ UNCHANGED <<remote_id, metadata_size>>
          ELSE /\ remote_id' = known
               /\ IF size # None /\ (size = 0 \/ size > max_metadata_size)
                  THEN End("limit") /\ UNCHANGED metadata_size
                  ELSE IF size # None /\ Transferring /\ size # metadata_size
                  THEN End("protocol") /\ UNCHANGED metadata_size
                  ELSE /\ metadata_size' = final /\ UNCHANGED peer_result
                       /\ peer_stage' = IF starts THEN "transfer" ELSE peer_stage
       /\ honest' = (honest /\ size \in {None, TrueSize})
       /\ progress' = IF starts THEN now ELSE progress
       /\ UNCHANGED <<now, handshake_deadline, deadlines, content, next, received>>

(* A rejected piece ends the session if it was asked for.                  *)
RejectFrame(p) ==
    /\ Transferring /\ Reads /\ ~OverBudget
    /\ IF p \in DOMAIN deadlines THEN End("rejected") ELSE UNCHANGED <<peer_stage, peer_result>>
    /\ UNCHANGED <<now, handshake_deadline, remote_id, metadata_size, transfer, honest>>

(* verify_metadata: the hash of the whole, then its shape, which the true  *)
(* metadata has.                                                           *)
verify_metadata(c) ==
    IF metadata_size = TrueSize /\ \A p \in 0 .. Count - 1 : p \in DOMAIN c /\ c[p] = "true"
    THEN "success" ELSE "hash_mismatch"

(* Pieces::data for a frame with piece p of content d, in the announced    *)
(* size or not.  The first copy of a requested piece counts, a second one  *)
(* must agree, and the last one leads to the verdict.                      *)
CountCopies(p) == received + 1
Received(p) == IF p \in DOMAIN content THEN received ELSE received + 1
data(p, sized, d) ==
    LET known == p \in DOMAIN content
        refused == \/ ~sized \/ p >= Count
                   \/ known /\ content[p] # d
                   \/ ~known /\ p \notin DOMAIN deadlines
        after == [q \in DOMAIN content \cup {p} |-> IF q = p THEN d ELSE content[q]]
    IN /\ Transferring /\ Reads /\ ~OverBudget
       /\ honest' = (honest /\ sized /\ d = "true")
       /\ IF refused
          THEN End("protocol") /\ UNCHANGED transfer
          ELSE /\ content' = after /\ received' = Received(p)
               /\ deadlines' = [q \in DOMAIN deadlines \ {p} |-> deadlines[q]]
               /\ progress' = IF known THEN progress ELSE now
               /\ next' = next
               /\ IF Received(p) = Count
                  THEN End(verify_metadata(after)) ELSE UNCHANGED <<peer_stage, peer_result>>
       /\ UNCHANGED <<now, handshake_deadline, remote_id, metadata_size>>

-----------------------------------------------------------------------------
Frame ==
    \/ receive_frame \/ IgnoredFrame \/ BrokenFrame
    \/ \E id \in {None, 0, 1}, size \in Sizes \cup {None} : apply_extension(id, size)
    \/ \E p \in Pieces : RejectFrame(p)
    \/ \E p \in Pieces, sized \in BOOLEAN, d \in {"true", "false"} : data(p, sized, d)

SessionEnded == peer_stage = "ended" /\ UNCHANGED peerVars

PeerNext ==
    \/ ClockTicks \/ StageTimeout \/ PeerTimeout \/ Breaks \/ Cancel
    \/ Connected
    \/ \E r \in {"ok", "no_extensions", "other_hash", "other_protocol"} : exchange_handshake(r)
    \/ request_pieces \/ Frame \/ SessionEnded

PeerSpec == PeerInit /\ [][PeerNext]_peerVars

-----------------------------------------------------------------------------
(* Properties.                                                             *)

(* The verdict is deserved: a peer that told the truth about size and      *)
(* pieces is never blamed for a wrong hash, and metadata is accepted only  *)
(* when every block of it came in this session.                            *)
VerdictIsDeserved ==
    /\ peer_result = "hash_mismatch" => ~honest
    /\ peer_result = "success" =>
         DOMAIN content = 0 .. TrueSize - 1 /\ \A p \in DOMAIN content : content[p] = "true"

(* A transfer never goes on for longer than twice piece_timeout without a  *)
(* new piece, once for sending a request and once for its answer, whatever *)
(* else the peer sends: keepalives, repeated pieces and further handshakes *)
(* do not renew a deadline.                                                *)
SilenceIsBounded == Transferring => now <= progress + 2 * piece_timeout

(* An honest peer is never blamed for a wrong hash, only whole metadata is *)
(* accepted, and a transfer never stalls for longer than two piece         *)
(* timeouts.                                                               *)
PeersAreJudgedFairly == VerdictIsDeserved /\ SilenceIsBounded
=============================================================================
