------------------------------ MODULE Monitor ------------------------------
(***************************************************************************)
(* The observer's bounded history of events and the monitor that serves    *)
(* it: producers append events, a stream follows the history by the number *)
(* of the last event it sent, a client comes back with the last number it  *)
(* received, and the session closes it all (src/observation/,              *)
(* src/monitor/, and MonitorEngine of the web interface).                  *)
(*                                                                         *)
(* What an event says is its number.  A stream that waits wakes for the    *)
(* next snapshot as well, at most a second later, so the wake-up by a new  *)
(* event is part of that.  Requests other than the stream and the snapshot *)
(* a client begins with change nothing, and are left out with the rate     *)
(* limit; so are the engine's generations, which drop what comes too late. *)
(***************************************************************************)
EXTENDS Integers, Sequences, FiniteSets, FiniteSetsExt

CONSTANTS
    Clients, Producers,
    CountLimit, ByteLimit,      \* of the history
    Size,                       \* of each event, in bytes
    PageLimit,                  \* events in a page
    MaxActive,                  \* spans shown as under way
    MaxStreams, MaxConnections,
    MaxSequence                 \* bound of the model

ASSUME PageAssumption == PageLimit \in Nat \ {0}

VARIABLES
    events, sequence,           \* the history: [n, old] by age, and the last number
    active, producer,           \* the spans shown, and where each producer is
    link, sse, run, after, wire,    \* each connection, its stream, what is under way
    cursor, from, got,          \* each client: its position, where it began, what it has
    stop, finish, serve, refresh, owner     \* the tokens, the tasks, who closes them

history == <<events, sequence>>
streams == <<sse, run, after>>
clients == <<cursor, from, got>>
tasks == <<stop, finish, serve, refresh, owner>>
monitorVars == <<history, active, producer, link, streams, wire, clients, tasks>>

NoCursor == [run |-> "none", n |-> 0]
Nothing == [kind |-> "nothing", set |-> {}]
Streaming == {c \in Clients : sse[c] # "none"}
Connected == {c \in Clients : link[c] = "open"}

(* A client may come with the cursor of an earlier process.                *)
MonitorInit ==
    /\ events = <<>> /\ sequence = 0 /\ active = {} /\ producer = [p \in Producers |-> "idle"]
    /\ link = [c \in Clients |-> "closed"] /\ sse = [c \in Clients |-> "none"]
    /\ run = [c \in Clients |-> "none"] /\ after = [c \in Clients |-> 0]
    /\ wire = [c \in Clients |-> Nothing]
    /\ cursor \in [Clients -> {NoCursor, [run |-> "old", n |-> 1]}]
    /\ from = [c \in Clients |-> 0] /\ got = [c \in Clients |-> {}]
    /\ stop = FALSE /\ finish = FALSE /\ serve = "runs" /\ refresh = "runs" /\ owner = "up"

-----------------------------------------------------------------------------
(* The history and the spans.                                              *)

(* evict: the oldest go until the limits of count, bytes and age hold.     *)
Within(es) ==
    es = <<>> \/ /\ Len(es) <= CountLimit /\ ~Head(es).old
                 /\ MapThenSumSet(LAMBDA i : Size[es[i].n], DOMAIN es) <= ByteLimit
evict(es) ==
    LET rest(k) == SubSeq(es, k + 1, Len(es))
    IN rest(Min({k \in 0 .. Len(es) : Within(rest(k))}))
oldest == IF evict(events) = <<>> THEN sequence + 1 ELSE evict(events)[1].n

emit(p, from_pc, to_pc) ==
    /\ producer[p] = from_pc /\ producer' = [producer EXCEPT ![p] = to_pc]
    /\ sequence < MaxSequence /\ sequence' = sequence + 1
    /\ events' = evict(Append(evict(events), [n |-> sequence + 1, old |-> FALSE]))
    /\ UNCHANGED <<active, link, streams, wire, clients, tasks>>

(* A span is shown from its first event on, if there is room, until its    *)
(* end, which dropping it brings about as well.                            *)
show(p) ==
    /\ producer[p] = "emitted" /\ producer' = [producer EXCEPT ![p] = "open"]
    /\ active' = IF Cardinality(active) < MaxActive \/ p \in active
                 THEN active \cup {p} ELSE active
    /\ UNCHANGED <<history, link, streams, wire, clients, tasks>>
finish_active(p) ==
    /\ producer[p] = "told" /\ producer' = [producer EXCEPT ![p] = "idle"]
    /\ active' = active \ {p}
    /\ UNCHANGED <<history, link, streams, wire, clients, tasks>>
Span(p) ==
    \/ emit(p, "idle", "emitted") \/ show(p) \/ emit(p, "open", "told") \/ finish_active(p)

(* Fifteen minutes pass.                                                   *)
Elapse ==
    /\ events # <<>> /\ ~events[Len(events)].old
    /\ events' = [i \in DOMAIN events |-> [events[i] EXCEPT !.old = TRUE]]
    /\ UNCHANGED <<sequence, active, producer, link, streams, wire, clients, tasks>>

-----------------------------------------------------------------------------
(* Connections and streams.                                                *)

Accept(c) ==
    /\ serve = "runs" /\ ~stop /\ link[c] = "closed" /\ Cardinality(Connected) < MaxConnections
    /\ link' = [link EXCEPT ![c] = "open"]
    /\ UNCHANGED <<history, active, producer, streams, wire, clients, tasks>>
(* The connection ends and its stream, with the permit, is dropped: by     *)
(* the client at any time, and by the server when it finishes.             *)
CloseAll(S) ==
    /\ link' = [c \in Clients |-> IF c \in S THEN "closed" ELSE link[c]]
    /\ sse' = [c \in Clients |-> IF c \in S THEN "none" ELSE sse[c]]
    /\ wire' = [c \in Clients |-> IF c \in S THEN Nothing ELSE wire[c]]
    /\ UNCHANGED <<history, active, producer, run, after, clients>>
Disconnect(c) == link[c] = "open" /\ CloseAll({c}) /\ UNCHANGED tasks

(* A client without a position reads the snapshot and takes its latest.    *)
sync(c) ==
    /\ sse[c] = "none" /\ wire[c] = Nothing /\ cursor[c] = NoCursor
    /\ serve = "runs" /\ ~stop /\ events' = evict(events)
    /\ cursor' = [cursor EXCEPT ![c] = [run |-> "this", n |-> sequence]]
    /\ from' = [from EXCEPT ![c] = sequence]
    /\ UNCHANGED <<sequence, active, producer, link, streams, wire, got, tasks>>

(* The request: a permit, and the position to go on from.                  *)
stream(c) ==
    /\ link[c] = "open" /\ sse[c] = "none" /\ wire[c] = Nothing
    /\ ~stop /\ Cardinality(Streaming) < MaxStreams
    /\ events' = evict(events) /\ sse' = [sse EXCEPT ![c] = "top"]
    /\ IF cursor[c] = NoCursor
       THEN /\ run' = [run EXCEPT ![c] = "this"] /\ after' = [after EXCEPT ![c] = sequence]
            /\ from' = [from EXCEPT ![c] = sequence]
       ELSE /\ run' = [run EXCEPT ![c] = cursor[c].run]
            /\ after' = [after EXCEPT ![c] = cursor[c].n] /\ UNCHANGED from
    /\ UNCHANGED <<sequence, active, producer, link, wire, cursor, got, tasks>>
Polled(c, pc) == sse[c] = pc /\ wire[c] = Nothing /\ events' = evict(events)
Send(c, kind, set, pc) ==
    /\ wire' = [wire EXCEPT ![c] = [kind |-> kind, set |-> set]]
    /\ sse' = [sse EXCEPT ![c] = pc]
UnchangedRest == UNCHANGED <<sequence, active, producer, link, run, clients, tasks>>

(* The top of the loop, on the window as it is now: a position outside it  *)
(* ends in a reset; then a snapshot, if one is due; then the events.       *)
OutOfWindow(c) == run[c] # "this" \/ after[c] + 1 < oldest \/ after[c] > sequence
Reset(c) ==
    /\ Polled(c, "top") /\ OutOfWindow(c) /\ Send(c, "reset", {}, "done")
    /\ UNCHANGED after /\ UnchangedRest
Snapshot(c) ==
    /\ Polled(c, "top") /\ ~OutOfWindow(c) /\ ~finish
    /\ Send(c, "snapshot", {}, "top") \/ Send(c, "reset", {}, "done")
    /\ UNCHANGED after /\ UnchangedRest
Look(c) ==
    /\ Polled(c, "top") /\ ~OutOfWindow(c)
    /\ sse' = [sse EXCEPT ![c] = IF after[c] < sequence THEN "page"
                                 ELSE IF finish THEN "none" ELSE "wait"]
    /\ UNCHANGED <<after, wire>> /\ UnchangedRest

(* page: events may have gone since the look at the window.                *)
Page(c) == {e.n : e \in {evict(events)[i] : i \in DOMAIN evict(events)}} \cap
           (after[c] + 1 .. sequence)
Shown(c) == {n \in Page(c) : Cardinality({m \in Page(c) : m <= n}) <= PageLimit}
SendShown(c) ==
    /\ Send(c, "events", Shown(c), "top")
    /\ after' = [after EXCEPT ![c] = Max(Shown(c) \cup {after[c]})]
PageUnchecked(c) ==
    /\ Polled(c, "page") /\ SendShown(c) /\ UnchangedRest
page(c) ==
    /\ Polled(c, "page")
    /\ IF after[c] + 1 < oldest
       THEN Send(c, "reset", {}, "done") /\ UNCHANGED after ELSE SendShown(c)
    /\ UnchangedRest

(* The wait ends with the finish, an event, or the next snapshot.          *)
Wait(c) ==
    /\ sse[c] = "wait" /\ sse' = [sse EXCEPT ![c] = "top"]
    /\ UNCHANGED <<events, after, wire>> /\ UnchangedRest
Done(c) ==
    /\ sse[c] = "done" /\ wire[c] = Nothing /\ sse' = [sse EXCEPT ![c] = "none"]
    /\ UNCHANGED <<events, after, wire>> /\ UnchangedRest

(* The client moves its cursor with the events and gives it up on a reset. *)
Receive(c) ==
    /\ wire[c] # Nothing /\ wire' = [wire EXCEPT ![c] = Nothing]
    /\ CASE wire[c].kind = "events" ->
              /\ got' = [got EXCEPT ![c] = @ \cup wire[c].set]
              /\ cursor' = [cursor EXCEPT ![c] = [run |-> "this", n |-> Max(wire[c].set)]]
              /\ UNCHANGED from
         [] wire[c].kind = "reset" ->
              /\ cursor' = [cursor EXCEPT ![c] = NoCursor] /\ got' = [got EXCEPT ![c] = {}]
              /\ from' = [from EXCEPT ![c] = 0]
         [] OTHER -> UNCHANGED clients
    /\ UNCHANGED <<history, active, producer, link, streams, tasks>>

-----------------------------------------------------------------------------
(* The session and the tasks of the monitor.                               *)

UnchangedServed == UNCHANGED <<history, active, producer, link, streams, wire, clients>>
ServeEnds ==            \* at the finish, or because the listener fails
    /\ serve = "runs" /\ serve' = "ended"
    /\ UNCHANGED <<stop, finish, refresh, owner>> /\ UnchangedServed
RefreshEnds ==          \* at the stop, or by a panic
    /\ refresh = "runs" /\ refresh' = "ended"
    /\ UNCHANGED <<stop, finish, serve, owner>> /\ UnchangedServed
changed ==              \* the supervisor sees a task end: the monitor gives up, nothing else
    /\ owner = "up" /\ "ended" \in {serve, refresh} /\ ~finish
    /\ stop' = TRUE /\ finish' = TRUE
    /\ UNCHANGED <<serve, refresh, owner>> /\ UnchangedServed
begin_shutdown ==
    /\ owner = "up" /\ owner' = "stopping" /\ stop' = TRUE
    /\ UNCHANGED <<finish, serve, refresh>> /\ UnchangedServed
Finish ==
    /\ owner = "stopping" /\ owner' = "tasks" /\ finish' = TRUE
    /\ UNCHANGED <<stop, serve, refresh>> /\ UnchangedServed
JoinTasks ==            \* they end in time, or are aborted and waited for
    /\ owner = "tasks" /\ owner' = "connections" /\ serve' = "ended" /\ refresh' = "ended"
    /\ UNCHANGED <<stop, finish>> /\ UnchangedServed
JoinConnections ==      \* as the tasks
    /\ owner = "connections" /\ owner' = "gone" /\ CloseAll(Clients)
    /\ UNCHANGED <<stop, finish, serve, refresh>>

Closed == owner = "gone" /\ UNCHANGED monitorVars

MonitorNext ==
    \/ \E p \in Producers : Span(p)
    \/ \E c \in Clients :
         \/ Accept(c) \/ Disconnect(c) \/ sync(c) \/ stream(c)
         \/ Reset(c) \/ Snapshot(c) \/ Look(c) \/ page(c) \/ Wait(c) \/ Done(c) \/ Receive(c)
    \/ Elapse \/ ServeEnds \/ RefreshEnds \/ changed \/ begin_shutdown \/ Finish
    \/ JoinTasks \/ JoinConnections \/ Closed

MonitorSpec == MonitorInit /\ [][MonitorNext]_monitorVars

-----------------------------------------------------------------------------
(* Properties.                                                             *)

(* A client that comes back with its cursor, whatever was evicted, lost    *)
(* with a connection or sent by another process, has every event between   *)
(* where it began and its cursor, unless it was told to start over.        *)
NoEventIsSkipped ==
    \A c \in Clients : cursor[c].run = "this" => got[c] = from[c] + 1 .. cursor[c].n

(* What the overview shows as under way is a span that has not ended.      *)
ShownIsUnderWay == active \subseteq {p \in Producers : producer[p] # "idle"}

StreamsAreFaithful == NoEventIsSkipped /\ ShownIsUnderWay
=============================================================================
