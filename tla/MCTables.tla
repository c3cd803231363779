----------------------------- MODULE MCTables ------------------------------
(***************************************************************************)
(* The tables of one DHT node, checked each on its own: the routing table, *)
(* the token keys, the peer store with its sample cache, the identity with *)
(* its votes, and the traffic budget; and the history of events with the   *)
(* monitor that serves it.  They share no state in the model, so a         *)
(* behaviour of one is a behaviour in which the others rest: part says     *)
(* which one moves, and the states are the sum of theirs, not the product. *)
(* The peer store has three hashes for two places and three addresses for  *)
(* two, and less room in all than both together; it removes one expired    *)
(* entry at a time.  The identity has one network more than votes, and a   *)
(* majority that is not all.                                               *)
(***************************************************************************)
EXTENDS MCRouting, Tokens, PeerStore, Identity, Traffic, Monitor

VARIABLE part

MCBurst ==
    [sampling |-> 1, query_bytes |-> 2, reply_bytes |-> 1, inbound |-> 1, responses |-> 1]

(* The second event weighs as much as two others.                          *)
MCSize == <<1, 2, 1>>

Only(p) ==
    /\ part = p /\ UNCHANGED part
    /\ p # "routing" => UNCHANGED vars
    /\ p # "tokens" => UNCHANGED tokenVars
    /\ p # "store" => UNCHANGED storeVars
    /\ p # "identity" => UNCHANGED identityVars
    /\ p # "traffic" => UNCHANGED trafficVars
    /\ p # "monitor" => UNCHANGED monitorVars

TablesInit ==
    /\ part \in {"routing", "tokens", "store", "identity", "traffic", "monitor"}
    /\ Init /\ TokensInit /\ StoreInit /\ IdentityInit /\ TrafficInit /\ MonitorInit
    /\ part # "routing" => local_id = <<0, 0, 0>>
    /\ part # "monitor" => cursor = [c \in Clients |-> NoCursor]
TablesNext ==
    \/ Only("routing") /\ Next
    \/ Only("tokens") /\ TokensNext
    \/ Only("store") /\ StoreNext
    \/ Only("identity") /\ IdentityNext
    \/ Only("traffic") /\ TrafficNext
    \/ Only("monitor") /\ MonitorNext
TablesSpec ==
    TablesInit /\ [][TablesNext]_<<part, vars, tokenVars, storeVars, identityVars,
                                     trafficVars, monitorVars>>
=============================================================================
