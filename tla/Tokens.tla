------------------------------- MODULE Tokens -------------------------------
(***************************************************************************)
(* The write tokens of get_peers and announce_peer (dht/token/mod.rs and   *)
(* the token branches of dispatcher/peer_queries/mod.rs).  A token is the  *)
(* MAC of the sender's IP under the current key: here, the pair of the two.*)
(* Keys change when a request finds the current one too old, and a request *)
(* may come at any time.                                                   *)
(***************************************************************************)
EXTENDS Integers

CONSTANTS Period, Sources,
          MaxTime       \* bound of the clock

ASSUME PeriodAssumption == Period \in Nat \ {0}

VARIABLES
    now,
    current, previous,  \* keys, numbered as they are drawn; 0 stands for none
    epoch,
    issued              \* the tokens handed out, with their time

tokenVars == <<now, current, previous, epoch, issued>>

TokensInit == now = 0 /\ current = 1 /\ previous = 0 /\ epoch = 0 /\ issued = {}

(* The keys after rotate, when the system can draw a new one: the epoch    *)
(* stays on the grid of the periods, however late the request.             *)
RestartsEpoch ==
    LET elapsed == now - epoch
    IN IF elapsed < Period THEN [current |-> current, previous |-> previous, epoch |-> epoch]
       ELSE [current |-> current + 1,
             previous |-> IF elapsed < 2 * Period THEN current ELSE 0,
             epoch |-> now]
rotate ==
    LET elapsed == now - epoch
    IN IF elapsed < Period THEN [current |-> current, previous |-> previous, epoch |-> epoch]
       ELSE [current |-> current + 1,
             previous |-> IF elapsed < 2 * Period THEN current ELSE 0,
             epoch |-> now - (elapsed % Period)]
NewKeys == current' = rotate.current /\ previous' = rotate.previous /\ epoch' = rotate.epoch

(* Both are after rotate; without a new key both fail and change nothing.  *)
issue(ip) ==
    /\ NewKeys /\ UNCHANGED now
    /\ issued' = issued \cup {[ip |-> ip, key |-> rotate.current, at |-> now]}
verifies(token, ip) == token.ip = ip /\ token.key \in {rotate.current, rotate.previous} \ {0}
validate == NewKeys /\ UNCHANGED <<now, issued>>

ClockTicks == now < MaxTime /\ now' = now + 1 /\ UNCHANGED <<current, previous, epoch, issued>>
ClockStops == now = MaxTime /\ UNCHANGED tokenVars

TokensNext == (\E ip \in Sources : issue(ip)) \/ validate \/ ClockTicks \/ ClockStops
TokensSpec == TokensInit /\ [][TokensNext]_tokenVars

-----------------------------------------------------------------------------
(* A token is good for at least one period and less than two from the time *)
(* it was handed out, whenever requests happen to change the keys, and     *)
(* never for another IP.                                                   *)
TokenLifetime ==
    \A token \in issued, ip \in Sources :
        /\ verifies(token, ip) => token.ip = ip /\ now - token.at < 2 * Period
        /\ token.ip = ip /\ now - token.at < Period => verifies(token, ip)
=============================================================================
