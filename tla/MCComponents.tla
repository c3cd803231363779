---------------------------- MODULE MCComponents ----------------------------
(***************************************************************************)
(* What a job of the collector goes through, the sampler beside it and the *)
(* session around it, checked each on its own as in MCTables: the claim    *)
(* policy, the worker with its lookup, the limit of connections, one peer  *)
(* session, the sampler of a node, and the application's session.          *)
(* The metadata has three blocks, of which two may be asked for at a time. *)
(***************************************************************************)
EXTENDS Sampler, ClaimPolicy, TcpLimits, Session, PeerSession, Worker, TLC

VARIABLE part

(* "a" is known under two addresses, one of which it shares with "b"; "c"  *)
(* stands alone, so that three nodes compete for two records.              *)
MCContacts == {[id |-> "a", ip |-> "x"], [id |-> "a", ip |-> "y"],
               [id |-> "b", ip |-> "x"], [id |-> "c", ip |-> "z"]}
MCShifts == {-1, 0, 1}

(* Two nodes at one address and one of the other family; a hint twice, one *)
(* that is also found, and one that is not acceptable.                     *)
MCRemoteNodes == [v4 |-> {1, 2}, v6 |-> {3}]
MCAddress == <<2, 2, 3>>
MCAnswers == {<<>>, <<"p">>, <<"q", "x">>}
MChints == <<"h", "h", "p", "x">>

(* Two nodes that sample, and nothing tells them apart.  Run session has   *)
(* the other tasks.                                                        *)
AppTasks == {"dispatcher", "sample"} \X Nodes
NodeSymmetry == Permutations(Nodes)

Only(p) ==
    /\ part = p /\ UNCHANGED part
    /\ p # "sampler" => UNCHANGED vars
    /\ p # "policy" => UNCHANGED policyVars
    /\ p # "session" => UNCHANGED peerVars
    /\ p # "worker" => UNCHANGED jobVars
    /\ p # "tcp" => UNCHANGED limitVars
    /\ p # "app" => UNCHANGED sessionVars

ComponentsInit ==
    /\ part \in {"sampler", "policy", "session", "worker", "tcp", "app"}
    /\ Init /\ PolicyInit /\ PeerInit /\ JobInit /\ LimitsInit /\ SessionInit
ComponentsNext ==
    \/ Only("sampler") /\ Next
    \/ Only("policy") /\ PolicyNext
    \/ Only("session") /\ PeerNext
    \/ Only("worker") /\ JobNext
    \/ Only("tcp") /\ LimitsNext
    \/ Only("app") /\ SessionNext
ComponentsSpec ==
    ComponentsInit
        /\ [][ComponentsNext]_<<part, vars, policyVars, peerVars, jobVars, limitVars, sessionVars>>
=============================================================================
