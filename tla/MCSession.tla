----------------------------- MODULE MCSession -----------------------------
(* Which tasks a configuration starts: sampling with fetching, or all of   *)
(* them.                                                                   *)
EXTENDS Session

FetchAndSample == {Fetch} \cup {Dispatcher(n) : n \in Nodes} \cup {Sample(n) : n \in Nodes}
Everything == Roles

=============================================================================
