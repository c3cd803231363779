----------------------------- MODULE MCQueries -----------------------------
(* Two callers ask the same node, one contact lives at another address.    *)
EXTENDS Queries

MCAddress == [q \in Askers |-> IF q \in Callers THEN "x" ELSE "y"]
=============================================================================
