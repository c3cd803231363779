----------------------------- MODULE Shortlist -----------------------------
(***************************************************************************)
(* The rule that both iterative lookups share (dht/shortlist.rs): the      *)
(* nearest candidates that have not failed.  A candidate is its distance   *)
(* to the target, which is never the same for two of them.                 *)
(***************************************************************************)
EXTENDS Integers, FiniteSets

CandidateState == {"unqueried", "in_flight", "succeeded", "failed"}

(* The nearest n members of a set.                                         *)
Nearest(S, n) == {c \in S : Cardinality({d \in S : d < c}) < n}

(* states maps the known candidates to their states.                       *)
closest_valid(states, limit) ==
    Nearest({c \in DOMAIN states : states[c] # "failed"}, limit)
=============================================================================
