----------------------------- MODULE JobLease -----------------------------
(***************************************************************************)
(* What the job store promises the workers, without tables, clocks or      *)
(* retries: a hash has at most one owner, named by a generation that was   *)
(* never handed out for it before; only the owner can finish it; and what  *)
(* is finished is never handed out again.                                  *)
(***************************************************************************)
EXTENDS Integers

CONSTANTS
    Hashes,
    Generations     \* positive

VARIABLES
    owner,      \* the generation that owns a hash, 0 when none does
    issued,     \* every lease handed out so far
    done        \* the hashes whose metadata is stored

vars == <<owner, issued, done>>

Init ==
    /\ owner = [h \in Hashes |-> 0]
    /\ issued = {}
    /\ done \in SUBSET Hashes

Issue(h, g) ==
    /\ owner[h] = 0 /\ h \notin done
    /\ \A l \in issued : l.hash = h => l.gen < g
    /\ owner' = [owner EXCEPT ![h] = g]
    /\ issued' = issued \cup {[hash |-> h, gen |-> g]}
    /\ done' = done

(* A retry gives up one hash, a restart of the process all of them.        *)
Release(H) ==
    /\ owner' = [h \in Hashes |-> IF h \in H THEN 0 ELSE owner[h]]
    /\ UNCHANGED <<issued, done>>

(* The owner's metadata settles its hash and the other identities of the   *)
(* same torrent, whoever owns those.                                       *)
Settle(H) ==
    /\ owner' = [h \in Hashes |-> IF h \in H THEN 0 ELSE owner[h]]
    /\ done' = done \cup H
    /\ issued' = issued

Finish(l, H) ==
    /\ owner[l.hash] = l.gen
    /\ l.hash \in H
    /\ Settle(H)

(* An upgrade finds that a stored torrent has another identity.            *)
Absorb(h, H) == h \in done /\ h \in H /\ Settle(H)

Next ==
    \/ \E h \in Hashes, g \in Generations : Issue(h, g)
    \/ \E H \in SUBSET Hashes : Release(H)
    \/ \E l \in issued, H \in SUBSET Hashes : Finish(l, H)
    \/ \E h \in Hashes, H \in SUBSET Hashes : Absorb(h, H)

Spec == Init /\ [][Next]_vars

=============================================================================
