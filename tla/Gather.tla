------------------------------- MODULE Gather -------------------------------
(***************************************************************************)
(* Two loops that go through a list and take some of it, as the functions  *)
(* of what they have after each element.                                   *)
(***************************************************************************)
EXTENDS Integers, SequencesExt

(* A filter: the members of S, in order, each as often as it occurs.       *)
Kept(s, S) ==
    LET after[k \in 0 .. Len(s)] ==
          IF k = 0 THEN <<>>
          ELSE IF s[k] \in S THEN Append(after[k - 1], s[k]) ELSE after[k - 1]
    IN after[Len(s)]

(* A collection: what is in S and not in the list yet is added to it, up   *)
(* to a limit.                                                             *)
Taken(list, a, S, limit) ==
    IF a \in S /\ a \notin Range(list) /\ Len(list) < limit THEN Append(list, a) ELSE list
Collected(list, s, S, limit) ==
    LET after[k \in 0 .. Len(s)] ==
          IF k = 0 THEN list ELSE Taken(after[k - 1], s[k], S, limit)
    IN after[Len(s)]
=============================================================================
