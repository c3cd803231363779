---------------------------- MODULE MCFetchJobs ----------------------------
(***************************************************************************)
(* Instances of FetchJobs for TLC.                                         *)
(***************************************************************************)
EXTENDS FetchJobs

(* "hy" is a valid hybrid of keys 1 and 2, "bad" one whose layouts differ, *)
(* and "solo" has the key 2 alone.                                         *)
MCKeys == [i \in Infos |-> (IF i = "solo" THEN {2} ELSE {1, 2}) \cap Hashes]
(* 60 s * 2^(n-1), jittered by 0.8 to 1.2, in units of the model's clock.   *)
MCBackoff == [n \in 1..(MaxAttempts + 1) |-> {(5 * 2^(n - 1) * j) \div 500 : j \in {80, 100, 120}}]
NoLegacy == {}
LegacyHybrid == {<<1, "hy">>}
=============================================================================
