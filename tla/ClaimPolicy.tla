---------------------------- MODULE ClaimPolicy ----------------------------
(***************************************************************************)
(* The in-process claim policy: eight slots, each preferring one class of  *)
(* due jobs, and a fixed order in which an idle slot is lent to another    *)
(* class.  The due jobs of each class come and go as the store admits      *)
(* rows, hints expire and rows age; every successful claim moves to the    *)
(* next slot, a claim that finds nothing does not.                         *)
(***************************************************************************)
EXTENDS Integers, Sequences

CONSTANT MaxDue     \* bound of the due jobs of one class

ASSUME DueAssumption == MaxDue \in Nat \ {0}

ClaimClass == {"Hint", "Recent", "Retry", "History"}

ROTATION == <<"Hint", "Recent", "Retry", "Hint", "History", "Recent", "Retry", "Hint">>
BORROW_ORDER == [Hint |-> 1, Recent |-> 2, History |-> 3, Retry |-> 4]

VARIABLES
    turn,       \* ClaimPolicy.turn, counted from 0
    due,        \* how many due jobs each class has
    passed      \* claims since the class was last served or last empty

policyVars == <<turn, due, passed>>

PolicyInit ==
    /\ turn = 0
    /\ due = [c \in ClaimClass |-> 0]
    /\ passed = [c \in ClaimClass |-> 0]

(* order_for: the preferred class comes first, the others in the borrow    *)
(* order.                                                                  *)
order_for(preferred, c, d) ==
    c # d /\ (c = preferred \/ (d # preferred /\ BORROW_ORDER[c] < BORROW_ORDER[d]))

(* claim_order: the first class of the slot's order that has a due job.    *)
Served(c) ==
    /\ due[c] > 0
    /\ \A d \in ClaimClass : order_for(ROTATION[turn + 1], d, c) => due[d] = 0

on_claimed_unless_borrowed(c) ==
    turn' = IF c = ROTATION[turn + 1] THEN (turn + 1) % Len(ROTATION) ELSE turn
on_claimed(c) == turn' = (turn + 1) % Len(ROTATION)

(* One claim of claim_workers.                                             *)
Claim ==
    \E c \in ClaimClass :
        /\ Served(c)
        /\ on_claimed(c)
        /\ due' = [due EXCEPT ![c] = @ - 1]
        /\ passed' = [d \in ClaimClass |->
                         IF d = c \/ due'[d] = 0 THEN 0 ELSE passed[d] + 1]

(* A row becomes due, or changes its class because its hint expired or it  *)
(* aged out of the recent window.                                          *)
BecomesDue(c) ==
    /\ due[c] < MaxDue
    /\ due' = [due EXCEPT ![c] = @ + 1]
    /\ UNCHANGED <<turn, passed>>
Reclassified(c, d) ==
    /\ c # d /\ due[c] > 0 /\ due[d] < MaxDue
    /\ due' = [due EXCEPT ![c] = @ - 1, ![d] = @ + 1]
    /\ passed' = IF due'[c] = 0 THEN [passed EXCEPT ![c] = 0] ELSE passed
    /\ turn' = turn

(* A new run of the collector starts at the first slot again.              *)
NewRun ==
    /\ turn' = 0
    /\ passed' = [c \in ClaimClass |-> 0]
    /\ due' = due

PolicyNext ==
    \/ Claim
    \/ \E c \in ClaimClass : BecomesDue(c)
    \/ \E c \in ClaimClass, d \in ClaimClass : Reclassified(c, d)
    \/ NewRun

PolicySpec == PolicyInit /\ [][PolicyNext]_policyVars

(* Each class that has due jobs is served at least once in any run of      *)
(* claims as long as the longest stretch of slots that prefer other        *)
(* classes, however the other classes fill up and lend their slots.        *)
Patience == [Hint |-> 3, Recent |-> 3, Retry |-> 3, History |-> 7]
NoClassIsStarved == \A c \in ClaimClass : passed[c] <= Patience[c]

=============================================================================
