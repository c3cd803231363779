----------------------------- MODULE TcpLimits -----------------------------
(***************************************************************************)
(* One connection per IP (collection/tcp_limits.rs).  The attempts of all  *)
(* workers share a table from IPs to semaphores of one permit.  The table  *)
(* holds a semaphore weakly; the tickets of the attempts that wait or hold *)
(* keep it alive.  The workers run on one thread: what lies between two    *)
(* awaits is one step.                                                     *)
(***************************************************************************)
EXTENDS Naturals, Sequences, FiniteSets, SequencesExt

CONSTANTS Attempts, PeerIps

ASSUME AttemptAssumption == IsFiniteSet(Attempts) /\ "free" \notin Attempts

(* Semaphores; one more than there are tickets at a time.                  *)
Semaphores == 0 .. Cardinality(Attempts)

VARIABLES
    ips,        \* the table
    ticket,     \* attempts that wait or hold: [ip, semaphore]
    waiting,    \* of each semaphore, the attempts in line
    holder      \* of each semaphore, the attempt with the permit, or "free"

limitVars == <<ips, ticket, waiting, holder>>

Without(f, x) == [y \in DOMAIN f \ {x} |-> f[y]]
With(f, x, v) == [y \in DOMAIN f \cup {x} |-> IF y = x THEN v ELSE f[y]]
Alive == {ticket[a].semaphore : a \in DOMAIN ticket}

LimitsInit ==
    /\ ips = [i \in {} |-> 0] /\ ticket = [a \in {} |-> 0]
    /\ waiting = [s \in Semaphores |-> <<>>] /\ holder = [s \in Semaphores |-> "free"]

(* The ticket and the place in line: the semaphore of the table if it is   *)
(* alive, otherwise a new one.                                             *)
acquire_for_ip(a, i) ==
    /\ a \notin DOMAIN ticket
    /\ \E s \in Semaphores :
         /\ IF i \in DOMAIN ips /\ ips[i] \in Alive THEN s = ips[i]
            ELSE s = CHOOSE n \in Semaphores : n \notin Alive
         /\ ips' = With(ips, i, s)
         /\ ticket' = With(ticket, a, [ip |-> i, semaphore |-> s])
         /\ IF holder[s] = "free" /\ waiting[s] = <<>>
            THEN holder' = [holder EXCEPT ![s] = a] /\ UNCHANGED waiting
            ELSE waiting' = [waiting EXCEPT ![s] = Append(@, a)] /\ UNCHANGED holder

(* tokio's semaphore gives its permit to the first in line.                *)
Release(s) ==
    IF waiting[s] = <<>> THEN holder' = [holder EXCEPT ![s] = "free"] /\ UNCHANGED waiting
    ELSE /\ holder' = [holder EXCEPT ![s] = Head(waiting[s])]
         /\ waiting' = [waiting EXCEPT ![s] = Tail(@)]

(* The drop of a ticket, after the permit: the last one clears the table.  *)
KeepEntry(a) == ticket' = Without(ticket, a) /\ UNCHANGED ips
DropTicket(a) ==
    /\ ticket' = Without(ticket, a)
    /\ ips' = IF \E b \in DOMAIN ticket \ {a} : ticket[b].semaphore = ticket[a].semaphore
              THEN ips ELSE Without(ips, ticket[a].ip)

(* The attempt is over, or is dropped while it waits.                      *)
DropAttempt(a) ==
    /\ a \in DOMAIN ticket
    /\ LET s == ticket[a].semaphore
       IN \/ holder[s] = a /\ Release(s)
          \/ /\ holder[s] # a /\ UNCHANGED holder
             /\ \E i \in DOMAIN waiting[s] :
                   /\ waiting[s][i] = a
                   /\ waiting' = [waiting EXCEPT ![s] = RemoveAt(@, i)]
    /\ DropTicket(a)

LimitsNext == \E a \in Attempts : DropAttempt(a) \/ \E i \in PeerIps : acquire_for_ip(a, i)
LimitsSpec == LimitsInit /\ [][LimitsNext]_limitVars

-----------------------------------------------------------------------------
Holding == {a \in DOMAIN ticket : holder[ticket[a].semaphore] = a}

(* However attempts come, wait, give up and end: no two hold a permit for  *)
(* one IP, though the semaphores of an IP come and go; somebody holds it   *)
(* as long as anybody waits; and the table lists the IPs with an attempt   *)
(* and no other, so that it does not grow with every IP ever dialled.      *)
OneConnectionPerIp ==
    /\ \A a, b \in Holding : ticket[a].ip = ticket[b].ip => a = b
    /\ \A a \in DOMAIN ticket : \E b \in Holding : ticket[b].ip = ticket[a].ip
    /\ DOMAIN ips = {ticket[a].ip : a \in DOMAIN ticket}
=============================================================================
