---------------------------- MODULE OutboxPromise ----------------------------
(***************************************************************************)
(* What the outbox promises of a message it has accepted: it is given to   *)
(* the agent's socket at least once before it counts as sent, and it does  *)
(* not wait for ever: it is sent, given up after the last retry, or        *)
(* evicted from a full box.  Nothing is said of how often it is given.     *)
(***************************************************************************)
CONSTANTS Messages

VARIABLES status, \* of the message's row; "none" when there is no row
          given   \* messages written to a socket of their agent at least once

vars == <<status, given>>

Init == status = [k \in Messages |-> "none"] /\ given = {}

Accept(k) == status[k] = "none" /\ status' = [status EXCEPT ![k] = "queued"] /\ UNCHANGED given
Give(k) == given' = given \cup {k} /\ UNCHANGED status

\* Sent for good, or asked for again by a caller that repeats itself.
Settle(k) == k \in given /\ status[k] # "none"
             /\ status' = [status EXCEPT ![k] = "sent"] /\ UNCHANGED given
AskAgain(k) == status[k] = "sent" /\ status' = [status EXCEPT ![k] = "queued"] /\ UNCHANGED given
GiveUp(k) == status[k] # "none"
             /\ status' = [status EXCEPT ![k] = "dead_letter"] /\ UNCHANGED given
Evict(ks) == status' = [k \in Messages |-> IF k \in ks THEN "none" ELSE status[k]]
             /\ UNCHANGED given

Next == \/ \E k \in Messages : \/ Accept(k) \/ Give(k) \/ Settle(k)
                               \/ AskAgain(k) \/ GiveUp(k)
        \/ \E ks \in SUBSET Messages : Evict(ks)

Queued(k) == status[k] = "queued"

Spec == Init /\ [][Next]_vars /\ \A k \in Messages : Queued(k) ~> ~Queued(k)
=============================================================================
