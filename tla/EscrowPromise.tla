---------------------------- MODULE EscrowPromise ----------------------------
(***************************************************************************)
(* What an escrow promises its users, whatever program implements it.      *)
(* While a deal is open the escrow only ever owes more.  It then settles   *)
(* once: either it returns to each role what it owes that role, or it      *)
(* moves an amount "p" out of the buyer's part, keeps a fee of at most     *)
(* 1.1% of it and gives the rest to the seller; nothing is lost on the     *)
(* way.  Only a settled deal can be forgotten.                             *)
(***************************************************************************)
EXTENDS EscrowTerms

VARIABLES phase,   \* "none", "open" or "settled"
          owed,    \* what the escrow owes each role
          paid     \* what it has paid each role

vars == <<phase, owed, paid>>

Init == phase = "none" /\ owed = Zero /\ paid = Zero

Open ==
    /\ phase = "none"
    /\ phase' = "open"
    /\ UNCHANGED <<owed, paid>>

\* A deposit of role r is acknowledged.
Hold(r) ==
    /\ phase = "open"
    /\ owed'[r] > owed[r]
    /\ owed' = [owed EXCEPT ![r] = owed'[r]]
    /\ UNCHANGED <<phase, paid>>

Return ==
    /\ phase = "open"
    /\ phase' = "settled"
    /\ paid' = owed
    /\ UNCHANGED owed

Trade ==
    /\ phase = "open"
    /\ owed["seller"] > 0
    /\ phase' = "settled"
    /\ LET p == owed["buyer"] - paid'["buyer"]
           f == paid'["middleman"]
       IN /\ 0 < p /\ p < owed["buyer"]
          /\ 0 <= f /\ f * 10000 <= p * 110
          /\ paid' = [buyer |-> owed["buyer"] - p, seller |-> owed["seller"] + (p - f),
                      middleman |-> f]
    /\ UNCHANGED owed

Forget ==
    /\ phase = "settled"
    /\ phase' = "none"
    /\ owed' = Zero
    /\ paid' = Zero

Next ==
    \/ Open
    \/ \E r \in Roles : Hold(r)
    \/ Return
    \/ Trade
    \/ Forget

Spec == Init /\ [][Next]_vars
=============================================================================
