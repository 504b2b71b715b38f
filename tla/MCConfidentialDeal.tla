-------------------------- MODULE MCConfidentialDeal --------------------------
(***************************************************************************)
(* ConfidentialDeal for TLC: one lamport per leg, or two for the payment.  *)
(***************************************************************************)
EXTENDS ConfidentialDeal, TLC

MCOwners == {"buyer", "seller"}
MCWallet == ("buyer" :> 2) @@ ("seller" :> 1)
MCPlans == { [l \in Legs |-> 1], [l \in Legs |-> IF l = "BuyerPayment" THEN 2 ELSE 1] }
\* The state without the history variable changed: no guard and nothing this instance checks
\* depends on it.
MCView == <<ledger, now, status, tier, dispute_open, bet, registered, plan, deposited, lamports, lock, requested,
            nonce, approval, approved, confirmed, deadline, authorized, executed, agreed, withdrawn>>
\* The ids of withdrawals are told apart by nothing but their records.
MCSymmetry == Permutations(Withdrawals)
MCNonces == ("buyer" :> 2) @@ ("seller" :> 2)
=============================================================================
