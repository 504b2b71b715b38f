----------------------------- MODULE EscrowView -----------------------------
(***************************************************************************)
(* What a client reads of one escrow: the status of the deal account, the  *)
(* deposit flags, and whether the deadline has passed.  EscrowDeal         *)
(* implements it; the off-chain modules use it as their chain.             *)
(***************************************************************************)
EXTENDS EscrowTerms

VARIABLES status,   \* Deal.status, "None" while there is no account
          locked,   \* the deposits whose *_locked flag is set
          late      \* the clock is past Deal.timeout

vars == <<status, locked, late>>

Collaterals == {"BuyerCollateral", "SellerCollateral"}
Live == status \in {"Created", "CollateralLocked", "PaymentLocked"}
Settled == status \in {"Completed", "Refunded", "Cancelled"}

TypeOK ==
    /\ status \in {"None", "Created", "CollateralLocked", "PaymentLocked",
                   "Completed", "Refunded", "Cancelled"}
    /\ locked \in SUBSET Deposits
    /\ late \in BOOLEAN

Init == status = "None" /\ locked = {} /\ late = FALSE

Create ==
    /\ status = "None"
    /\ status' = "Created"
    /\ locked' = {}
    /\ late' = FALSE

\* A deposit is flagged, by lock_* or by confirm_deposit: collaterals first, in any
\* order, then the payment.
Deposit(d) ==
    /\ d \notin locked
    /\ status = IF d = "BuyerPayment" THEN "CollateralLocked" ELSE "Created"
    /\ locked' = locked \cup {d}
    /\ status' = IF d = "BuyerPayment" THEN "PaymentLocked"
                 ELSE IF Collaterals \subseteq locked' THEN "CollateralLocked" ELSE "Created"
    /\ UNCHANGED late

Release ==
    /\ status = "PaymentLocked"
    /\ status' = "Completed"
    /\ UNCHANGED <<locked, late>>

\* Before the payment is in; once both collaterals are, the middleman alone.
Cancel ==
    /\ status \in {"Created", "CollateralLocked"}
    /\ status' = "Cancelled"
    /\ UNCHANGED <<locked, late>>

Refund ==
    /\ Live
    /\ late
    /\ status' = "Refunded"
    /\ UNCHANGED <<locked, late>>

Close ==
    /\ Settled
    /\ status' = "None"
    /\ locked' = {}
    /\ late' = FALSE

Expire ==
    /\ status # "None"
    /\ late' = TRUE
    /\ UNCHANGED <<status, locked>>

Next ==
    \/ Create
    \/ \E d \in Deposits : Deposit(d)
    \/ Release
    \/ Cancel
    \/ Refund
    \/ Close
    \/ Expire

Spec == Init /\ [][Next]_vars
=============================================================================
