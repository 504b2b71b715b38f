----------------------------- MODULE ReleaseView -----------------------------
(***************************************************************************)
(* What the middleman's agent depends on of a confidential deal: how far   *)
(* its release has come on chain.  ConfidentialDeal implements it, and     *)
(* ReleaseFlow uses it as its chain.                                       *)
(***************************************************************************)
EXTENDS Naturals

CONSTANTS Parties,   \* the buyer and the seller
          Nonces     \* nonces of the payloads they may sign (bound)

VARIABLES state,       \* of the deal; "Open" until the settlement begins, and when cancelled
          nonce,       \* of the last payload of each party that took effect
          approved, confirmed,
          window,      \* the time the seller has to object
          authorized, executed

consent == <<nonce, approved, confirmed, window, authorized>>
vars == <<state, consent, executed>>

TypeOK ==
    /\ state \in {"None", "Open", "Settling", "Disputed", "Completed"}
    /\ nonce \in [Parties -> Nat]
    /\ approved \in SUBSET Parties
    /\ window \in {"none", "open", "over"}
    /\ confirmed \in BOOLEAN /\ authorized \in BOOLEAN /\ executed \in BOOLEAN

Init ==
    /\ state = "None"
    /\ nonce = [p \in Parties |-> 0]
    /\ approved = {}
    /\ window = "none"
    /\ confirmed = FALSE /\ authorized = FALSE /\ executed = FALSE

Create == state = "None" /\ state' = "Open" /\ UNCHANGED <<consent, executed>>
Request == state = "Open" /\ state' = "Settling" /\ UNCHANGED <<consent, executed>>

\* A payload takes effect once: its nonce is newer than the party's last.
Fresh(p, n) == n > nonce[p]
Signs(p, n) == nonce' = [nonce EXCEPT ![p] = n]
Negotiable == state = "Settling" /\ ~authorized /\ ~executed

CanSubmit(p, n) == Negotiable /\ Fresh(p, n)
Submit(p, n) ==
    /\ CanSubmit(p, n)
    /\ Signs(p, n)
    /\ approved' = approved \cup {p}
    /\ confirmed' = (confirmed /\ p # "buyer")
    /\ window' = "none"
    /\ UNCHANGED <<state, authorized, executed>>

CanRevoke(p, n) == state # "None" /\ ~authorized /\ ~executed /\ Fresh(p, n)
Revoke(p, n) ==
    /\ CanRevoke(p, n)
    /\ Signs(p, n)
    /\ approved' = approved \ {p}
    /\ confirmed' = FALSE
    /\ window' = "none"
    /\ UNCHANGED <<state, authorized, executed>>

CanConfirm(n) == CanSubmit("buyer", n) /\ approved = Parties
\* The seller's window begins, and may be over at once.
Confirm(n) ==
    /\ CanConfirm(n)
    /\ Signs("buyer", n)
    /\ confirmed' = TRUE
    /\ window' \in {"open", "over"}
    /\ UNCHANGED <<state, approved, authorized, executed>>

CanDispute(p, n) == state # "None" /\ ~executed /\ Fresh(p, n)
Dispute(p, n) ==
    /\ CanDispute(p, n)
    /\ Signs(p, n)
    /\ state' = "Disputed"
    /\ confirmed' = FALSE
    /\ window' = "none"
    /\ authorized' = FALSE
    /\ UNCHANGED <<approved, executed>>

Resolve ==
    /\ state = "Disputed"
    /\ state' = "Settling"
    /\ approved' = {}
    /\ confirmed' = FALSE
    /\ window' = "none"
    /\ authorized' = FALSE
    /\ UNCHANGED <<nonce, executed>>

WindowEnds ==
    /\ window = "open"
    /\ window' = "over"
    /\ UNCHANGED <<state, nonce, approved, confirmed, authorized, executed>>

CanAuthorize == Negotiable /\ approved = Parties /\ confirmed /\ window = "over"
Authorize ==
    /\ CanAuthorize
    /\ authorized' = TRUE
    /\ UNCHANGED <<state, nonce, approved, confirmed, window, executed>>

CanExecute == state = "Settling" /\ ~executed /\ authorized /\ confirmed
Execute ==
    /\ CanExecute
    /\ state' = "Completed"
    /\ executed' = TRUE
    /\ UNCHANGED consent

Next ==
    \/ Create \/ Request
    \/ \E p \in Parties, n \in Nonces : Submit(p, n) \/ Revoke(p, n) \/ Dispute(p, n)
    \/ \E n \in Nonces : Confirm(n)
    \/ Resolve \/ WindowEnds
    \/ Authorize \/ Execute

Spec == Init /\ [][Next]_vars
=============================================================================
