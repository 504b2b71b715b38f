---------------------------- MODULE CreditPromise ----------------------------
(***************************************************************************)
(* What the confidential program promises to the owners of credit: credit  *)
(* is bought with SOL, leaves only as a claim its owner makes or as the    *)
(* payment of a release all owners agree to, and every claim is paid once, *)
(* out of the vault.  What is locked for the deal stays the owner's, and   *)
(* out of reach of his withdrawals, until it is returned or settled.       *)
(* ConfidentialDeal implements it.                                         *)
(***************************************************************************)
EXTENDS Integers

CONSTANTS Owners,       \* who has credit
          Payer, Payee, \* the two of them who settle
          Withdrawals   \* ids of claims

VARIABLES
    credit,   \* credit of each owner, locked or not
    payment,  \* the part of the payer's that is locked as the payment
    bond,     \* the part of each owner's that is locked as his collateral
    claim,    \* what each unpaid claim is worth
    paid,     \* the claims that have been paid
    reserve,  \* what the vault holds
    agreed,   \* the owners who agree to the release
    settled   \* the release has been executed

pvars == <<credit, payment, bond, claim, paid, reserve, agreed, settled>>

\* What o has locked.
Locked(o) == bond[o] + (IF o = Payer THEN payment ELSE 0)

Init ==
    /\ credit = [o \in Owners |-> 0]
    /\ payment = 0
    /\ bond = [o \in Owners |-> 0]
    /\ claim = [w \in Withdrawals |-> 0]
    /\ paid = {}
    /\ reserve = 0
    /\ agreed = {}
    /\ settled = FALSE

\* SOL comes in, and as much credit is issued for it.
Buy(o) ==
    LET n == reserve' - reserve
    IN  /\ n > 0
        /\ credit' = [credit EXCEPT ![o] = @ + n]
        /\ UNCHANGED <<payment, bond, claim, paid, agreed, settled>>

\* An owner turns credit he has not locked into a claim, under an id not used before.
Claim(o, w) ==
    LET n == claim'[w]
    IN  /\ claim[w] = 0 /\ w \notin paid
        /\ n > 0 /\ credit[o] - n >= Locked(o)
        /\ credit' = [credit EXCEPT ![o] = @ - n]
        /\ claim' = [claim EXCEPT ![w] = n]
        /\ UNCHANGED <<payment, bond, paid, reserve, agreed, settled>>

\* A claim is paid in full.
Pay(w) ==
    /\ claim[w] > 0
    /\ reserve' = reserve - claim[w]
    /\ claim' = [claim EXCEPT ![w] = 0]
    /\ paid' = paid \cup {w}
    /\ UNCHANGED <<credit, payment, bond, agreed, settled>>

\* An owner locks credit he has for one leg of the deal, or gets it back.
Lock(o) ==
    /\ \/ o = Payer /\ payment = 0 /\ payment' \in Nat /\ UNCHANGED bond
       \/ bond[o] = 0 /\ bond'[o] \in Nat /\ bond' = [bond EXCEPT ![o] = bond'[o]] /\ UNCHANGED payment
    /\ Locked(o)' <= credit[o]
    /\ UNCHANGED <<credit, claim, paid, reserve, agreed, settled>>

Unlock(o) ==
    /\ \/ o = Payer /\ payment' = 0 /\ UNCHANGED bond
       \/ bond' = [bond EXCEPT ![o] = 0] /\ UNCHANGED payment
    /\ UNCHANGED <<credit, claim, paid, reserve, agreed, settled>>

\* An owner joins or leaves those who agree, or all of them start again.
Consent(o) ==
    /\ ~settled
    /\ agreed' \in {agreed \cup {o}, agreed \ {o}, {}}
    /\ UNCHANGED <<credit, payment, bond, claim, paid, reserve, settled>>

\* The release, once: the payment changes hands in full or not at all, the collaterals
\* never do, and nothing stays locked.
Settle ==
    /\ ~settled
    /\ agreed = Owners
    /\ settled' = TRUE
    /\ payment' = 0
    /\ bond' = [o \in Owners |-> 0]
    /\ \/ credit' = credit
       \/ credit' = [credit EXCEPT ![Payer] = @ - payment, ![Payee] = @ + payment]
    /\ UNCHANGED <<claim, paid, reserve, agreed>>

Next ==
    \/ \E o \in Owners :
        \/ Buy(o) \/ Lock(o) \/ Unlock(o) \/ Consent(o)
        \/ \E w \in Withdrawals : Claim(o, w)
    \/ \E w \in Withdrawals : Pay(w)
    \/ Settle

Spec == Init /\ [][Next]_pvars
=============================================================================
