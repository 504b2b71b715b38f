--------------------------- MODULE ConfidentialDeal ---------------------------
(***************************************************************************)
(* The confidential escrow program: one deal, its funding on either rail   *)
(* (SOL in the deal account, or credit locked in the vault), the release   *)
(* approvals the parties sign, disputes, and the settlement.  Buyer and    *)
(* seller are told apart by the commitments to their wallets; amounts are  *)
(* bound by hashes, here by the amounts themselves.                        *)
(*                                                                         *)
(* Anyone may submit a signed approval, at any time and more than once: an *)
(* action that takes a payload (role, nonce, expiry) may be taken with any *)
(* payload the party may have signed.                                      *)
(***************************************************************************)
EXTENDS CreditVault, Accounts

CONSTANTS Bets,      \* bet_lamports
          Plans,     \* amounts of the three legs the middleman may commit to
          Window,    \* seller_dispute_window_seconds
          Expiries,  \* values of expires_at
          MaxNonce,  \* payloads of each party that take effect (bound)
          MaxTime    \* last value of the clock (bound)

Parties == {"buyer", "seller"}
Legs == {"BuyerPayment", "BuyerCollateral", "SellerCollateral"}
OwnerOf(leg) == IF leg = "SellerCollateral" THEN "seller" ELSE "buyer"

ASSUME DealAssumption ==
    /\ Parties = Owners
    /\ Bets \subseteq Nat
    /\ Plans \subseteq [Legs -> Nat \ {0}]
    /\ Window \in Nat /\ MaxTime \in Nat /\ MaxNonce \in [Parties -> Nat]
    /\ Expiries \subseteq Nat

VARIABLES
    now,
    status, tier, dispute_open,
    bet,           \* bet_lamports
    registered,    \* private_funding_registered
    plan,          \* the amounts behind the three funding hashes
    deposited,     \* legs whose *_deposited flag is set
    lamports,      \* of the deal account above rent
    lock,          \* the CreditLock of each leg
    requested,     \* pending_digest holds the digest of a decryption request
    nonce, approval, approved,             \* per party: *_release_nonce, ReleaseApproval, *_plan_approved
    confirmed, deadline,                   \* buyer_release_confirmed, seller_dispute_deadline_at
    authorized, executed,                  \* release_authorized, release_executed
    \* history variables, read by no guard
    agreed,        \* who has approved and not gone back on it, nor disputed, since
    withdrawn,     \* nonce with which each party last revoked or disputed
    changed        \* when a party, or the middleman, last acted on the release

funding == <<status, tier, registered, plan, deposited, lamports, lock>>
consent == <<nonce, approval, approved, confirmed, deadline, authorized, agreed, withdrawn, changed>>
dealVars == <<status, tier, dispute_open, bet, registered, plan, deposited, lamports, lock, requested,
              nonce, approval, approved, confirmed, deadline, authorized, executed,
              agreed, withdrawn, changed>>
vars == <<ledger, now, dealVars>>

LockStates == {"none", "open", "settled", "refunded"}
Kinds == {"none", "Approve", "Revoke", "Confirm", "Dispute"}
NoLock == [state |-> "none", amount |-> 0]
NoApproval == [kind |-> "none", expires |-> 0, active |-> FALSE]

Init ==
    /\ VaultInit
    /\ now = 0
    /\ status = "None" /\ tier = "Unset" /\ dispute_open = FALSE
    /\ bet = 0
    /\ registered = FALSE
    /\ plan = [l \in Legs |-> 0]
    /\ deposited = {}
    /\ lamports = 0
    /\ lock = [l \in Legs |-> NoLock]
    /\ requested = FALSE
    /\ nonce = [p \in Parties |-> 0]
    /\ approval = [p \in Parties |-> NoApproval]
    /\ approved = {}
    /\ confirmed = FALSE /\ deadline = 0
    /\ authorized = FALSE /\ executed = FALSE
    /\ agreed = {}
    /\ withdrawn = [p \in Parties |-> 0]
    /\ changed = 0

-----------------------------------------------------------------------------
\* Funding.

\* create_confidential_deal: the payer brings twice the bet, and the deal is funded.
CreateConfidentialDeal(b) ==
    /\ status = "None"
    /\ bet' = b
    /\ lamports' = 2 * b
    /\ status' = IF b > 0 THEN "Funded" ELSE "Created"
    /\ UNCHANGED <<ledger, now, tier, dispute_open, registered, plan, deposited, lock, requested,
                   consent, executed>>

Fundable == status \in {"Created", "PartiallyFunded"}

\* register_private_funding_commitments: the middleman may do it again.
RegisterPrivateFundingCommitments(amounts) ==
    /\ Fundable
    /\ plan' = amounts
    /\ registered' = TRUE
    /\ UNCHANGED <<ledger, now, status, tier, dispute_open, bet, deposited, lamports, lock, requested,
                   consent, executed>>

StatusWith(legs) == IF legs = Legs THEN "Funded" ELSE "PartiallyFunded"

\* deposit_encrypted by the party the leg belongs to.  Before the commitments are
\* registered it takes the bet, and counts deposits but not legs.
DepositEncrypted(leg) ==
    LET amount == IF registered THEN plan[leg] ELSE bet
    IN  /\ Fundable
        /\ tier \in {"Unset", "DirectSol"}
        /\ IF registered THEN leg \notin deposited ELSE leg # "BuyerPayment"
        /\ wallet[OwnerOf(leg)] >= amount
        /\ wallet' = [wallet EXCEPT ![OwnerOf(leg)] = @ - amount]
        /\ lamports' = lamports + amount
        /\ tier' = "DirectSol"
        /\ deposited' = IF registered THEN deposited \cup {leg} ELSE deposited
        /\ status' = IF registered THEN StatusWith(deposited')
                     ELSE IF status = "Created" THEN "PartiallyFunded" ELSE "Funded"
        /\ UNCHANGED <<vault, balances, withdrawal, now, dispute_open, bet, registered, plan, lock,
                       requested, consent, executed>>

\* lock_credit_for_deal
LockCreditForDeal(leg) ==
    /\ Fundable
    /\ registered
    /\ tier \in {"Unset", "ShieldedCredit"}
    /\ leg \notin deposited
    /\ LockCredit(OwnerOf(leg), plan[leg])
    /\ lock' = [lock EXCEPT ![leg] = [state |-> "open", amount |-> plan[leg]]]
    /\ tier' = "ShieldedCredit"
    /\ deposited' = deposited \cup {leg}
    /\ status' = StatusWith(deposited')
    /\ UNCHANGED <<now, dispute_open, bet, registered, plan, lamports, requested, consent, executed>>

\* cancel_deal: what is in the account goes to the middleman; locks stay as they are.
CancelDeal ==
    /\ Fundable
    /\ status' = "Cancelled"
    /\ lamports' = 0
    /\ UNCHANGED <<ledger, now, tier, dispute_open, bet, registered, plan, deposited, lock, requested,
                   consent, executed>>

\* request_settlement_decryption
RequestSettlementDecryption ==
    /\ status = "Funded"
    /\ status' = "Settling"
    /\ requested' = TRUE
    /\ UNCHANGED <<ledger, now, tier, dispute_open, bet, registered, plan, deposited, lamports, lock,
                   consent, executed>>

-----------------------------------------------------------------------------
\* Approvals.  Each payload is written to the approval account of its role.
Signed(p, kind, n, expires) ==
    /\ approval' = [approval EXCEPT ![p] = [kind |-> kind, expires |-> expires,
                                            active |-> kind \in {"Approve", "Confirm"}]]
    /\ nonce' = [nonce EXCEPT ![p] = n]
    /\ authorized' = FALSE
    /\ changed' = now

\* Parties number their payloads one after the other (nextRoleNonce of the agent).
Numbered(p) == {n \in 1..MaxNonce[p] : n <= nonce[p] + 1}
NonceReused(p, n) == n > 0   \* mutant: a payload takes effect again
FreshNonce(p, n) == n > nonce[p]
Negotiable == status = "Settling" /\ ~dispute_open /\ ~authorized /\ ~executed

\* submit_release_approval
SubmitReleaseApproval(p, n, e) ==
    /\ Negotiable
    /\ e > now
    /\ FreshNonce(p, n)
    /\ Signed(p, "Approve", n, e)
    /\ approved' = approved \cup {p}
    /\ confirmed' = (confirmed /\ p # "buyer")
    /\ deadline' = 0
    /\ agreed' = agreed \cup {p}
    /\ UNCHANGED <<ledger, now, funding, dispute_open, bet, requested, executed, withdrawn>>

\* revoke_release_approval: in any status, until the release is authorized.
RevokeReleaseApproval(p, n) ==
    /\ status # "None" /\ ~authorized /\ ~executed
    /\ FreshNonce(p, n)
    /\ Signed(p, "Revoke", n, 0)
    /\ approved' = approved \ {p}
    /\ confirmed' = FALSE
    /\ deadline' = 0
    /\ agreed' = agreed \ {p}
    /\ withdrawn' = [withdrawn EXCEPT ![p] = n]
    /\ UNCHANGED <<ledger, now, funding, dispute_open, bet, requested, executed>>

\* confirm_release: the buyer asks for the release; the seller's window begins.
ConfirmRelease(n, e) ==
    /\ Negotiable
    /\ e > now
    /\ approved = Parties
    /\ FreshNonce("buyer", n)
    /\ Signed("buyer", "Confirm", n, e)
    /\ confirmed' = TRUE
    /\ deadline' = now + Window
    /\ UNCHANGED <<ledger, now, funding, dispute_open, bet, requested, approved, executed, agreed, withdrawn>>

\* open_release_dispute: in any status, until the release is executed.
OpenReleaseDispute(p, n) ==
    /\ status # "None" /\ ~executed
    /\ FreshNonce(p, n)
    /\ Signed(p, "Dispute", n, 0)
    /\ dispute_open' = TRUE
    /\ status' = "Disputed"
    /\ confirmed' = FALSE
    /\ deadline' = 0
    /\ agreed' = {}
    /\ withdrawn' = [withdrawn EXCEPT ![p] = n]
    /\ UNCHANGED <<ledger, now, tier, bet, registered, plan, deposited, lamports, lock, requested,
                   approved, executed>>

\* resolve_release_dispute takes any two approval accounts, of this deal or another:
\* those of S are of this deal.
Deactivated(S) == [p \in Parties |-> IF p \in S THEN [approval[p] EXCEPT !.active = FALSE] ELSE approval[p]]
ApprovalsKept(A) == A   \* mutant: the approvals survive the dispute
ApprovalsLeft(A) == {}
ResolvedNot(s) == s     \* mutant: the deal stays disputed
Resolved(s) == IF s = "Disputed" THEN "Settling" ELSE s
ResolveReleaseDispute(S) ==
    /\ dispute_open
    /\ \A p \in S : approval[p] # NoApproval
    /\ dispute_open' = FALSE
    /\ status' = Resolved(status)
    /\ approval' = Deactivated(S)
    /\ approved' = ApprovalsLeft(approved)
    /\ confirmed' = FALSE
    /\ deadline' = 0
    /\ authorized' = FALSE
    /\ changed' = now
    /\ UNCHANGED <<ledger, now, tier, bet, registered, plan, deposited, lamports, lock, requested,
                   nonce, executed, agreed, withdrawn>>
\* The same, for a dispute of another deal, with an approval of this deal.
ResolveElsewhere(p) ==
    /\ approval[p] # NoApproval
    /\ approval' = Deactivated({p})
    /\ UNCHANGED <<ledger, now, funding, dispute_open, bet, requested, nonce, approved, confirmed, deadline,
                   authorized, executed, agreed, withdrawn, changed>>

-----------------------------------------------------------------------------
\* Settlement.

\* validate_settlement_plan_approval_account
ValidApproval(p) ==
    /\ approval[p].active
    /\ approval[p].kind = "Approve" \/ (p = "buyer" /\ approval[p].kind = "Confirm")
    /\ approval[p].expires > now

\* approve_cross_chain: anybody, once the seller's window is over.
ApproveCrossChain ==
    /\ Negotiable
    /\ confirmed
    /\ deadline > 0 /\ now >= deadline
    /\ \A p \in Parties : ValidApproval(p)
    /\ authorized' = TRUE
    /\ UNCHANGED <<ledger, now, funding, dispute_open, bet, requested, nonce, approval, approved, confirmed,
                   deadline, executed, agreed, withdrawn, changed>>

ReleasableUnasked == status = "Settling" /\ ~executed   \* mutant
Releasable == status = "Settling" /\ ~executed /\ authorized /\ confirmed

\* reveal_and_release: needs the decrypted flag; the payouts leave the deal account.
Payout ==
    IF registered THEN plan["BuyerPayment"] + plan["BuyerCollateral"] + plan["SellerCollateral"]
    ELSE 2 * bet
RevealAndRelease ==
    /\ Releasable
    /\ ~dispute_open
    /\ tier # "ShieldedCredit"
    /\ \A p \in Parties : ValidApproval(p)
    /\ requested
    /\ lamports >= Payout
    /\ lamports' = lamports - Payout
    /\ status' = "Completed"
    /\ executed' = TRUE
    /\ UNCHANGED <<ledger, now, tier, dispute_open, bet, registered, plan, deposited, lock, requested, consent>>

\* settle_locked_credit: the middleman says whether the payment goes to the seller.
SettleLockedCredit(settlement_valid) ==
    LET amount(leg) == lock[leg].amount
        total == amount("BuyerPayment") + amount("BuyerCollateral") + amount("SellerCollateral")
        back == [o \in Parties |->
                   IF o = "seller" THEN amount("SellerCollateral")
                   ELSE amount("BuyerCollateral") + IF settlement_valid THEN 0 ELSE amount("BuyerPayment")]
    IN  /\ Releasable
        /\ tier = "ShieldedCredit"
        /\ \A leg \in Legs : lock[leg].state = "open"
        /\ TransferCredit(back, "buyer", "seller", IF settlement_valid THEN amount("BuyerPayment") ELSE 0)
        /\ encumbered >= total
        /\ encumbered' = encumbered - total
        /\ lock' = [leg \in Legs |-> [lock[leg] EXCEPT !.state = "settled"]]
        /\ status' = "Completed"
        /\ executed' = TRUE
        /\ UNCHANGED <<wallet, reserve, issued, pending, withdrawal, now, tier, dispute_open, bet,
                       registered, plan, deposited, lamports, requested, consent>>
        /\ validate_vault_reserve

\* emergency_refund_after_timeout: the caller names the timeout, from one second on,
\* and the deal whose age counts, which need not be that of the lock: one created at 0.
Overdue == now > 1
EmergencyRefundAfterTimeout(leg) ==
    /\ Overdue
    /\ lock[leg].state = "open"
    /\ RefundCredit(OwnerOf(leg), lock[leg].amount)
    /\ lock' = [lock EXCEPT ![leg].state = "refunded"]
    /\ UNCHANGED <<now, status, tier, dispute_open, bet, registered, plan, deposited, lamports,
                   requested, consent, executed>>

-----------------------------------------------------------------------------
Tick ==
    /\ now < MaxTime
    /\ now' = now + 1
    /\ UNCHANGED <<ledger, dealVars>>

Credit ==
    /\ \/ \E o \in Parties, n \in Amounts :
              \/ DepositSolForCredit(o, n)
              \/ \E w \in Withdrawals, t \in Delays : QueueWithdrawal(w, o, n, t)
       \/ \E w \in Withdrawals : ExecuteWithdrawal(w, now)
    /\ UNCHANGED <<now, dealVars>>

Next ==
    \/ Credit
    \/ \E b \in Bets : CreateConfidentialDeal(b)
    \/ \E amounts \in Plans : RegisterPrivateFundingCommitments(amounts)
    \/ \E leg \in Legs : \/ DepositEncrypted(leg)
                         \/ LockCreditForDeal(leg)
                         \/ EmergencyRefundAfterTimeout(leg)
    \/ CancelDeal
    \/ RequestSettlementDecryption
    \/ \E p \in Parties : \E n \in Numbered(p) :
           \/ \E e \in Expiries : SubmitReleaseApproval(p, n, e) \/ (p = "buyer" /\ ConfirmRelease(n, e))
           \/ RevokeReleaseApproval(p, n)
           \/ OpenReleaseDispute(p, n)
    \/ \E S \in SUBSET Parties : ResolveReleaseDispute(S)
    \/ \E p \in Parties : ResolveElsewhere(p)
    \/ ApproveCrossChain
    \/ RevealAndRelease
    \/ \E valid \in BOOLEAN : SettleLockedCredit(valid)
    \/ Tick

Spec == Init /\ [][Next]_vars

-----------------------------------------------------------------------------
\* Every variable has its type, and the two marks of a dispute agree.
TypeOK ==
    /\ VaultTypeOK
    /\ now \in 0..MaxTime
    /\ status \in {"None", "Created", "PartiallyFunded", "Funded", "Settling", "Completed",
                   "Disputed", "Cancelled"}
    /\ tier \in {"Unset", "DirectSol", "ShieldedCredit"}
    /\ dispute_open \in BOOLEAN /\ (dispute_open <=> status = "Disputed")
    /\ bet \in Nat /\ lamports \in Nat
    /\ registered \in BOOLEAN /\ plan \in [Legs -> Nat]
    /\ deposited \in SUBSET Legs
    /\ lock \in [Legs -> [state : LockStates, amount : Nat]]
    /\ requested \in BOOLEAN
    /\ nonce \in [Parties -> Nat]
    /\ approval \in [Parties -> [kind : Kinds, expires : Nat, active : BOOLEAN]]
    /\ approved \in SUBSET Parties /\ agreed \in SUBSET Parties
    /\ confirmed \in BOOLEAN /\ authorized \in BOOLEAN /\ executed \in BOOLEAN
    /\ deadline \in Nat /\ changed \in Nat
    /\ withdrawn \in [Parties -> Nat]

OpenAmount(leg) == IF lock[leg].state = "open" THEN lock[leg].amount ELSE 0
Queued == [w \in Withdrawals |-> IF withdrawal[w] # Free /\ ~withdrawal[w].executed
                                  THEN withdrawal[w].amount ELSE 0]

\* The ledger balances, to the lamport, across deposits, locks, settlements, refunds and
\* withdrawals: the vault holds what it owes, the totals are the sums of the accounts,
\* what each owner has locked is in his open locks, so no lock is paid out twice, and what
\* is pending is what is queued, so every queued withdrawal can be paid.
LedgerBalanced ==
    /\ reserve = issued + pending
    /\ issued = available["buyer"] + held["buyer"] + available["seller"] + held["seller"]
    /\ held["buyer"] = OpenAmount("BuyerPayment") + OpenAmount("BuyerCollateral")
    /\ held["seller"] = OpenAmount("SellerCollateral")
    /\ encumbered = held["buyer"] + held["seller"]
    /\ pending = Holdings(Queued)

\* An authorized release rests on the approval of both parties, given after the last
\* dispute or revocation of either, and on the buyer's request.
FreshConsent == authorized => agreed = Parties /\ confirmed

\* An approval that counts is newer than the last revocation or dispute of its party:
\* payloads submitted late or twice do not bring an older approval back.
NewestCounts == \A p \in Parties : approval[p].active => nonce[p] > withdrawn[p]

\* The seller has the whole window to object: nothing about the release has changed
\* for that long when it is executed.
WindowKept == [][ (executed' /\ ~executed) => now >= changed + Window ]_vars

-----------------------------------------------------------------------------
\* The credit of each owner as he sees it; a step of the deal is a step of it.
CreditOf == [o \in Owners |-> available[o] + held[o]]
Bond == [o \in Owners |-> OpenAmount(IF o = "buyer" THEN "BuyerCollateral" ELSE "SellerCollateral")]
Paid == { w \in Withdrawals : withdrawal[w] # Free /\ withdrawal[w].executed }
Promise == INSTANCE CreditPromise
    WITH Payer <- "buyer", Payee <- "seller", credit <- CreditOf, payment <- OpenAmount("BuyerPayment"),
         bond <- Bond, claim <- Queued, paid <- Paid, settled <- executed

\* Whatever the parties, the middleman and passers-by submit, the program keeps its promise
\* to the owners of credit: see CreditPromise.
KeepsCredit == Promise!Spec

\* The release as the middleman's agent sees it; a step of the deal is a step of it.
AnyNonce == UNION { 1..MaxNonce[p] : p \in Parties }
ShownState ==
    IF status \in {"None", "Settling", "Disputed", "Completed"} THEN status ELSE "Open"
ShownWindow == IF deadline = 0 THEN "none" ELSE IF now >= deadline THEN "over" ELSE "open"
View == INSTANCE ReleaseView
            WITH Nonces <- AnyNonce, state <- ShownState, window <- ShownWindow

\* The confidential program does what the agent expects of it: whatever the parties and
\* the middleman submit, the release moves only by the steps of ReleaseView, so the
\* agent's reading of the deal account, modelled there, is what the program promises.
ShowsRelease == View!Spec
=============================================================================
