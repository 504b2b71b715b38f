------------------------ MODULE ConfidentialDealProofs ------------------------
(***************************************************************************)
(* Theorems about ConfidentialDeal, for every choice of wallets, amounts,  *)
(* plans, nonces, expiries and of the length of the dispute window.        *)
(***************************************************************************)
EXTENDS ConfidentialDeal, TLAPS, FiniteSetTheorems

-----------------------------------------------------------------------------
(* The inductive invariant.  TypeOK is split in three; the rest relates the *)
(* locks to the balances, and the consent of the parties to the release.   *)

FundingTypeOK ==
    /\ now \in 0..MaxTime
    /\ status \in {"None", "Created", "PartiallyFunded", "Funded", "Settling", "Completed",
                   "Disputed", "Cancelled"}
    /\ tier \in {"Unset", "DirectSol", "ShieldedCredit"}
    /\ dispute_open \in BOOLEAN /\ (dispute_open <=> status = "Disputed")
    /\ bet \in Nat /\ lamports \in Nat
    /\ registered \in BOOLEAN /\ plan \in [Legs -> Nat]
    /\ deposited \in SUBSET Legs
    /\ lock \in [Legs -> [state : LockStates, amount : Nat]]
    /\ requested \in BOOLEAN /\ executed \in BOOLEAN

ConsentTypeOK ==
    /\ nonce \in [Parties -> Nat]
    /\ approval \in [Parties -> [kind : Kinds, expires : Nat, active : BOOLEAN]]
    /\ approved \in SUBSET Parties /\ agreed \in SUBSET Parties
    /\ confirmed \in BOOLEAN /\ authorized \in BOOLEAN
    /\ deadline \in Nat /\ changed \in Nat
    /\ withdrawn \in [Parties -> Nat]

\* A lock exists only for a leg that counts as deposited, so that a leg is locked once,
\* and only in a deal funded with credit.
LocksRecorded ==
    \A leg \in Legs : lock[leg].state # "none" => leg \in deposited /\ tier = "ShieldedCredit"

\* No revocation or dispute is ahead of the nonce, and active approvals are behind it.
NonceOrder ==
    \A p \in Parties : /\ withdrawn[p] <= nonce[p]
                       /\ approval[p].active => withdrawn[p] < nonce[p]

\* What the flags of the deal say about who agrees, and since when.
ConsentOrder ==
    /\ dispute_open \/ approved \subseteq agreed
    /\ confirmed => approved = Parties /\ ~dispute_open
    /\ authorized => agreed = Parties /\ confirmed
    /\ deadline > 0 => deadline = changed + Window
    /\ authorized => now >= changed + Window

IInv == TypeOK /\ LocksRecorded /\ LedgerBalanced /\ NonceOrder /\ ConsentOrder

LEMMA TypeParts == TypeOK <=> VaultTypeOK /\ FundingTypeOK /\ ConsentTypeOK
  BY DEF TypeOK, FundingTypeOK, ConsentTypeOK

\* The parties are the owners of credit, and each leg has one.
LEMMA Names ==
    /\ Owners = {"buyer", "seller"} /\ Parties = {"buyer", "seller"}
    /\ Legs = {"BuyerPayment", "BuyerCollateral", "SellerCollateral"}
    /\ \A leg \in Legs : OwnerOf(leg) \in Owners
  BY DealAssumption DEF Parties, Legs, OwnerOf

-----------------------------------------------------------------------------
(* The ledger operators keep the types. *)

LEMMA DepositCreditType ==
    ASSUME VaultTypeOK, NEW o \in Owners, NEW n \in Amounts, DepositSolForCredit(o, n)
    PROVE  VaultTypeOK'
  <1>1. n \in Nat BY VaultAssumption
  <1>2. QED BY <1>1 DEF DepositSolForCredit, VaultTypeOK

LEMMA LockCreditType ==
    ASSUME VaultTypeOK, NEW o \in Owners, NEW n \in Nat, LockCredit(o, n)
    PROVE  VaultTypeOK'
  BY DEF LockCredit, VaultTypeOK

LEMMA RefundCreditType ==
    ASSUME VaultTypeOK, NEW o \in Owners, NEW n \in Nat, RefundCredit(o, n)
    PROVE  VaultTypeOK'
  BY DEF RefundCredit, VaultTypeOK

LEMMA QueueType ==
    ASSUME VaultTypeOK, NEW w \in Withdrawals, NEW o \in Owners, NEW n \in Amounts,
           NEW t \in Delays, QueueWithdrawal(w, o, n, t)
    PROVE  VaultTypeOK'
  <1>1. n \in Nat BY VaultAssumption
  <1>2. [owner |-> o, amount |-> n, after |-> t, executed |-> FALSE] \in WithdrawalRecords
    <2>1. n \in Amounts OBVIOUS
    <2>2. QED BY <2>1 DEF WithdrawalRecords
  <1>3. withdrawal' \in [Withdrawals -> WithdrawalRecords \cup {Free}]
    BY <1>2 DEF QueueWithdrawal, VaultTypeOK
  <1>4. QED BY <1>1, <1>3 DEF QueueWithdrawal, VaultTypeOK

LEMMA ExecuteType ==
    ASSUME VaultTypeOK, NEW w \in Withdrawals, NEW t, ExecuteWithdrawal(w, t)
    PROVE  VaultTypeOK'
  <1>1. withdrawal[w] \in WithdrawalRecords /\ withdrawal[w].amount \in Nat
    BY VaultAssumption DEF ExecuteWithdrawal, VaultTypeOK, WithdrawalRecords
  <1>2. withdrawal' \in [Withdrawals -> WithdrawalRecords \cup {Free}]
    BY <1>1 DEF ExecuteWithdrawal, VaultTypeOK, WithdrawalRecords
  <1>3. QED BY <1>1, <1>2 DEF ExecuteWithdrawal, VaultTypeOK

\* The transfer of a settlement keeps the types of the balances.
LEMMA TransferType ==
    ASSUME VaultTypeOK, NEW back \in [Owners -> Nat], NEW from \in Owners, NEW to \in Owners,
           NEW n \in Nat, TransferCredit(back, from, to, n)
    PROVE  held' \in [Owners -> Nat] /\ available' \in [Owners -> Nat]
  BY DEF TransferCredit, VaultTypeOK

-----------------------------------------------------------------------------
(* Every action keeps the types. *)

LEMMA InitType == Init => TypeOK
  <1> SUFFICES ASSUME Init PROVE TypeOK
    OBVIOUS
  <1>1. VaultTypeOK BY VaultAssumption DEF Init, VaultInit, VaultTypeOK
  <1>2. FundingTypeOK
    <2>1. 0 \in 0..MaxTime BY DealAssumption
    <2>2. lock \in [Legs -> [state : LockStates, amount : Nat]]
      BY DEF Init, NoLock, LockStates
    <2>3. dispute_open \in BOOLEAN /\ (dispute_open <=> status = "Disputed")
      BY DEF Init
    <2>4. registered \in BOOLEAN /\ requested \in BOOLEAN /\ executed \in BOOLEAN
      BY DEF Init
    <2>5. QED BY <2>1, <2>2, <2>3, <2>4 DEF Init, FundingTypeOK
  <1>3. ConsentTypeOK BY DEF Init, ConsentTypeOK, NoApproval, Kinds
  <1>4. QED BY <1>1, <1>2, <1>3, TypeParts

\* The transfers of a settlement, leg by leg.
SettlementBack(valid) ==
    [o \in Parties |->
        IF o = "seller" THEN lock["SellerCollateral"].amount
        ELSE lock["BuyerCollateral"].amount + IF valid THEN 0 ELSE lock["BuyerPayment"].amount]

LEMMA SettlementBackType ==
    ASSUME FundingTypeOK, NEW valid \in BOOLEAN
    PROVE  /\ SettlementBack(valid) \in [Owners -> Nat]
           /\ SettlementBack(valid)["seller"] = lock["SellerCollateral"].amount
           /\ SettlementBack(valid)["buyer"] = lock["BuyerCollateral"].amount
                                                + IF valid THEN 0 ELSE lock["BuyerPayment"].amount
           /\ \A leg \in Legs : lock[leg].amount \in Nat
  <1>1. \A leg \in Legs : lock[leg].amount \in Nat BY DEF FundingTypeOK
  <1>2. QED BY <1>1, Names DEF SettlementBack

LEMMA SettleExpanded ==
    ASSUME FundingTypeOK, NEW valid \in BOOLEAN, SettleLockedCredit(valid)
    PROVE  /\ TransferCredit(SettlementBack(valid), "buyer", "seller",
                             IF valid THEN lock["BuyerPayment"].amount ELSE 0)
           /\ encumbered >= lock["BuyerPayment"].amount + lock["BuyerCollateral"].amount
                            + lock["SellerCollateral"].amount
           /\ encumbered' = encumbered - (lock["BuyerPayment"].amount + lock["BuyerCollateral"].amount
                                          + lock["SellerCollateral"].amount)
           /\ UNCHANGED <<wallet, reserve, issued, pending, withdrawal>>
           /\ Releasable /\ executed'
           /\ \A leg \in Legs : lock[leg].state = "open"
           /\ lock' = [leg \in Legs |-> [lock[leg] EXCEPT !.state = "settled"]]
           /\ UNCHANGED consent /\ UNCHANGED <<dispute_open, now, deposited, tier>>
  BY DEF SettleLockedCredit, SettlementBack

LEMMA NextVaultType == TypeOK /\ [Next]_vars => VaultTypeOK'
  <1> SUFFICES ASSUME TypeOK, [Next]_vars PROVE VaultTypeOK'
    OBVIOUS
  <1> USE TypeParts
  <1>1. ASSUME UNCHANGED ledger PROVE VaultTypeOK'
    BY <1>1 DEF ledger, VaultTypeOK
  <1>2. ASSUME Credit PROVE VaultTypeOK'
    BY <1>2, DepositCreditType, QueueType, ExecuteType, Names DEF Credit
  <1>3. ASSUME NEW b \in Bets, CreateConfidentialDeal(b) PROVE UNCHANGED ledger
    BY <1>3 DEF CreateConfidentialDeal
  <1>4. ASSUME NEW amounts \in Plans, RegisterPrivateFundingCommitments(amounts)
        PROVE  UNCHANGED ledger
    BY <1>4 DEF RegisterPrivateFundingCommitments
  <1>5. ASSUME NEW leg \in Legs, DepositEncrypted(leg) PROVE VaultTypeOK'
    <2>1. OwnerOf(leg) \in Owners BY Names
    <2>2. plan[leg] \in Nat /\ bet \in Nat BY DEF FundingTypeOK
    <2>3. QED
      BY <1>5, <2>1, <2>2 DEF DepositEncrypted, vault, balances, VaultTypeOK
  <1>6. ASSUME NEW leg \in Legs, LockCreditForDeal(leg) PROVE VaultTypeOK'
    <2>1. OwnerOf(leg) \in Owners /\ plan[leg] \in Nat BY Names DEF FundingTypeOK
    <2>2. QED BY <1>6, <2>1, LockCreditType DEF LockCreditForDeal
  <1>7. ASSUME NEW leg \in Legs, EmergencyRefundAfterTimeout(leg) PROVE VaultTypeOK'
    <2>1. OwnerOf(leg) \in Owners /\ lock[leg].amount \in Nat BY Names DEF FundingTypeOK
    <2>2. QED BY <1>7, <2>1, RefundCreditType DEF EmergencyRefundAfterTimeout
  <1>8. ASSUME CancelDeal \/ RequestSettlementDecryption \/ ApproveCrossChain \/ RevealAndRelease \/ Tick
        PROVE  UNCHANGED ledger
    BY <1>8 DEF CancelDeal, RequestSettlementDecryption, ApproveCrossChain, RevealAndRelease, Tick
  <1>9. ASSUME NEW p \in Parties, NEW n, NEW e,
               \/ SubmitReleaseApproval(p, n, e) \/ ConfirmRelease(n, e)
               \/ RevokeReleaseApproval(p, n) \/ OpenReleaseDispute(p, n)
        PROVE  UNCHANGED ledger
    BY <1>9 DEF SubmitReleaseApproval, ConfirmRelease, RevokeReleaseApproval, OpenReleaseDispute
  <1>10. ASSUME NEW S \in SUBSET Parties, ResolveReleaseDispute(S) PROVE UNCHANGED ledger
    BY <1>10 DEF ResolveReleaseDispute
  <1>11. ASSUME NEW p \in Parties, ResolveElsewhere(p) PROVE UNCHANGED ledger
    BY <1>11 DEF ResolveElsewhere
  <1>12. ASSUME NEW valid \in BOOLEAN, SettleLockedCredit(valid) PROVE VaultTypeOK'
    <2>1. held' \in [Owners -> Nat] /\ available' \in [Owners -> Nat]
      BY <1>12, SettleExpanded, SettlementBackType, TransferType, Names
    <2>2. encumbered' \in Nat
      <3>1. encumbered \in Nat BY DEF VaultTypeOK
      <3>2. QED BY <1>12, <3>1, SettleExpanded, SettlementBackType, Names
    <2>3. UNCHANGED <<wallet, reserve, issued, pending, withdrawal>> BY <1>12, SettleExpanded
    <2>4. QED BY <2>1, <2>2, <2>3 DEF VaultTypeOK
  <1>13. CASE UNCHANGED vars
    BY <1>1, <1>13 DEF vars
  <1>14. QED
    BY <1>1, <1>2, <1>3, <1>4, <1>5, <1>6, <1>7, <1>8, <1>9, <1>10, <1>11, <1>12, <1>13 DEF Next

\* What a payload does to the release state keeps its types.
LEMMA SignedType ==
    ASSUME ConsentTypeOK, FundingTypeOK, NEW p \in Parties, NEW kind \in Kinds, NEW n \in Nat, NEW e \in Nat,
           Signed(p, kind, n, e)
    PROVE  /\ approval' \in [Parties -> [kind : Kinds, expires : Nat, active : BOOLEAN]]
           /\ nonce' \in [Parties -> Nat]
           /\ authorized' \in BOOLEAN /\ changed' \in Nat
  <1>1. [kind |-> kind, expires |-> e, active |-> kind \in {"Approve", "Confirm"}]
           \in [kind : Kinds, expires : Nat, active : BOOLEAN]
    OBVIOUS
  <1>2. approval' \in [Parties -> [kind : Kinds, expires : Nat, active : BOOLEAN]]
    BY <1>1 DEF Signed, ConsentTypeOK
  <1>3. now \in Nat BY DealAssumption DEF FundingTypeOK
  <1>4. QED BY <1>2, <1>3 DEF Signed, ConsentTypeOK

LEMMA Payloads ==
    /\ \A p \in Parties : Numbered(p) \subseteq Nat \ {0}
    /\ Expiries \subseteq Nat /\ Window \in Nat
    /\ Kinds = {"none", "Approve", "Revoke", "Confirm", "Dispute"}
    /\ "buyer" \in Parties
  BY DealAssumption DEF Numbered, Parties, Kinds

LEMMA DeactivatedType ==
    ASSUME ConsentTypeOK, NEW S \in SUBSET Parties
    PROVE  Deactivated(S) \in [Parties -> [kind : Kinds, expires : Nat, active : BOOLEAN]]
  BY DEF ConsentTypeOK, Deactivated

LEMMA NextConsentType == TypeOK /\ [Next]_vars => ConsentTypeOK'
  <1> SUFFICES ASSUME TypeOK, [Next]_vars PROVE ConsentTypeOK'
    OBVIOUS
  <1> USE TypeParts
  <1>0. now \in Nat BY DealAssumption DEF FundingTypeOK
  <1>1. ASSUME UNCHANGED consent PROVE ConsentTypeOK'
    BY <1>1 DEF consent, ConsentTypeOK
  <1>2. ASSUME Credit PROVE UNCHANGED consent
    BY <1>2 DEF Credit, dealVars, consent
  <1>3. ASSUME NEW b \in Bets, CreateConfidentialDeal(b) PROVE UNCHANGED consent
    BY <1>3 DEF CreateConfidentialDeal
  <1>4. ASSUME NEW amounts \in Plans, RegisterPrivateFundingCommitments(amounts)
        PROVE  UNCHANGED consent
    BY <1>4 DEF RegisterPrivateFundingCommitments
  <1>5. ASSUME NEW leg \in Legs,
               DepositEncrypted(leg) \/ LockCreditForDeal(leg) \/ EmergencyRefundAfterTimeout(leg)
        PROVE  UNCHANGED consent
    BY <1>5 DEF DepositEncrypted, LockCreditForDeal, EmergencyRefundAfterTimeout
  <1>6. ASSUME CancelDeal \/ RequestSettlementDecryption \/ RevealAndRelease
        PROVE  UNCHANGED consent
    BY <1>6 DEF CancelDeal, RequestSettlementDecryption, RevealAndRelease
  <1>7. ASSUME NEW p \in Parties, NEW n \in Numbered(p), NEW e \in Expiries, SubmitReleaseApproval(p, n, e)
        PROVE  ConsentTypeOK'
    <2>1. Signed(p, "Approve", n, e) BY <1>7 DEF SubmitReleaseApproval
    <2>2. n \in Nat /\ e \in Nat /\ "Approve" \in Kinds BY Payloads
    <2>3. /\ approval' \in [Parties -> [kind : Kinds, expires : Nat, active : BOOLEAN]]
          /\ nonce' \in [Parties -> Nat] /\ authorized' \in BOOLEAN /\ changed' \in Nat
      BY <2>1, <2>2, SignedType
    <2>4. confirmed' \in BOOLEAN BY <1>7 DEF SubmitReleaseApproval
    <2>5. QED BY <1>7, <2>3, <2>4 DEF SubmitReleaseApproval, ConsentTypeOK
  <1>8. ASSUME NEW n \in Numbered("buyer"), NEW e \in Expiries, ConfirmRelease(n, e)
        PROVE  ConsentTypeOK'
    <2>1. Signed("buyer", "Confirm", n, e) BY <1>8 DEF ConfirmRelease
    <2>2. n \in Nat /\ e \in Nat /\ "Confirm" \in Kinds /\ "buyer" \in Parties BY Payloads
    <2>3. /\ approval' \in [Parties -> [kind : Kinds, expires : Nat, active : BOOLEAN]]
          /\ nonce' \in [Parties -> Nat] /\ authorized' \in BOOLEAN /\ changed' \in Nat
      BY <2>1, <2>2, SignedType
    <2>4. deadline' \in Nat /\ confirmed' \in BOOLEAN
      BY <1>0, <1>8, Payloads DEF ConfirmRelease
    <2>5. QED BY <1>8, <2>3, <2>4 DEF ConfirmRelease, ConsentTypeOK
  <1>9. ASSUME NEW p \in Parties, NEW n \in Numbered(p), RevokeReleaseApproval(p, n)
        PROVE  ConsentTypeOK'
    <2>1. Signed(p, "Revoke", n, 0) BY <1>9 DEF RevokeReleaseApproval
    <2>2. n \in Nat /\ "Revoke" \in Kinds BY Payloads
    <2>3. /\ approval' \in [Parties -> [kind : Kinds, expires : Nat, active : BOOLEAN]]
          /\ nonce' \in [Parties -> Nat] /\ authorized' \in BOOLEAN /\ changed' \in Nat
      BY <2>1, <2>2, SignedType
    <2>4. confirmed' \in BOOLEAN BY <1>9 DEF RevokeReleaseApproval
    <2>5. withdrawn' \in [Parties -> Nat] BY <1>9, <2>2 DEF RevokeReleaseApproval, ConsentTypeOK
    <2>6. QED BY <1>9, <2>3, <2>4, <2>5 DEF RevokeReleaseApproval, ConsentTypeOK
  <1>10. ASSUME NEW p \in Parties, NEW n \in Numbered(p), OpenReleaseDispute(p, n)
        PROVE  ConsentTypeOK'
    <2>1. Signed(p, "Dispute", n, 0) BY <1>10 DEF OpenReleaseDispute
    <2>2. n \in Nat /\ "Dispute" \in Kinds BY Payloads
    <2>3. /\ approval' \in [Parties -> [kind : Kinds, expires : Nat, active : BOOLEAN]]
          /\ nonce' \in [Parties -> Nat] /\ authorized' \in BOOLEAN /\ changed' \in Nat
      BY <2>1, <2>2, SignedType
    <2>4. confirmed' \in BOOLEAN BY <1>10 DEF OpenReleaseDispute
    <2>5. withdrawn' \in [Parties -> Nat] BY <1>10, <2>2 DEF OpenReleaseDispute, ConsentTypeOK
    <2>6. QED BY <1>10, <2>3, <2>4, <2>5 DEF OpenReleaseDispute, ConsentTypeOK
  <1>11. ASSUME NEW S \in SUBSET Parties, ResolveReleaseDispute(S) PROVE ConsentTypeOK'
    <2>1. approval' \in [Parties -> [kind : Kinds, expires : Nat, active : BOOLEAN]]
      BY <1>11, DeactivatedType DEF ResolveReleaseDispute
    <2>2. confirmed' \in BOOLEAN /\ authorized' \in BOOLEAN /\ approved' \in SUBSET Parties
      BY <1>11 DEF ResolveReleaseDispute, ApprovalsLeft
    <2>3. QED BY <1>0, <1>11, <2>1, <2>2 DEF ResolveReleaseDispute, ConsentTypeOK
  <1>12. ASSUME NEW p \in Parties, ResolveElsewhere(p) PROVE ConsentTypeOK'
    <2>1. approval' \in [Parties -> [kind : Kinds, expires : Nat, active : BOOLEAN]]
      <3>1. {p} \in SUBSET Parties OBVIOUS
      <3>2. QED BY <1>12, <3>1, DeactivatedType DEF ResolveElsewhere
    <2>2. QED BY <1>12, <2>1 DEF ResolveElsewhere, ConsentTypeOK
  <1>13. ASSUME ApproveCrossChain PROVE ConsentTypeOK'
    <2>1. authorized' \in BOOLEAN BY <1>13 DEF ApproveCrossChain
    <2>2. QED BY <1>13, <2>1 DEF ApproveCrossChain, ConsentTypeOK
  <1>14. ASSUME NEW valid \in BOOLEAN, SettleLockedCredit(valid) PROVE UNCHANGED consent
    BY <1>14 DEF SettleLockedCredit
  <1>15. ASSUME Tick \/ UNCHANGED vars PROVE UNCHANGED consent
    BY <1>15 DEF Tick, vars, dealVars, consent
  <1>16. QED
    BY <1>1, <1>2, <1>3, <1>4, <1>5, <1>6, <1>7, <1>8, <1>9, <1>10, <1>11, <1>12, <1>13, <1>14, <1>15
    DEF Next

\* A deal that can still be funded is not disputed, whatever becomes of it.
LEMMA NextFundingType == TypeOK /\ [Next]_vars => FundingTypeOK'
  <1> SUFFICES ASSUME TypeOK, [Next]_vars PROVE FundingTypeOK'
    OBVIOUS
  <1> USE TypeParts
  <1>1. ASSUME UNCHANGED <<now, funding, dispute_open, bet, requested, executed>> PROVE FundingTypeOK'
    BY <1>1 DEF funding, FundingTypeOK
  <1>2. ASSUME Credit \/ UNCHANGED vars PROVE FundingTypeOK'
    BY <1>1, <1>2 DEF Credit, vars, dealVars, funding
  <1>3. ASSUME NEW b \in Bets, CreateConfidentialDeal(b) PROVE FundingTypeOK'
    <2>1. b \in Nat BY DealAssumption
    <2>2. status' \in {"Funded", "Created"} /\ dispute_open' = FALSE
      BY <1>3 DEF CreateConfidentialDeal, FundingTypeOK
    <2>3. bet' \in Nat /\ lamports' \in Nat BY <1>3, <2>1 DEF CreateConfidentialDeal
    <2>4. UNCHANGED <<now, tier, registered, plan, deposited, lock, requested, executed>>
      BY <1>3 DEF CreateConfidentialDeal
    <2>5. QED BY <2>2, <2>3, <2>4 DEF FundingTypeOK
  <1>4. ASSUME NEW amounts \in Plans, RegisterPrivateFundingCommitments(amounts)
        PROVE  FundingTypeOK'
    <2>1. amounts \in [Legs -> Nat] BY DealAssumption
    <2>2. QED BY <1>4, <2>1 DEF RegisterPrivateFundingCommitments, FundingTypeOK
  <1>5. ASSUME NEW leg \in Legs, DepositEncrypted(leg) PROVE FundingTypeOK'
    <2>1. status' \in {"PartiallyFunded", "Funded"} /\ dispute_open' = FALSE
      BY <1>5 DEF DepositEncrypted, Fundable, StatusWith, FundingTypeOK
    <2>2. (IF registered THEN plan[leg] ELSE bet) \in Nat BY DEF FundingTypeOK
    <2>3. lamports' \in Nat BY <1>5, <2>2 DEF DepositEncrypted, FundingTypeOK
    <2>4. deposited' \in SUBSET Legs BY <1>5 DEF DepositEncrypted, FundingTypeOK
    <2>5. /\ tier' = "DirectSol"
          /\ UNCHANGED <<now, bet, registered, plan, lock, requested, executed>>
      BY <1>5 DEF DepositEncrypted
    <2>6. QED BY <2>1, <2>3, <2>4, <2>5 DEF FundingTypeOK
  <1>6. ASSUME NEW leg \in Legs, LockCreditForDeal(leg) PROVE FundingTypeOK'
    <2>1. status' \in {"PartiallyFunded", "Funded"} /\ dispute_open' = FALSE
      BY <1>6 DEF LockCreditForDeal, Fundable, StatusWith, FundingTypeOK
    <2>2. [state |-> "open", amount |-> plan[leg]] \in [state : LockStates, amount : Nat]
      BY DEF FundingTypeOK, LockStates
    <2>3. lock' \in [Legs -> [state : LockStates, amount : Nat]]
      BY <1>6, <2>2 DEF LockCreditForDeal, FundingTypeOK
    <2>4. deposited' \in SUBSET Legs BY <1>6 DEF LockCreditForDeal, FundingTypeOK
    <2>5. /\ tier' = "ShieldedCredit"
          /\ UNCHANGED <<now, bet, registered, plan, lamports, requested, executed>>
      BY <1>6 DEF LockCreditForDeal
    <2>6. QED BY <2>1, <2>3, <2>4, <2>5 DEF FundingTypeOK
  <1>7. ASSUME NEW leg \in Legs, EmergencyRefundAfterTimeout(leg) PROVE FundingTypeOK'
    <2>1. lock' \in [Legs -> [state : LockStates, amount : Nat]]
      BY <1>7 DEF EmergencyRefundAfterTimeout, FundingTypeOK, LockStates
    <2>2. UNCHANGED <<now, status, tier, dispute_open, bet, registered, plan, deposited, lamports,
                      requested, executed>>
      BY <1>7 DEF EmergencyRefundAfterTimeout
    <2>3. QED BY <2>1, <2>2 DEF FundingTypeOK
  <1>8. ASSUME CancelDeal PROVE FundingTypeOK'
    <2>1. status' = "Cancelled" /\ dispute_open' = FALSE /\ lamports' = 0
      BY <1>8 DEF CancelDeal, Fundable, FundingTypeOK
    <2>2. UNCHANGED <<now, tier, bet, registered, plan, deposited, lock, requested, executed>>
      BY <1>8 DEF CancelDeal
    <2>3. QED BY <2>1, <2>2 DEF FundingTypeOK
  <1>9. ASSUME RequestSettlementDecryption PROVE FundingTypeOK'
    <2>1. status' = "Settling" /\ dispute_open' = FALSE /\ requested' = TRUE
      BY <1>9 DEF RequestSettlementDecryption, FundingTypeOK
    <2>2. UNCHANGED <<now, tier, bet, registered, plan, deposited, lamports, lock, executed>>
      BY <1>9 DEF RequestSettlementDecryption
    <2>3. QED BY <2>1, <2>2 DEF FundingTypeOK
  <1>10. ASSUME NEW p \in Parties, NEW n, NEW e,
                SubmitReleaseApproval(p, n, e) \/ ConfirmRelease(n, e) \/ RevokeReleaseApproval(p, n)
         PROVE  UNCHANGED <<now, funding, dispute_open, bet, requested, executed>>
    BY <1>10 DEF SubmitReleaseApproval, ConfirmRelease, RevokeReleaseApproval
  <1>11. ASSUME NEW p \in Parties, NEW n, OpenReleaseDispute(p, n) PROVE FundingTypeOK'
    <2>1. status' = "Disputed" /\ dispute_open' = TRUE BY <1>11 DEF OpenReleaseDispute
    <2>2. UNCHANGED <<now, tier, bet, registered, plan, deposited, lamports, lock, requested, executed>>
      BY <1>11 DEF OpenReleaseDispute
    <2>3. QED BY <2>1, <2>2 DEF FundingTypeOK
  <1>12. ASSUME NEW S \in SUBSET Parties, ResolveReleaseDispute(S) PROVE FundingTypeOK'
    <2>1. status' = "Settling" /\ dispute_open' = FALSE
      BY <1>12 DEF ResolveReleaseDispute, Resolved, FundingTypeOK
    <2>2. UNCHANGED <<now, tier, bet, registered, plan, deposited, lamports, lock, requested, executed>>
      BY <1>12 DEF ResolveReleaseDispute
    <2>3. QED BY <2>1, <2>2 DEF FundingTypeOK
  <1>13. ASSUME (\E p \in Parties : ResolveElsewhere(p)) \/ ApproveCrossChain
         PROVE  UNCHANGED <<now, funding, dispute_open, bet, requested, executed>>
    BY <1>13 DEF ResolveElsewhere, ApproveCrossChain
  <1>14. ASSUME RevealAndRelease PROVE FundingTypeOK'
    <2>1. Payout \in Nat BY Names DEF Payout, FundingTypeOK
    <2>2. status' = "Completed" /\ dispute_open' = FALSE /\ executed' = TRUE
      BY <1>14 DEF RevealAndRelease, FundingTypeOK
    <2>3. lamports' \in Nat BY <1>14, <2>1 DEF RevealAndRelease, FundingTypeOK
    <2>4. UNCHANGED <<now, tier, bet, registered, plan, deposited, lock, requested>>
      BY <1>14 DEF RevealAndRelease
    <2>5. QED BY <2>2, <2>3, <2>4 DEF FundingTypeOK
  <1>15. ASSUME NEW valid \in BOOLEAN, SettleLockedCredit(valid) PROVE FundingTypeOK'
    <2>1. lock' \in [Legs -> [state : LockStates, amount : Nat]]
      BY <1>15, SettleExpanded DEF FundingTypeOK, LockStates
    <2>2. status' = "Completed" /\ dispute_open' = FALSE /\ executed' = TRUE
      BY <1>15 DEF SettleLockedCredit, Releasable, FundingTypeOK
    <2>3. UNCHANGED <<now, tier, bet, registered, plan, deposited, lamports, requested>>
      BY <1>15 DEF SettleLockedCredit
    <2>4. QED BY <2>1, <2>2, <2>3 DEF FundingTypeOK
  <1>16. ASSUME Tick PROVE FundingTypeOK'
    <2>1. now' \in 0..MaxTime BY <1>16, DealAssumption DEF Tick, FundingTypeOK
    <2>2. UNCHANGED <<funding, dispute_open, bet, requested, executed>>
      BY <1>16 DEF Tick, dealVars, funding
    <2>3. QED BY <2>1, <2>2 DEF funding, FundingTypeOK
  <1>17. QED
    BY <1>1, <1>2, <1>3, <1>4, <1>5, <1>6, <1>7, <1>8, <1>9, <1>10, <1>11, <1>12, <1>13, <1>14, <1>15, <1>16
    DEF Next

\* Type correctness: every reachable state is of the declared types.
THEOREM TypeCorrect == Spec => []TypeOK
  <1>1. Init => TypeOK BY InitType
  <1>2. TypeOK /\ [Next]_vars => TypeOK'
    <2>1. ASSUME VaultTypeOK', FundingTypeOK', ConsentTypeOK' PROVE TypeOK'
      BY <2>1, TypeParts DEF TypeOK, FundingTypeOK, ConsentTypeOK
    <2>2. QED BY <2>1, NextVaultType, NextFundingType, NextConsentType
  <1>3. QED BY <1>1, <1>2, PTL DEF Spec

-----------------------------------------------------------------------------
(* The consent of the parties.  Only payloads, resolutions and the approval *)
(* of the release touch it.                                                *)

\* The actions that leave the consent and the mark of a dispute alone.
QuietConsent ==
    \/ UNCHANGED <<consent, dispute_open, now>>
    \/ UNCHANGED <<consent, dispute_open>> /\ now' = now + 1

LEMMA QuietStep ==
    ASSUME TypeOK, [Next]_vars
    PROVE  \/ QuietConsent
           \/ \E p \in Parties, n \in Nat, e \in Nat :
                 \/ SubmitReleaseApproval(p, n, e)
                 \/ ConfirmRelease(n, e)
                 \/ RevokeReleaseApproval(p, n)
                 \/ OpenReleaseDispute(p, n)
           \/ \E S \in SUBSET Parties : ResolveReleaseDispute(S)
           \/ \E p \in Parties : ResolveElsewhere(p)
           \/ ApproveCrossChain
  <1>1. ASSUME Credit \/ UNCHANGED vars PROVE QuietConsent
    BY <1>1 DEF Credit, vars, dealVars, consent, QuietConsent
  <1>2. ASSUME Tick PROVE QuietConsent
    BY <1>2 DEF Tick, dealVars, consent, QuietConsent
  <1>3. ASSUME NEW b \in Bets, CreateConfidentialDeal(b) PROVE QuietConsent
    BY <1>3 DEF CreateConfidentialDeal, QuietConsent
  <1>4. ASSUME NEW amounts \in Plans, RegisterPrivateFundingCommitments(amounts) PROVE QuietConsent
    BY <1>4 DEF RegisterPrivateFundingCommitments, QuietConsent
  <1>5. ASSUME NEW leg \in Legs,
               DepositEncrypted(leg) \/ LockCreditForDeal(leg) \/ EmergencyRefundAfterTimeout(leg)
        PROVE  QuietConsent
    BY <1>5 DEF DepositEncrypted, LockCreditForDeal, EmergencyRefundAfterTimeout, QuietConsent
  <1>6. ASSUME CancelDeal \/ RequestSettlementDecryption \/ RevealAndRelease PROVE QuietConsent
    BY <1>6 DEF CancelDeal, RequestSettlementDecryption, RevealAndRelease, QuietConsent
  <1>7. ASSUME NEW valid \in BOOLEAN, SettleLockedCredit(valid) PROVE QuietConsent
    BY <1>7 DEF SettleLockedCredit, QuietConsent
  <1>8. ASSUME NEW p \in Parties, NEW n \in Numbered(p),
               \/ \E e \in Expiries : SubmitReleaseApproval(p, n, e) \/ (p = "buyer" /\ ConfirmRelease(n, e))
               \/ RevokeReleaseApproval(p, n)
               \/ OpenReleaseDispute(p, n)
        PROVE  \E q \in Parties, m \in Nat, e \in Nat :
                 \/ SubmitReleaseApproval(q, m, e)
                 \/ ConfirmRelease(m, e)
                 \/ RevokeReleaseApproval(q, m)
                 \/ OpenReleaseDispute(q, m)
    BY <1>8, Payloads
  <1>9. QED
    BY <1>1, <1>2, <1>3, <1>4, <1>5, <1>6, <1>7, <1>8 DEF Next

LEMMA NextNonceOrder == TypeOK /\ NonceOrder /\ [Next]_vars => NonceOrder'
  <1> SUFFICES ASSUME TypeOK, NonceOrder, [Next]_vars PROVE NonceOrder'
    OBVIOUS
  <1>0. ConsentTypeOK BY TypeParts
  <1>1. CASE QuietConsent
    BY <1>1 DEF QuietConsent, consent, NonceOrder
  <1>2. ASSUME NEW p \in Parties, NEW n \in Nat, NEW e \in Nat, SubmitReleaseApproval(p, n, e)
        PROVE  NonceOrder'
    BY <1>0, <1>2 DEF SubmitReleaseApproval, Signed, FreshNonce, NonceOrder, ConsentTypeOK
  <1>3. ASSUME NEW n \in Nat, NEW e \in Nat, ConfirmRelease(n, e) PROVE NonceOrder'
    BY <1>0, <1>3 DEF ConfirmRelease, Signed, FreshNonce, NonceOrder, ConsentTypeOK
  <1>4. ASSUME NEW p \in Parties, NEW n \in Nat, RevokeReleaseApproval(p, n) PROVE NonceOrder'
    BY <1>0, <1>4 DEF RevokeReleaseApproval, Signed, FreshNonce, NonceOrder, ConsentTypeOK
  <1>5. ASSUME NEW p \in Parties, NEW n \in Nat, OpenReleaseDispute(p, n) PROVE NonceOrder'
    <2>1. /\ n > nonce[p]
          /\ nonce' = [nonce EXCEPT ![p] = n] /\ withdrawn' = [withdrawn EXCEPT ![p] = n]
          /\ approval' = [approval EXCEPT ![p] = [kind |-> "Dispute", expires |-> 0,
                                                  active |-> "Dispute" \in {"Approve", "Confirm"}]]
      BY <1>5 DEF OpenReleaseDispute, Signed, FreshNonce
    <2>2. ~approval'[p].active BY <1>0, <2>1 DEF ConsentTypeOK
    <2>3. QED BY <1>0, <2>1, <2>2 DEF NonceOrder, ConsentTypeOK
  <1>6. ASSUME NEW S \in SUBSET Parties, ResolveReleaseDispute(S) PROVE NonceOrder'
    BY <1>0, <1>6 DEF ResolveReleaseDispute, Deactivated, NonceOrder, ConsentTypeOK
  <1>7. ASSUME NEW p \in Parties, ResolveElsewhere(p) PROVE NonceOrder'
    BY <1>0, <1>7 DEF ResolveElsewhere, Deactivated, NonceOrder, ConsentTypeOK
  <1>8. CASE ApproveCrossChain
    BY <1>8 DEF ApproveCrossChain, NonceOrder
  <1>9. QED BY <1>1, <1>2, <1>3, <1>4, <1>5, <1>6, <1>7, <1>8, QuietStep

LEMMA NextConsentOrder == TypeOK /\ ConsentOrder /\ [Next]_vars => ConsentOrder'
  <1> SUFFICES ASSUME TypeOK, ConsentOrder, [Next]_vars PROVE ConsentOrder'
    OBVIOUS
  <1>0. /\ now \in Nat /\ changed \in Nat /\ deadline \in Nat /\ Window \in Nat
        /\ approved \subseteq Parties /\ agreed \subseteq Parties
    BY TypeParts, DealAssumption DEF FundingTypeOK, ConsentTypeOK
  <1>1. CASE QuietConsent
    <2>1. now' = now \/ now' = now + 1 BY <1>1 DEF QuietConsent
    <2>2. UNCHANGED <<dispute_open, approved, agreed, confirmed, authorized, deadline, changed>>
      BY <1>1 DEF QuietConsent, consent
    <2>3. authorized => now' >= changed + Window BY <1>0, <2>1 DEF ConsentOrder
    <2>4. QED BY <2>2, <2>3 DEF ConsentOrder
  <1>2. ASSUME NEW p \in Parties, NEW n \in Nat, NEW e \in Nat, SubmitReleaseApproval(p, n, e)
        PROVE  ConsentOrder'
    <2>1. ~authorized' /\ deadline' = 0 /\ dispute_open' = dispute_open /\ ~dispute_open
      BY <1>2 DEF SubmitReleaseApproval, Signed, Negotiable
    <2>2. approved' \subseteq agreed' BY <1>2, <2>1 DEF SubmitReleaseApproval, ConsentOrder
    <2>3. confirmed' => approved' = Parties BY <1>2 DEF SubmitReleaseApproval, ConsentOrder
    <2>4. ~(deadline' > 0) BY <2>1
    <2>5. QED BY <2>1, <2>2, <2>3, <2>4 DEF ConsentOrder
  <1>3. ASSUME NEW n \in Nat, NEW e \in Nat, ConfirmRelease(n, e) PROVE ConsentOrder'
    <2>1. /\ ~authorized' /\ ~dispute_open /\ approved = Parties
          /\ UNCHANGED <<dispute_open, approved, agreed>>
          /\ deadline' = now + Window /\ changed' = now
      BY <1>3 DEF ConfirmRelease, Signed, Negotiable
    <2>2. deadline' = changed' + Window BY <2>1
    <2>3. QED BY <2>1, <2>2 DEF ConsentOrder
  <1>4. ASSUME NEW p \in Parties, NEW n \in Nat, RevokeReleaseApproval(p, n) PROVE ConsentOrder'
    <2>1. ~authorized' /\ ~confirmed' /\ deadline' = 0 /\ dispute_open' = dispute_open
      BY <1>4 DEF RevokeReleaseApproval, Signed
    <2>2. dispute_open \/ approved' \subseteq agreed' BY <1>4 DEF RevokeReleaseApproval, ConsentOrder
    <2>3. ~(deadline' > 0) BY <2>1
    <2>4. QED BY <2>1, <2>2, <2>3 DEF ConsentOrder
  <1>5. ASSUME NEW p \in Parties, NEW n \in Nat, OpenReleaseDispute(p, n) PROVE ConsentOrder'
    <2>1. ~authorized' /\ ~confirmed' /\ deadline' = 0 /\ dispute_open'
      BY <1>5 DEF OpenReleaseDispute, Signed
    <2>2. ~(deadline' > 0) BY <2>1
    <2>3. QED BY <2>1, <2>2 DEF ConsentOrder
  <1>6. ASSUME NEW S \in SUBSET Parties, ResolveReleaseDispute(S) PROVE ConsentOrder'
    <2>1. ~authorized' /\ ~confirmed' /\ deadline' = 0 /\ approved' = {}
      BY <1>6 DEF ResolveReleaseDispute, ApprovalsLeft
    <2>2. ~(deadline' > 0) BY <2>1
    <2>3. QED BY <2>1, <2>2 DEF ConsentOrder
  <1>7. ASSUME NEW p \in Parties, ResolveElsewhere(p) PROVE ConsentOrder'
    <2>1. UNCHANGED <<now, dispute_open, approved, agreed, confirmed, authorized, deadline, changed>>
      BY <1>7 DEF ResolveElsewhere
    <2>2. QED BY <2>1 DEF ConsentOrder
  <1>8. CASE ApproveCrossChain
    <2>1. /\ ~dispute_open /\ confirmed /\ deadline > 0 /\ now >= deadline
          /\ UNCHANGED <<now, dispute_open, approved, agreed, confirmed, deadline, changed>>
      BY <1>8 DEF ApproveCrossChain, Negotiable
    <2>2. agreed = Parties BY <1>0, <2>1 DEF ConsentOrder
    <2>3. now >= changed + Window BY <1>0, <2>1 DEF ConsentOrder
    <2>4. QED BY <2>1, <2>2, <2>3 DEF ConsentOrder
  <1>9. QED BY <1>1, <1>2, <1>3, <1>4, <1>5, <1>6, <1>7, <1>8, QuietStep

-----------------------------------------------------------------------------
(* The ledger.  Each operator moves equal amounts on both sides.            *)

\* The part of LedgerBalanced about the totals, and the part about the locks.
TotalsBalanced ==
    /\ reserve = issued + pending
    /\ issued = available["buyer"] + held["buyer"] + available["seller"] + held["seller"]
    /\ encumbered = held["buyer"] + held["seller"]
LocksBalanced ==
    /\ held["buyer"] = OpenAmount("BuyerPayment") + OpenAmount("BuyerCollateral")
    /\ held["seller"] = OpenAmount("SellerCollateral")

BooksBalanced == TotalsBalanced /\ LocksBalanced

\* The part about the withdrawals: what is pending is what is queued.
QueueCounted == pending = Holdings(Queued)

LEMMA LedgerParts == LedgerBalanced <=> BooksBalanced /\ QueueCounted
  BY DEF LedgerBalanced, BooksBalanced, TotalsBalanced, LocksBalanced, QueueCounted

LEMMA VaultNumbers ==
    ASSUME VaultTypeOK
    PROVE  /\ reserve \in Nat /\ issued \in Nat /\ encumbered \in Nat /\ pending \in Nat
           /\ available \in [Owners -> Nat] /\ held \in [Owners -> Nat]
           /\ Owners = {"buyer", "seller"}
           /\ available["buyer"] \in Nat /\ available["seller"] \in Nat
           /\ held["buyer"] \in Nat /\ held["seller"] \in Nat
  BY Names DEF VaultTypeOK

LEMMA DepositCreditBalanced ==
    ASSUME VaultTypeOK, TotalsBalanced, NEW o \in Owners, NEW n \in Nat, DepositSolForCredit(o, n)
    PROVE  TotalsBalanced' /\ held' = held
  <1>1. CASE o = "buyer"
    BY <1>1, VaultNumbers DEF DepositSolForCredit, TotalsBalanced
  <1>2. CASE o = "seller"
    BY <1>2, VaultNumbers DEF DepositSolForCredit, TotalsBalanced
  <1>3. QED BY <1>1, <1>2, VaultNumbers

LEMMA LockCreditBalanced ==
    ASSUME VaultTypeOK, TotalsBalanced, NEW o \in Owners, NEW n \in Nat, LockCredit(o, n)
    PROVE  /\ TotalsBalanced'
           /\ held' = [held EXCEPT ![o] = @ + n] /\ available' = [available EXCEPT ![o] = @ - n]
  <1>1. CASE o = "buyer" BY <1>1, VaultNumbers DEF LockCredit, TotalsBalanced
  <1>2. CASE o = "seller" BY <1>2, VaultNumbers DEF LockCredit, TotalsBalanced
  <1>3. held' = [held EXCEPT ![o] = @ + n] /\ available' = [available EXCEPT ![o] = @ - n]
    BY DEF LockCredit
  <1>4. QED BY <1>1, <1>2, <1>3, VaultNumbers

LEMMA RefundCreditBalanced ==
    ASSUME VaultTypeOK, TotalsBalanced, NEW o \in Owners, NEW n \in Nat, RefundCredit(o, n)
    PROVE  /\ TotalsBalanced'
           /\ held' = [held EXCEPT ![o] = @ - n] /\ available' = [available EXCEPT ![o] = @ + n]
  <1>1. CASE o = "buyer" BY <1>1, VaultNumbers DEF RefundCredit, TotalsBalanced
  <1>2. CASE o = "seller" BY <1>2, VaultNumbers DEF RefundCredit, TotalsBalanced
  <1>3. held' = [held EXCEPT ![o] = @ - n] /\ available' = [available EXCEPT ![o] = @ + n]
    BY DEF RefundCredit
  <1>4. QED BY <1>1, <1>2, <1>3, VaultNumbers

LEMMA QueueBalanced ==
    ASSUME VaultTypeOK, TotalsBalanced, NEW w, NEW o \in Owners, NEW n \in Nat, NEW t,
           QueueWithdrawal(w, o, n, t)
    PROVE  TotalsBalanced' /\ held' = held
  <1>1. CASE o = "buyer" BY <1>1, VaultNumbers DEF QueueWithdrawal, TotalsBalanced
  <1>2. CASE o = "seller" BY <1>2, VaultNumbers DEF QueueWithdrawal, TotalsBalanced
  <1>3. QED BY <1>1, <1>2, VaultNumbers

LEMMA ExecuteBalanced ==
    ASSUME VaultTypeOK, TotalsBalanced, NEW w \in Withdrawals, NEW t, ExecuteWithdrawal(w, t)
    PROVE  TotalsBalanced' /\ held' = held /\ available' = available
  <1>1. withdrawal[w].amount \in Nat
    BY VaultAssumption DEF ExecuteWithdrawal, VaultTypeOK, WithdrawalRecords
  <1>2. reserve' = issued' + pending'
    BY <1>1, VaultNumbers DEF ExecuteWithdrawal, TotalsBalanced
  <1>3. UNCHANGED <<issued, available, held, encumbered>> BY DEF ExecuteWithdrawal
  <1>4. QED BY <1>2, <1>3 DEF TotalsBalanced

\* A settlement moves the three locked amounts to the available credit, and no more.
LEMMA SettleBalanced ==
    ASSUME TypeOK, BooksBalanced, NEW valid \in BOOLEAN, SettleLockedCredit(valid)
    PROVE  BooksBalanced'
  <1> DEFINE pay == lock["BuyerPayment"].amount
             mine == lock["BuyerCollateral"].amount
             yours == lock["SellerCollateral"].amount
             moved == IF valid THEN pay ELSE 0
             kept == IF valid THEN 0 ELSE pay
  <1>1. pay \in Nat /\ mine \in Nat /\ yours \in Nat /\ moved \in Nat /\ kept \in Nat
        /\ moved + kept = pay
    BY TypeParts, SettlementBackType, Names
  <1>2. /\ OpenAmount("BuyerPayment") = pay /\ OpenAmount("BuyerCollateral") = mine
        /\ OpenAmount("SellerCollateral") = yours
    BY TypeParts, SettleExpanded, Names DEF OpenAmount
  <1>3. \A leg \in Legs : OpenAmount(leg)' = 0
    BY TypeParts, SettleExpanded DEF OpenAmount, FundingTypeOK
  <1>4. held["buyer"] = pay + mine /\ held["seller"] = yours
    BY <1>2 DEF BooksBalanced, LocksBalanced
  <1>5. /\ SettlementBack(valid)["buyer"] = mine + kept /\ SettlementBack(valid)["seller"] = yours
        /\ TransferCredit(SettlementBack(valid), "buyer", "seller", moved)
    BY TypeParts, SettleExpanded, SettlementBackType
  <1> HIDE DEF pay, mine, yours, moved, kept
  <1>6. /\ held'["buyer"] = held["buyer"] - (mine + kept) - moved
        /\ held'["seller"] = held["seller"] - yours
        /\ available'["buyer"] = available["buyer"] + (mine + kept)
        /\ available'["seller"] = available["seller"] + yours + moved
    BY <1>1, <1>5, TypeParts, VaultNumbers DEF TransferCredit
  <1>7. held'["buyer"] = 0 /\ held'["seller"] = 0
    BY <1>1, <1>4, <1>6
  <1>8. encumbered' = 0
    <2>1. encumbered' = encumbered - (pay + mine + yours)
      BY TypeParts, SettleExpanded DEF pay, mine, yours
    <2>2. encumbered = (pay + mine) + yours BY <1>4 DEF BooksBalanced, TotalsBalanced
    <2>3. QED BY <1>1, <2>1, <2>2
  <1>9. issued = available["buyer"] + held["buyer"] + available["seller"] + held["seller"]
        /\ reserve = issued + pending
    BY DEF BooksBalanced, TotalsBalanced
  <1>10. issued' = issued /\ reserve' = reserve /\ pending' = pending BY TypeParts, SettleExpanded
  <1>11. issued' = available'["buyer"] + held'["buyer"] + available'["seller"] + held'["seller"]
    BY <1>1, <1>4, <1>6, <1>7, <1>9, <1>10, TypeParts, VaultNumbers
  <1>12. TotalsBalanced' BY <1>7, <1>8, <1>9, <1>10, <1>11 DEF TotalsBalanced
  <1>13. LocksBalanced' BY <1>3, <1>7, Names DEF LocksBalanced
  <1>14. QED BY <1>12, <1>13 DEF BooksBalanced

\* One lock opened or closed moves the balance of its owner by its amount.
LEMMA LegBalanced ==
    ASSUME VaultTypeOK, LocksBalanced, \A l \in Legs : OpenAmount(l) \in Nat, NEW leg \in Legs,
           NEW d \in Int,
           held' = [held EXCEPT ![OwnerOf(leg)] = @ + d],
           OpenAmount(leg)' = OpenAmount(leg) + d,
           \A other \in Legs \ {leg} : OpenAmount(other)' = OpenAmount(other)
    PROVE  LocksBalanced'
  <1>1. /\ held["buyer"] \in Nat /\ held["seller"] \in Nat /\ held \in [{"buyer", "seller"} -> Nat]
        /\ OpenAmount("BuyerPayment") \in Nat /\ OpenAmount("BuyerCollateral") \in Nat
        /\ OpenAmount("SellerCollateral") \in Nat
    BY VaultNumbers, Names
  <1>2. CASE leg = "BuyerPayment"
    <2>1. /\ held'["buyer"] = held["buyer"] + d /\ held'["seller"] = held["seller"]
      BY <1>1, <1>2 DEF OwnerOf
    <2>2. /\ OpenAmount("BuyerPayment")' = OpenAmount("BuyerPayment") + d
          /\ OpenAmount("BuyerCollateral")' = OpenAmount("BuyerCollateral")
          /\ OpenAmount("SellerCollateral")' = OpenAmount("SellerCollateral")
      BY <1>2, Names
    <2>3. QED BY <1>1, <2>1, <2>2 DEF LocksBalanced
  <1>3. CASE leg = "BuyerCollateral"
    <2>1. /\ held'["buyer"] = held["buyer"] + d /\ held'["seller"] = held["seller"]
      BY <1>1, <1>3 DEF OwnerOf
    <2>2. /\ OpenAmount("BuyerPayment")' = OpenAmount("BuyerPayment")
          /\ OpenAmount("BuyerCollateral")' = OpenAmount("BuyerCollateral") + d
          /\ OpenAmount("SellerCollateral")' = OpenAmount("SellerCollateral")
      BY <1>3, Names
    <2>3. QED BY <1>1, <2>1, <2>2 DEF LocksBalanced
  <1>4. CASE leg = "SellerCollateral"
    <2>1. /\ held'["buyer"] = held["buyer"] /\ held'["seller"] = held["seller"] + d
      BY <1>1, <1>4 DEF OwnerOf
    <2>2. /\ OpenAmount("BuyerPayment")' = OpenAmount("BuyerPayment")
          /\ OpenAmount("BuyerCollateral")' = OpenAmount("BuyerCollateral")
          /\ OpenAmount("SellerCollateral")' = OpenAmount("SellerCollateral") + d
      BY <1>4, Names
    <2>3. QED BY <1>1, <2>1, <2>2 DEF LocksBalanced
  <1>5. QED BY <1>2, <1>3, <1>4, Names

\* Where nothing about credit and locks changes, the ledger stays balanced.
LEMMA LedgerUnchanged ==
    ASSUME BooksBalanced, LocksRecorded, UNCHANGED <<reserve, issued, pending, encumbered, available, held>>,
           UNCHANGED lock, deposited \subseteq deposited', tier = "ShieldedCredit" => tier' = tier
    PROVE  BooksBalanced' /\ LocksRecorded'
  <1>1. BooksBalanced' BY DEF BooksBalanced, TotalsBalanced, LocksBalanced, OpenAmount
  <1>2. LocksRecorded' BY DEF LocksRecorded
  <1>3. QED BY <1>1, <1>2

LEMMA NextLedger == TypeOK /\ BooksBalanced /\ LocksRecorded /\ [Next]_vars
                        => BooksBalanced' /\ LocksRecorded'
  <1> SUFFICES ASSUME TypeOK, BooksBalanced, LocksRecorded, [Next]_vars
               PROVE  BooksBalanced' /\ LocksRecorded'
    OBVIOUS
  <1> DEFINE Quiet == /\ UNCHANGED <<reserve, issued, pending, encumbered, available, held>>
                      /\ UNCHANGED lock /\ deposited \subseteq deposited'
                      /\ tier = "ShieldedCredit" => tier' = tier
             Same == BooksBalanced' /\ LocksRecorded'
  <1>0. VaultTypeOK /\ FundingTypeOK /\ TotalsBalanced /\ LocksBalanced
    BY TypeParts DEF BooksBalanced
  <1>a. \A l \in Legs : OpenAmount(l) \in Nat BY <1>0 DEF OpenAmount, FundingTypeOK
  <1>b. ASSUME TotalsBalanced', LocksBalanced' PROVE BooksBalanced'
    BY <1>b DEF BooksBalanced
  <1>c. ASSUME Quiet PROVE Same
    BY <1>c, LedgerUnchanged
  <1>d. ASSUME TotalsBalanced', held' = held, UNCHANGED dealVars PROVE Same
    <2>1. UNCHANGED lock /\ UNCHANGED deposited /\ UNCHANGED tier BY <1>d DEF dealVars
    <2>2. LocksBalanced' BY <1>0, <1>d, <2>1 DEF LocksBalanced, OpenAmount
    <2>3. LocksRecorded' BY <2>1 DEF LocksRecorded
    <2>4. QED BY <1>b, <1>d, <2>2, <2>3
  <1>1. ASSUME Credit PROVE Same
    <2>1. UNCHANGED dealVars BY <1>1 DEF Credit
    <2>2. Amounts \subseteq Nat /\ Parties = Owners BY VaultAssumption, DealAssumption
    <2>3. ASSUME NEW o \in Parties, NEW n \in Amounts, DepositSolForCredit(o, n) PROVE Same
      BY <1>0, <1>d, <2>1, <2>2, <2>3, DepositCreditBalanced
    <2>4. ASSUME NEW o \in Parties, NEW n \in Amounts, NEW w \in Withdrawals, NEW t \in Delays,
                 QueueWithdrawal(w, o, n, t) PROVE Same
      BY <1>0, <1>d, <2>1, <2>2, <2>4, QueueBalanced
    <2>5. ASSUME NEW w \in Withdrawals, ExecuteWithdrawal(w, now) PROVE Same
      BY <1>0, <1>d, <2>1, <2>5, ExecuteBalanced
    <2>6. QED BY <1>1, <2>3, <2>4, <2>5 DEF Credit
  <1>2. ASSUME NEW b \in Bets, CreateConfidentialDeal(b) PROVE Quiet
    BY <1>2 DEF CreateConfidentialDeal, ledger
  <1>3. ASSUME NEW amounts \in Plans, RegisterPrivateFundingCommitments(amounts) PROVE Quiet
    BY <1>3 DEF RegisterPrivateFundingCommitments, ledger
  <1>4. ASSUME NEW leg \in Legs, DepositEncrypted(leg) PROVE Quiet
    BY <1>4 DEF DepositEncrypted, vault, balances
  <1>5. ASSUME NEW leg \in Legs, LockCreditForDeal(leg) PROVE Same
    <2>1. OwnerOf(leg) \in Owners /\ plan[leg] \in Nat BY <1>0, Names DEF FundingTypeOK
    <2>2. TotalsBalanced' /\ held' = [held EXCEPT ![OwnerOf(leg)] = @ + plan[leg]]
      BY <1>0, <1>5, <2>1, LockCreditBalanced DEF LockCreditForDeal
    <2>3. /\ leg \notin deposited /\ deposited' = deposited \cup {leg} /\ tier' = "ShieldedCredit"
          /\ lock' = [lock EXCEPT ![leg] = [state |-> "open", amount |-> plan[leg]]]
      BY <1>5 DEF LockCreditForDeal
    <2>4. lock[leg].state = "none" BY <2>3 DEF LocksRecorded
    <2>5. OpenAmount(leg) = 0 /\ OpenAmount(leg)' = plan[leg]
      BY <1>0, <2>3, <2>4 DEF OpenAmount, FundingTypeOK
    <2>6. \A other \in Legs \ {leg} : OpenAmount(other)' = OpenAmount(other)
      BY <1>0, <2>3 DEF OpenAmount, FundingTypeOK
    <2>7. OpenAmount(leg)' = OpenAmount(leg) + plan[leg] /\ plan[leg] \in Int BY <2>1, <2>5
    <2>8. LocksBalanced' BY <1>0, <1>a, <2>1, <2>2, <2>6, <2>7, LegBalanced
    <2>9. LocksRecorded' BY <1>0, <2>3 DEF LocksRecorded, FundingTypeOK
    <2>10. QED BY <1>b, <2>2, <2>8, <2>9
  <1>6. ASSUME NEW leg \in Legs, EmergencyRefundAfterTimeout(leg) PROVE Same
    <2> DEFINE n == lock[leg].amount
    <2>1. OwnerOf(leg) \in Owners /\ n \in Nat BY <1>0, Names DEF FundingTypeOK
    <2>2. /\ lock[leg].state = "open" /\ UNCHANGED deposited /\ UNCHANGED tier
          /\ lock' = [lock EXCEPT ![leg].state = "refunded"]
          /\ RefundCredit(OwnerOf(leg), n)
      BY <1>6 DEF EmergencyRefundAfterTimeout
    <2>3. OpenAmount(leg) = n /\ OpenAmount(leg)' = 0
      BY <1>0, <2>2 DEF OpenAmount, FundingTypeOK
    <2>4. \A other \in Legs \ {leg} : OpenAmount(other)' = OpenAmount(other)
      BY <1>0, <2>2 DEF OpenAmount, FundingTypeOK
    <2>5. LocksRecorded' BY <1>0, <2>2 DEF LocksRecorded, FundingTypeOK
    <2> HIDE DEF n
    <2>6. TotalsBalanced' /\ held' = [held EXCEPT ![OwnerOf(leg)] = @ - n]
      BY <1>0, <2>1, <2>2, RefundCreditBalanced
    <2>7. (-n) \in Int /\ OpenAmount(leg)' = OpenAmount(leg) + (-n)
      BY <2>1, <2>3
    <2>8. held' = [held EXCEPT ![OwnerOf(leg)] = @ + (-n)]
      <3>1. held[OwnerOf(leg)] \in Nat BY <1>0, <2>1 DEF VaultTypeOK
      <3>2. held[OwnerOf(leg)] - n = held[OwnerOf(leg)] + (-n) BY <2>1, <3>1
      <3>3. QED BY <2>6, <3>2
    <2>9. LocksBalanced' BY <1>0, <1>a, <2>4, <2>7, <2>8, LegBalanced
    <2>10. QED BY <1>b, <2>5, <2>6, <2>9
  <1>7. ASSUME CancelDeal \/ RequestSettlementDecryption \/ ApproveCrossChain \/ RevealAndRelease PROVE Quiet
    BY <1>7 DEF CancelDeal, RequestSettlementDecryption, ApproveCrossChain, RevealAndRelease, ledger, funding
  <1>8. ASSUME NEW p \in Parties, NEW n, NEW e,
               \/ SubmitReleaseApproval(p, n, e) \/ ConfirmRelease(n, e)
               \/ RevokeReleaseApproval(p, n) \/ OpenReleaseDispute(p, n)
        PROVE  Quiet
    BY <1>8 DEF SubmitReleaseApproval, ConfirmRelease, RevokeReleaseApproval, OpenReleaseDispute, ledger, funding
  <1>9. ASSUME NEW S \in SUBSET Parties, ResolveReleaseDispute(S) PROVE Quiet
    BY <1>9 DEF ResolveReleaseDispute, ledger
  <1>10. ASSUME NEW p \in Parties, ResolveElsewhere(p) PROVE Quiet
    BY <1>10 DEF ResolveElsewhere, ledger, funding
  <1>11. ASSUME NEW valid \in BOOLEAN, SettleLockedCredit(valid) PROVE Same
    <2>1. BooksBalanced' BY <1>11, SettleBalanced
    <2>2. \A leg \in Legs : lock[leg].state = "open" /\ UNCHANGED deposited /\ UNCHANGED tier
      BY <1>0, <1>11, SettleExpanded
    <2>3. LocksRecorded' BY <2>2 DEF LocksRecorded
    <2>4. QED BY <2>1, <2>3
  <1>12. ASSUME Tick \/ UNCHANGED vars PROVE Quiet
    BY <1>12 DEF Tick, vars, dealVars, ledger
  <1> HIDE DEF Quiet, Same
  <1>13. Same
    BY <1>c, <1>1, <1>2, <1>3, <1>4, <1>5, <1>6, <1>7, <1>8, <1>9, <1>10, <1>11, <1>12 DEF Next
  <1>14. QED BY <1>13 DEF Same

-----------------------------------------------------------------------------
(* Sums of balances. *)

\* The units of one account are counted by its balance.
LEMMA UnitsOfOne ==
    ASSUME NEW a, NEW n \in Nat
    PROVE  IsFiniteSet({a} \X (1..n)) /\ Cardinality({a} \X (1..n)) = n
  <1>1. IsFiniteSet({a}) /\ Cardinality({a}) = 1 BY FS_Singleton
  <1>2. IsFiniteSet(1..n) /\ Cardinality(1..n) = n BY FS_Interval
  <1>3. IsFiniteSet({a} \X (1..n)) /\ Cardinality({a} \X (1..n)) = Cardinality({a}) * Cardinality(1..n)
    BY <1>1, <1>2, FS_Product
  <1>4. QED BY <1>1, <1>2, <1>3

\* Finitely many balances hold a natural number of units.
LEMMA HoldingsType ==
    ASSUME NEW K, IsFiniteSet(K), NEW f \in [K -> Nat]
    PROVE  IsFiniteSet(Units(f)) /\ Holdings(f) \in Nat
  <1> DEFINE U == { {a} \X (1..f[a]) : a \in K }
             g == [a \in K |-> {a} \X (1..f[a])]
  <1>1. g \in Surjection(K, U) BY DEF Surjection
  <1>2. IsFiniteSet(U)
    <2> HIDE DEF U, g
    <2> QED BY <1>1, FS_Surjection
  <1>3. ASSUME NEW S \in U PROVE IsFiniteSet(S)
    <2>1. PICK a \in K : S = {a} \X (1..f[a]) OBVIOUS
    <2>2. QED BY <2>1, UnitsOfOne
  <1>4. IsFiniteSet(UNION U)
    <2> HIDE DEF U
    <2> QED BY <1>2, <1>3, FS_UNION
  <1>5. Units(f) = UNION U BY DEF Units
  <1>6. QED BY <1>4, <1>5, FS_CardinalityType DEF Holdings

\* Changing one balance changes the sum by as much.
LEMMA HoldingsUpdate ==
    ASSUME NEW K, IsFiniteSet(K), NEW f \in [K -> Nat], NEW g \in [K -> Nat], NEW k \in K,
           \A a \in K \ {k} : g[a] = f[a]
    PROVE  Holdings(g) = Holdings(f) - f[k] + g[k]
  <1> DEFINE old == {k} \X (1..f[k])
             new == {k} \X (1..g[k])
             rest == Units(f) \ old
  <1>1. /\ IsFiniteSet(old) /\ Cardinality(old) = f[k]
        /\ IsFiniteSet(new) /\ Cardinality(new) = g[k]
    BY UnitsOfOne
  <1>2. IsFiniteSet(Units(f)) /\ Holdings(f) \in Nat BY HoldingsType
  <1>3. Units(f) \cap old = old BY DEF Units
  <1>4. IsFiniteSet(rest) /\ Cardinality(rest) = Holdings(f) - f[k]
    <2>1. Cardinality(rest) = Cardinality(Units(f)) - Cardinality(Units(f) \cap old)
      BY <1>2, FS_Difference
    <2>2. QED BY <1>1, <1>2, <1>3, <2>1, FS_Difference DEF Holdings
  <1>5. rest \cap new = {} BY DEF Units
  <1>6. Units(g) = rest \cup new BY DEF Units
  <1>7. Cardinality(rest \cup new) = Cardinality(rest) + Cardinality(new) - Cardinality(rest \cap new)
    BY <1>1, <1>4, FS_Union
  <1>8. Cardinality(rest \cap new) = 0 BY <1>5, FS_EmptySet
  <1>9. Cardinality(rest \cup new) = Holdings(f) - f[k] + g[k]
    <2> HIDE DEF rest, new
    <2> QED BY <1>1, <1>2, <1>4, <1>7, <1>8
  <1>10. QED BY <1>6, <1>9 DEF Holdings

\* No balance is more than the sum.
LEMMA HoldingsBound ==
    ASSUME NEW K, IsFiniteSet(K), NEW f \in [K -> Nat], NEW k \in K
    PROVE  f[k] <= Holdings(f)
  <1>1. IsFiniteSet(Units(f)) BY HoldingsType
  <1>2. {k} \X (1..f[k]) \in SUBSET Units(f) BY DEF Units
  <1>3. Cardinality({k} \X (1..f[k])) <= Cardinality(Units(f)) BY <1>1, <1>2, FS_Subset
  <1>4. Cardinality({k} \X (1..f[k])) = f[k] BY UnitsOfOne
  <1>5. QED BY <1>3, <1>4 DEF Holdings

-----------------------------------------------------------------------------
(* The queue of withdrawals. *)

LEMMA QueuedType ==
    ASSUME VaultTypeOK
    PROVE  /\ Queued \in [Withdrawals -> Nat]
           /\ IsFiniteSet(Withdrawals) /\ Holdings(Queued) \in Nat
  <1>1. ASSUME NEW w \in Withdrawals PROVE withdrawal[w] # Free => withdrawal[w].amount \in Nat
    BY VaultAssumption DEF VaultTypeOK, WithdrawalRecords
  <1>2. Queued \in [Withdrawals -> Nat] BY <1>1 DEF Queued
  <1>3. IsFiniteSet(Withdrawals) BY VaultAssumption
  <1>4. QED BY <1>2, <1>3, HoldingsType

LEMMA QueuedNextType ==
    ASSUME VaultTypeOK'
    PROVE  Queued' \in [Withdrawals -> Nat]
  <1>1. ASSUME NEW w \in Withdrawals PROVE withdrawal'[w] # Free => withdrawal'[w].amount \in Nat
    BY VaultAssumption DEF VaultTypeOK, WithdrawalRecords
  <1>2. QED BY <1>1 DEF Queued

\* A withdrawal enters the queue with the amount that becomes pending.
LEMMA QueueCounts ==
    ASSUME VaultTypeOK, VaultTypeOK', QueueCounted, NEW w \in Withdrawals, NEW o \in Owners,
           NEW n \in Amounts, NEW t \in Delays, QueueWithdrawal(w, o, n, t)
    PROVE  QueueCounted'
  <1> DEFINE q == [owner |-> o, amount |-> n, after |-> t, executed |-> FALSE]
  <1>1. n \in Nat /\ q # Free
    <2>1. q \in WithdrawalRecords BY DEF WithdrawalRecords
    <2>2. QED BY <2>1, VaultAssumption
  <1>2. withdrawal[w] = Free /\ withdrawal' = [withdrawal EXCEPT ![w] = q] /\ pending' = pending + n
    BY DEF QueueWithdrawal
  <1>3. Queued[w] = 0 BY <1>2 DEF Queued
  <1>4. Queued'[w] = n BY <1>1, <1>2 DEF Queued, VaultTypeOK
  <1>5. \A v \in Withdrawals \ {w} : Queued'[v] = Queued[v] BY <1>2 DEF Queued, VaultTypeOK
  <1>6. Queued \in [Withdrawals -> Nat] /\ Queued' \in [Withdrawals -> Nat] /\ Holdings(Queued) \in Nat
    BY QueuedType, QueuedNextType
  <1>7. Holdings(Queued') = Holdings(Queued) - Queued[w] + Queued'[w]
    BY <1>5, <1>6, QueuedType, HoldingsUpdate
  <1>8. QED BY <1>1, <1>2, <1>3, <1>4, <1>6, <1>7 DEF QueueCounted

\* An executed withdrawal leaves it with the amount that stops being pending.
LEMMA ExecuteCounts ==
    ASSUME VaultTypeOK, VaultTypeOK', QueueCounted, NEW w \in Withdrawals, NEW t, ExecuteWithdrawal(w, t)
    PROVE  QueueCounted'
  <1>1. /\ withdrawal[w] # Free /\ ~withdrawal[w].executed
        /\ withdrawal' = [withdrawal EXCEPT ![w].executed = TRUE]
        /\ pending' = pending - withdrawal[w].amount
    BY DEF ExecuteWithdrawal
  <1>2. withdrawal[w] \in WithdrawalRecords BY <1>1 DEF VaultTypeOK
  <1>3. withdrawal'[w].executed
    BY <1>1, <1>2 DEF VaultTypeOK, WithdrawalRecords
  <1>4. Queued[w] = withdrawal[w].amount /\ Queued'[w] = 0 BY <1>1, <1>3 DEF Queued
  <1>5. \A v \in Withdrawals \ {w} : Queued'[v] = Queued[v] BY <1>1 DEF Queued, VaultTypeOK
  <1>6. Queued \in [Withdrawals -> Nat] /\ Queued' \in [Withdrawals -> Nat] /\ Holdings(Queued) \in Nat
    BY QueuedType, QueuedNextType
  <1>7. Holdings(Queued') = Holdings(Queued) - Queued[w] + Queued'[w]
    BY <1>5, <1>6, QueuedType, HoldingsUpdate
  <1>8. Queued[w] \in Nat BY <1>6
  <1>9. QED BY <1>1, <1>4, <1>6, <1>7, <1>8 DEF QueueCounted

LEMMA NextQueue == TypeOK /\ TypeOK' /\ QueueCounted /\ [Next]_vars => QueueCounted'
  <1> SUFFICES ASSUME TypeOK, TypeOK', QueueCounted, [Next]_vars PROVE QueueCounted'
    OBVIOUS
  <1>0. VaultTypeOK /\ VaultTypeOK' /\ Parties = Owners
    BY Names DEF TypeOK
  <1>1. ASSUME UNCHANGED <<pending, withdrawal>> PROVE QueueCounted'
    <2>1. Queued' = Queued BY <1>1 DEF Queued
    <2>2. QED BY <1>1, <2>1 DEF QueueCounted
  <1>2. ASSUME NEW o \in Parties, NEW n \in Amounts, DepositSolForCredit(o, n) PROVE QueueCounted'
    BY <1>1, <1>2 DEF DepositSolForCredit
  <1>3. ASSUME NEW o \in Parties, NEW n \in Amounts, NEW w \in Withdrawals, NEW t \in Delays,
               QueueWithdrawal(w, o, n, t) PROVE QueueCounted'
    BY <1>0, <1>3, QueueCounts
  <1>4. ASSUME NEW w \in Withdrawals, ExecuteWithdrawal(w, now) PROVE QueueCounted'
    BY <1>0, <1>4, ExecuteCounts
  <1>5. ASSUME Credit PROVE QueueCounted'
    BY <1>2, <1>3, <1>4, <1>5 DEF Credit
  <1>6. ASSUME \/ \E leg \in Legs : DepositEncrypted(leg) \/ LockCreditForDeal(leg)
                                    \/ EmergencyRefundAfterTimeout(leg)
               \/ \E valid \in BOOLEAN : SettleLockedCredit(valid)
        PROVE  QueueCounted'
    BY <1>1, <1>6 DEF DepositEncrypted, LockCreditForDeal, LockCredit, EmergencyRefundAfterTimeout,
                      RefundCredit, SettleLockedCredit, vault
  <1>7. ASSUME UNCHANGED ledger PROVE QueueCounted'
    BY <1>1, <1>7 DEF ledger
  <1>8. ASSUME \/ \E b \in Bets : CreateConfidentialDeal(b)
               \/ \E amounts \in Plans : RegisterPrivateFundingCommitments(amounts)
               \/ CancelDeal \/ RequestSettlementDecryption \/ ApproveCrossChain \/ RevealAndRelease
               \/ \E S \in SUBSET Parties : ResolveReleaseDispute(S)
               \/ \E p \in Parties : ResolveElsewhere(p)
               \/ Tick \/ UNCHANGED vars
        PROVE  UNCHANGED ledger
    BY <1>8 DEF CreateConfidentialDeal, RegisterPrivateFundingCommitments, CancelDeal,
                RequestSettlementDecryption, ApproveCrossChain, RevealAndRelease, ResolveReleaseDispute,
                ResolveElsewhere, Tick, vars
  <1>9. ASSUME NEW p \in Parties, NEW n, NEW e,
               \/ SubmitReleaseApproval(p, n, e) \/ ConfirmRelease(n, e)
               \/ RevokeReleaseApproval(p, n) \/ OpenReleaseDispute(p, n)
        PROVE  UNCHANGED ledger
    BY <1>9 DEF SubmitReleaseApproval, ConfirmRelease, RevokeReleaseApproval, OpenReleaseDispute
  <1>10. QED BY <1>5, <1>6, <1>7, <1>8, <1>9 DEF Next

-----------------------------------------------------------------------------
(* The invariant holds, and the properties follow from it. *)

LEMMA Invariant == Spec => []IInv
  <1>1. Init => IInv
    <2> SUFFICES ASSUME Init PROVE IInv
      OBVIOUS
    <2>1. TypeOK BY InitType
    <2>2. \A leg \in Legs : lock[leg] = NoLock /\ OpenAmount(leg) = 0
      BY DEF Init, NoLock, OpenAmount
    <2>3. LocksRecorded BY <2>2 DEF LocksRecorded, NoLock
    <2>4. TotalsBalanced BY Names DEF Init, VaultInit, TotalsBalanced
    <2>5. LocksBalanced BY <2>2, Names DEF Init, VaultInit, LocksBalanced
    <2>6. QueueCounted
      <3>1. \A w \in DOMAIN Queued : Queued[w] = 0 BY DEF Init, VaultInit, Queued
      <3>2. Units(Queued) = {} BY <3>1 DEF Units
      <3>3. Holdings(Queued) = 0 BY <3>2, FS_EmptySet DEF Holdings
      <3>4. QED BY <3>3 DEF Init, VaultInit, QueueCounted
    <2>7. NonceOrder BY DEF Init, NonceOrder, NoApproval
    <2>8. ConsentOrder BY DEF Init, ConsentOrder
    <2>9. QED BY <2>1, <2>3, <2>4, <2>5, <2>6, <2>7, <2>8, LedgerParts DEF IInv, BooksBalanced
  <1>2. IInv /\ [Next]_vars => IInv'
    <2>1. ASSUME TypeOK, [Next]_vars PROVE TypeOK'
      <3>1. VaultTypeOK' /\ FundingTypeOK' /\ ConsentTypeOK'
        BY <2>1, NextVaultType, NextFundingType, NextConsentType
      <3>2. QED BY <3>1 DEF TypeOK, FundingTypeOK, ConsentTypeOK
    <2>2. ASSUME IInv, [Next]_vars PROVE LedgerBalanced'
      <3>1. BooksBalanced /\ QueueCounted BY <2>2, LedgerParts DEF IInv
      <3>2. TypeOK' BY <2>1, <2>2 DEF IInv
      <3>3. BooksBalanced' /\ QueueCounted' BY <2>2, <3>1, <3>2, NextLedger, NextQueue DEF IInv
      <3>4. QED
        BY <3>3 DEF LedgerBalanced, BooksBalanced, TotalsBalanced, LocksBalanced, QueueCounted
    <2>3. ASSUME IInv, [Next]_vars PROVE LocksRecorded'
      BY <2>3, LedgerParts, NextLedger DEF IInv
    <2>4. QED BY <2>1, <2>2, <2>3, NextNonceOrder, NextConsentOrder DEF IInv
  <1>3. QED BY <1>1, <1>2, PTL DEF Spec

\* The ledger balances to the lamport after any sequence of instructions.
THEOREM LedgerAlwaysBalanced == Spec => []LedgerBalanced
  BY Invariant, PTL DEF IInv

\* An authorized release always rests on the current consent of both parties.
THEOREM ReleasesRestOnConsent == Spec => []FreshConsent
  <1>1. IInv => FreshConsent BY DEF IInv, ConsentOrder, FreshConsent
  <1>2. QED BY <1>1, Invariant, PTL

\* Approvals that count are newer than every revocation and dispute of their party.
THEOREM ApprovalsAreNewest == Spec => []NewestCounts
  <1>1. IInv => NewestCounts
    BY TypeParts DEF IInv, NonceOrder, NewestCounts, ConsentTypeOK
  <1>2. QED BY <1>1, Invariant, PTL

\* Only the two settlements execute a release, and only an authorized one.
LEMMA ExecutedBy ==
    ASSUME TypeOK, Next, executed', ~executed
    PROVE  RevealAndRelease \/ \E valid \in BOOLEAN : SettleLockedCredit(valid)
  BY DEF Next, Credit, CreateConfidentialDeal, RegisterPrivateFundingCommitments, DepositEncrypted,
         LockCreditForDeal, EmergencyRefundAfterTimeout, CancelDeal, RequestSettlementDecryption,
         SubmitReleaseApproval, ConfirmRelease, RevokeReleaseApproval, OpenReleaseDispute,
         ResolveReleaseDispute, ResolveElsewhere, ApproveCrossChain, Tick, dealVars

\* When a release is executed, the seller has had the whole window, undisturbed.
THEOREM SellersWindowKept == Spec => WindowKept
  <1>1. ASSUME IInv, Next, executed', ~executed PROVE now >= changed + Window
    <2>1. authorized BY <1>1, ExecutedBy DEF IInv, RevealAndRelease, SettleLockedCredit, Releasable
    <2>2. QED BY <1>1, <2>1 DEF IInv, ConsentOrder
  <1>2. IInv /\ [Next]_vars => [(executed' /\ ~executed) => now >= changed + Window]_vars
    BY <1>1
  <1>3. QED BY <1>2, Invariant, PTL DEF Spec, WindowKept

-----------------------------------------------------------------------------
(* ConfidentialDeal implements CreditPromise: nobody's credit is taken.     *)

\* The numbers behind the promise.
LEMMA PromiseNumbers ==
    ASSUME IInv
    PROVE  /\ CreditOf \in [Owners -> Nat] /\ Bond \in [Owners -> Nat]
           /\ \A leg \in Legs : OpenAmount(leg) \in Nat
           /\ \A o \in Owners : available[o] \in Nat /\ held[o] \in Nat /\ CreditOf[o] = available[o] + held[o]
           /\ Bond["buyer"] = OpenAmount("BuyerCollateral") /\ Bond["seller"] = OpenAmount("SellerCollateral")
  <1>1. VaultTypeOK /\ FundingTypeOK BY TypeParts DEF IInv
  <1>2. \A leg \in Legs : OpenAmount(leg) \in Nat BY <1>1 DEF OpenAmount, FundingTypeOK
  <1>3. \A o \in Owners : available[o] \in Nat /\ held[o] \in Nat BY <1>1 DEF VaultTypeOK
  <1>4. Bond["buyer"] = OpenAmount("BuyerCollateral") /\ Bond["seller"] = OpenAmount("SellerCollateral")
    BY Names DEF Bond
  <1>5. Bond \in [Owners -> Nat] BY <1>2, Names DEF Bond
  <1>6. QED BY <1>2, <1>3, <1>4, <1>5 DEF CreditOf

\* What an owner has locked is what the ledger holds for him.
LEMMA LockedIsHeld ==
    ASSUME IInv, NEW o \in Owners
    PROVE  Promise!Locked(o) = held[o]
  <1>1. held["buyer"] = OpenAmount("BuyerPayment") + OpenAmount("BuyerCollateral")
        /\ held["seller"] = OpenAmount("SellerCollateral")
    BY DEF IInv, LedgerBalanced
  <1>2. /\ OpenAmount("BuyerPayment") \in Nat /\ OpenAmount("BuyerCollateral") \in Nat
        /\ OpenAmount("SellerCollateral") \in Nat
        /\ Bond["buyer"] = OpenAmount("BuyerCollateral") /\ Bond["seller"] = OpenAmount("SellerCollateral")
    BY PromiseNumbers, Names
  <1>3. CASE o = "buyer" BY <1>1, <1>2, <1>3 DEF Promise!Locked
  <1>4. CASE o = "seller" BY <1>1, <1>2, <1>4 DEF Promise!Locked
  <1>5. QED BY <1>3, <1>4, Names

\* What the promise does not see.
LEMMA UnseenStep ==
    ASSUME UNCHANGED <<available, held, lock, withdrawal, reserve, agreed, executed>>
    PROVE  UNCHANGED Promise!pvars
  BY DEF Promise!pvars, CreditOf, OpenAmount, Bond, Queued, Paid

LEMMA BuyStep ==
    ASSUME IInv, NEW o \in Owners, NEW n \in Amounts, DepositSolForCredit(o, n), UNCHANGED dealVars
    PROVE  Promise!Buy(o)
  <1>1. n \in Nat /\ n > 0 BY VaultAssumption
  <1>2. /\ reserve' = reserve + n /\ held' = held /\ available' = [available EXCEPT ![o] = @ + n]
        /\ withdrawal' = withdrawal /\ lock' = lock /\ agreed' = agreed /\ executed' = executed
    BY DEF DepositSolForCredit, dealVars
  <1>3. reserve' - reserve = n
    <2>1. reserve \in Nat BY DEF IInv, TypeOK, VaultTypeOK
    <2>2. QED BY <1>1, <1>2, <2>1
  <1>4. CreditOf' = [CreditOf EXCEPT ![o] = @ + n]
    <2>1. \A a \in Owners : CreditOf'[a] = IF a = o THEN CreditOf[a] + n ELSE CreditOf[a]
      BY <1>1, <1>2, PromiseNumbers DEF CreditOf, IInv, TypeOK, VaultTypeOK
    <2>2. QED BY <2>1 DEF CreditOf
  <1>5. UNCHANGED <<OpenAmount("BuyerPayment"), Bond, Queued, Paid>>
    BY <1>2 DEF OpenAmount, Bond, Queued, Paid
  <1>6. QED BY <1>1, <1>2, <1>3, <1>4, <1>5 DEF Promise!Buy

LEMMA ClaimStep ==
    ASSUME IInv, NEW o \in Owners, NEW n \in Amounts, NEW w \in Withdrawals, NEW t \in Delays,
           QueueWithdrawal(w, o, n, t), UNCHANGED dealVars
    PROVE  Promise!Claim(o, w)
  <1> DEFINE q == [owner |-> o, amount |-> n, after |-> t, executed |-> FALSE]
  <1>1. n \in Nat /\ n > 0 BY VaultAssumption
  <1>2. q # Free
    <2>1. q \in WithdrawalRecords BY DEF WithdrawalRecords
    <2>2. QED BY <2>1, VaultAssumption
  <1>3. /\ withdrawal[w] = Free /\ withdrawal' = [withdrawal EXCEPT ![w] = q]
        /\ available[o] >= n /\ available' = [available EXCEPT ![o] = @ - n] /\ held' = held
        /\ reserve' = reserve /\ lock' = lock /\ agreed' = agreed /\ executed' = executed
    BY DEF QueueWithdrawal, dealVars
  <1>4. withdrawal \in [Withdrawals -> WithdrawalRecords \cup {Free}]
    BY DEF IInv, TypeOK, VaultTypeOK
  <1>5. Queued[w] = 0 /\ w \notin Paid BY <1>3 DEF Queued, Paid
  <1>6. \A v \in Withdrawals : Queued'[v] = IF v = w THEN n ELSE Queued[v]
    BY <1>2, <1>3, <1>4 DEF Queued
  <1>7. Queued' = [Queued EXCEPT ![w] = n] BY <1>6 DEF Queued
  <1>8. Paid' = Paid BY <1>3, <1>4 DEF Paid
  <1>9. CreditOf' = [CreditOf EXCEPT ![o] = @ - n]
    <2>1. \A a \in Owners : CreditOf'[a] = IF a = o THEN CreditOf[a] - n ELSE CreditOf[a]
      BY <1>1, <1>3, PromiseNumbers DEF CreditOf, IInv, TypeOK, VaultTypeOK
    <2>2. QED BY <2>1 DEF CreditOf
  <1>10. CreditOf[o] - n >= Promise!Locked(o)
    BY <1>1, <1>3, LockedIsHeld, PromiseNumbers
  <1>11. UNCHANGED <<OpenAmount("BuyerPayment"), Bond>> BY <1>3 DEF OpenAmount, Bond
  <1>12. Queued'[w] = n BY <1>6
  <1> HIDE DEF q
  <1>13. QED BY <1>1, <1>3, <1>5, <1>7, <1>8, <1>9, <1>10, <1>11, <1>12 DEF Promise!Claim

LEMMA PayStep ==
    ASSUME IInv, NEW w \in Withdrawals, ExecuteWithdrawal(w, now), UNCHANGED dealVars
    PROVE  Promise!Pay(w)
  <1>1. /\ withdrawal[w] # Free /\ ~withdrawal[w].executed
        /\ withdrawal' = [withdrawal EXCEPT ![w].executed = TRUE]
        /\ reserve' = reserve - withdrawal[w].amount
        /\ available' = available /\ held' = held
        /\ lock' = lock /\ agreed' = agreed /\ executed' = executed
    BY DEF ExecuteWithdrawal, dealVars
  <1>2. withdrawal \in [Withdrawals -> WithdrawalRecords \cup {Free}]
    BY DEF IInv, TypeOK, VaultTypeOK
  <1>3. withdrawal[w] \in WithdrawalRecords BY <1>1, <1>2
  <1>4. withdrawal[w].amount \in Nat /\ withdrawal[w].amount > 0
    <2>1. withdrawal[w].amount \in Amounts BY <1>3 DEF WithdrawalRecords
    <2>2. \A n \in Amounts : n \in Nat /\ n > 0 BY VaultAssumption
    <2>3. QED BY <2>1, <2>2
  <1>5. withdrawal'[w] = [withdrawal[w] EXCEPT !.executed = TRUE] BY <1>1, <1>2
  <1>6. withdrawal'[w].executed /\ withdrawal'[w] # Free
    <2>1. withdrawal'[w] \in WithdrawalRecords BY <1>3, <1>5 DEF WithdrawalRecords
    <2>2. withdrawal'[w].executed BY <1>3, <1>5 DEF WithdrawalRecords
    <2>3. QED BY <2>1, <2>2, VaultAssumption
  <1>7. Queued[w] = withdrawal[w].amount BY <1>1 DEF Queued
  <1>8. \A v \in Withdrawals : Queued'[v] = IF v = w THEN 0 ELSE Queued[v]
    BY <1>1, <1>2, <1>6 DEF Queued
  <1>9. Queued' = [Queued EXCEPT ![w] = 0] BY <1>8 DEF Queued
  <1>10. Paid' = Paid \cup {w} BY <1>1, <1>2, <1>6 DEF Paid
  <1>11. UNCHANGED <<CreditOf, OpenAmount("BuyerPayment"), Bond>> BY <1>1 DEF CreditOf, OpenAmount, Bond
  <1>12. QED BY <1>1, <1>4, <1>7, <1>9, <1>10, <1>11 DEF Promise!Pay

\* The credit of everybody is the same when what is free and what is held move against
\* each other.
LEMMA CreditKept ==
    ASSUME IInv, NEW o \in Owners, NEW n \in Nat,
           \/ /\ available[o] >= n
              /\ available' = [available EXCEPT ![o] = @ - n] /\ held' = [held EXCEPT ![o] = @ + n]
           \/ /\ held[o] >= n
              /\ available' = [available EXCEPT ![o] = @ + n] /\ held' = [held EXCEPT ![o] = @ - n]
    PROVE  CreditOf' = CreditOf
  <1>1. available \in [Owners -> Nat] /\ held \in [Owners -> Nat] BY DEF IInv, TypeOK, VaultTypeOK
  <1>2. \A a \in Owners : available'[a] + held'[a] = available[a] + held[a] BY <1>1
  <1>3. QED BY <1>2 DEF CreditOf

LEMMA LockStep ==
    ASSUME IInv, IInv', NEW leg \in Legs, LockCreditForDeal(leg)
    PROVE  Promise!Lock(OwnerOf(leg))
  <1> DEFINE o == OwnerOf(leg)
             n == plan[leg]
  <1>1. o \in Owners /\ n \in Nat BY Names DEF IInv, TypeOK
  <1>2. /\ available[o] >= n /\ available' = [available EXCEPT ![o] = @ - n]
        /\ held' = [held EXCEPT ![o] = @ + n]
        /\ UNCHANGED <<reserve, withdrawal, agreed, executed>>
        /\ leg \notin deposited /\ lock' = [lock EXCEPT ![leg] = [state |-> "open", amount |-> n]]
    BY DEF LockCreditForDeal, LockCredit, consent
  <1>3. lock \in [Legs -> [state : LockStates, amount : Nat]] BY DEF IInv, TypeOK
  <1>4. OpenAmount(leg) = 0 /\ OpenAmount(leg)' = n
    <2>1. lock[leg].state = "none" BY <1>2 DEF IInv, LocksRecorded
    <2>2. QED BY <1>2, <1>3, <2>1 DEF OpenAmount
  <1>5. \A other \in Legs \ {leg} : OpenAmount(other)' = OpenAmount(other) BY <1>2, <1>3 DEF OpenAmount
  <1>6. CreditOf' = CreditOf
    <2> HIDE DEF o, n
    <2> QED BY <1>1, <1>2, CreditKept
  <1>7. Promise!Locked(o)' <= CreditOf[o]
    <2>1. Promise!Locked(o)' = held'[o]
      <3>1. held'["buyer"] = OpenAmount("BuyerPayment")' + OpenAmount("BuyerCollateral")'
            /\ held'["seller"] = OpenAmount("SellerCollateral")'
        BY DEF IInv, LedgerBalanced
      <3>2. Bond'["buyer"] = OpenAmount("BuyerCollateral")' /\ Bond'["seller"] = OpenAmount("SellerCollateral")'
        BY Names DEF Bond
      <3>3. /\ OpenAmount("BuyerPayment")' \in Nat /\ OpenAmount("BuyerCollateral")' \in Nat
            /\ OpenAmount("SellerCollateral")' \in Nat
        BY Names DEF IInv, TypeOK, OpenAmount
      <3>4. CASE o = "buyer"
        <4> HIDE DEF o
        <4> QED BY <3>1, <3>2, <3>3, <3>4 DEF Promise!Locked
      <3>5. CASE o = "seller"
        <4> HIDE DEF o
        <4> QED BY <3>1, <3>2, <3>3, <3>5 DEF Promise!Locked
      <3>6. QED BY <1>1, <3>4, <3>5, Names
    <2>2. held'[o] = held[o] + n /\ CreditOf[o] = available[o] + held[o]
      <3>1. held \in [Owners -> Nat] BY DEF IInv, TypeOK, VaultTypeOK
      <3> HIDE DEF o, n
      <3> QED BY <1>1, <1>2, <3>1, PromiseNumbers
    <2>3. available[o] \in Nat /\ held[o] \in Nat
      <3> HIDE DEF o
      <3> QED BY <1>1, PromiseNumbers
    <2> HIDE DEF o, n
    <2>4. QED BY <1>1, <1>2, <2>1, <2>2, <2>3
  <1>8. UNCHANGED <<Queued, Paid>> BY <1>2 DEF Queued, Paid
  <1>9. CASE leg = "BuyerPayment"
    <2>1. o = "buyer" BY <1>9 DEF OwnerOf
    <2>2. UNCHANGED Bond BY <1>5, <1>9, Names DEF Bond
    <2> HIDE DEF o, n
    <2>3. QED BY <1>1, <1>2, <1>4, <1>6, <1>7, <1>8, <1>9, <2>1, <2>2 DEF Promise!Lock, o
  <1>10. CASE leg # "BuyerPayment"
    <2>1. UNCHANGED OpenAmount("BuyerPayment") BY <1>5, <1>10, Names
    <2>2. Bond[o] = 0 /\ Bond'[o] = n /\ \A a \in Owners \ {o} : Bond'[a] = Bond[a]
      BY <1>4, <1>5, <1>10, Names DEF Bond, OwnerOf, Legs
    <2>3. Bond' = [Bond EXCEPT ![o] = Bond'[o]] BY <1>1, <2>2 DEF Bond
    <2> HIDE DEF o, n
    <2>4. QED BY <1>1, <1>2, <1>6, <1>7, <1>8, <2>1, <2>2, <2>3 DEF Promise!Lock, o
  <1>11. QED BY <1>9, <1>10

LEMMA UnlockStep ==
    ASSUME IInv, NEW leg \in Legs, EmergencyRefundAfterTimeout(leg)
    PROVE  Promise!Unlock(OwnerOf(leg))
  <1> DEFINE o == OwnerOf(leg)
             n == lock[leg].amount
  <1>1. o \in Owners /\ n \in Nat BY Names DEF IInv, TypeOK
  <1>2. /\ held[o] >= n /\ available' = [available EXCEPT ![o] = @ + n]
        /\ held' = [held EXCEPT ![o] = @ - n]
        /\ UNCHANGED <<reserve, withdrawal, agreed, executed>>
        /\ lock' = [lock EXCEPT ![leg].state = "refunded"]
    BY DEF EmergencyRefundAfterTimeout, RefundCredit, consent
  <1>3. lock \in [Legs -> [state : LockStates, amount : Nat]] BY DEF IInv, TypeOK
  <1>4. OpenAmount(leg)' = 0 BY <1>2, <1>3 DEF OpenAmount
  <1>5. \A other \in Legs \ {leg} : OpenAmount(other)' = OpenAmount(other) BY <1>2, <1>3 DEF OpenAmount
  <1>6. CreditOf' = CreditOf
    <2> HIDE DEF o, n
    <2> QED BY <1>1, <1>2, CreditKept
  <1>7. UNCHANGED <<Queued, Paid>> BY <1>2 DEF Queued, Paid
  <1>8. CASE leg = "BuyerPayment"
    <2>1. o = "buyer" BY <1>8 DEF OwnerOf
    <2>2. UNCHANGED Bond BY <1>5, <1>8, Names DEF Bond
    <2>3. QED BY <1>2, <1>4, <1>6, <1>7, <1>8, <2>1, <2>2 DEF Promise!Unlock
  <1>9. CASE leg # "BuyerPayment"
    <2>1. UNCHANGED OpenAmount("BuyerPayment") BY <1>5, <1>9, Names
    <2>2. Bond'[o] = 0 /\ \A a \in Owners \ {o} : Bond'[a] = Bond[a]
      BY <1>4, <1>5, <1>9, Names DEF Bond, OwnerOf, Legs
    <2>3. Bond' = [Bond EXCEPT ![o] = 0] BY <1>1, <2>2 DEF Bond
    <2>4. QED BY <1>2, <1>6, <1>7, <2>1, <2>3 DEF Promise!Unlock
  <1>10. QED BY <1>8, <1>9

\* A settlement of credit: the payment changes hands, or nothing does.
LEMMA TradeStep ==
    ASSUME IInv, IInv', NEW valid \in BOOLEAN, SettleLockedCredit(valid)
    PROVE  Promise!Settle
  <1> DEFINE pay == lock["BuyerPayment"].amount
             mine == lock["BuyerCollateral"].amount
             yours == lock["SellerCollateral"].amount
             moved == IF valid THEN pay ELSE 0
             kept == IF valid THEN 0 ELSE pay
  <1>0. VaultTypeOK /\ FundingTypeOK BY TypeParts DEF IInv
  <1>1. pay \in Nat /\ mine \in Nat /\ yours \in Nat /\ moved \in Nat /\ kept \in Nat
        /\ moved + kept = pay
    BY <1>0, SettlementBackType, Names
  <1>2. OpenAmount("BuyerPayment") = pay BY <1>0, SettleExpanded, Names DEF OpenAmount
  <1>3. \A leg \in Legs : OpenAmount(leg)' = 0
    BY <1>0, SettleExpanded DEF OpenAmount, FundingTypeOK
  <1>4. /\ SettlementBack(valid)["buyer"] = mine + kept /\ SettlementBack(valid)["seller"] = yours
        /\ TransferCredit(SettlementBack(valid), "buyer", "seller", moved)
    BY <1>0, SettleExpanded, SettlementBackType
  <1> HIDE DEF pay, mine, yours, kept
  <1>5. CreditOf'["buyer"] = CreditOf["buyer"] - moved /\ CreditOf'["seller"] = CreditOf["seller"] + moved
    <2> HIDE DEF moved
    <2>1. /\ held'["buyer"] = held["buyer"] - (mine + kept) - moved
          /\ held'["seller"] = held["seller"] - yours
          /\ available'["buyer"] = available["buyer"] + (mine + kept)
          /\ available'["seller"] = available["seller"] + yours + moved
      BY <1>0, <1>1, <1>4, VaultNumbers DEF TransferCredit
    <2>2. QED BY <1>0, <1>1, <2>1, VaultNumbers DEF CreditOf
  <1>6. \/ CreditOf' = CreditOf
        \/ CreditOf' = [CreditOf EXCEPT !["buyer"] = @ - pay, !["seller"] = @ + pay]
    <2>1. CreditOf["buyer"] \in Nat /\ CreditOf["seller"] \in Nat BY PromiseNumbers, Names
    <2>2. CASE valid
      <3>1. moved = pay BY <2>2
      <3>2. CreditOf' = [CreditOf EXCEPT !["buyer"] = @ - pay, !["seller"] = @ + pay]
        BY <1>5, <3>1, Names DEF CreditOf
      <3>3. QED BY <3>2
    <2>3. CASE ~valid
      <3>1. moved = 0 BY <2>3
      <3>2. CreditOf'["buyer"] = CreditOf["buyer"] /\ CreditOf'["seller"] = CreditOf["seller"]
        BY <1>5, <2>1, <3>1
      <3>3. CreditOf' = CreditOf BY <3>2, Names DEF CreditOf
      <3>4. QED BY <3>3
    <2>4. QED BY <2>2, <2>3
  <1>7. OpenAmount("BuyerPayment")' = 0 /\ Bond' = [o \in Owners |-> 0]
    BY <1>3, Names DEF Bond
  <1>8. ~executed /\ executed' /\ executed \in BOOLEAN /\ executed' \in BOOLEAN /\ agreed = Owners
    BY <1>0, SettleExpanded, Names DEF Releasable, IInv, ConsentOrder, TypeOK
  <1>9. UNCHANGED <<Queued, Paid, reserve, agreed>>
    BY <1>0, SettleExpanded DEF Queued, Paid, consent
  <1>10. QED BY <1>2, <1>6, <1>7, <1>8, <1>9 DEF Promise!Settle

\* A release out of the deal account: the deal was funded in SOL, so no credit is locked.
LEMMA ReleaseStep ==
    ASSUME IInv, IInv', RevealAndRelease
    PROVE  Promise!Settle
  <1>1. \A leg \in Legs : lock[leg].state = "none" /\ lock' = lock
    BY DEF RevealAndRelease, IInv, LocksRecorded
  <1>2. \A leg \in Legs : OpenAmount(leg)' = 0 BY <1>1 DEF OpenAmount
  <1>3. OpenAmount("BuyerPayment")' = 0 /\ Bond' = [o \in Owners |-> 0]
    BY <1>2, Names DEF Bond
  <1>4. ~executed /\ executed' = TRUE /\ agreed = Owners
    BY Names DEF RevealAndRelease, Releasable, IInv, ConsentOrder
  <1>5. UNCHANGED <<CreditOf, Queued, Paid, reserve, agreed>>
    BY DEF RevealAndRelease, ledger, consent, CreditOf, Queued, Paid
  <1>6. QED BY <1>3, <1>4, <1>5 DEF Promise!Settle

\* A payload of a party adds or removes him, or lets everybody start again.
LEMMA ConsentStep ==
    ASSUME NEW p \in Parties, NEW n, NEW e,
           \/ SubmitReleaseApproval(p, n, e) \/ RevokeReleaseApproval(p, n) \/ OpenReleaseDispute(p, n)
    PROVE  Promise!Consent(p)
  <1>1. /\ ~executed /\ agreed' \in {agreed \cup {p}, agreed \ {p}, {}}
        /\ UNCHANGED ledger /\ UNCHANGED lock /\ UNCHANGED executed
    BY DEF SubmitReleaseApproval, RevokeReleaseApproval, OpenReleaseDispute, Negotiable, funding
  <1>2. UNCHANGED <<CreditOf, OpenAmount("BuyerPayment"), Bond, Queued, Paid, reserve, executed>>
    BY <1>1 DEF ledger, CreditOf, OpenAmount, Bond, Queued, Paid
  <1>3. QED BY <1>1, <1>2 DEF Promise!Consent

LEMMA StepKeepsCredit == IInv /\ IInv' /\ [Next]_vars => [Promise!Next]_(Promise!pvars)
  <1> SUFFICES ASSUME IInv, IInv', [Next]_vars PROVE [Promise!Next]_(Promise!pvars)
    OBVIOUS
  <1> USE Names
  <1>1. ASSUME Credit PROVE Promise!Next
    BY <1>1, BuyStep, ClaimStep, PayStep DEF Credit, Promise!Next
  <1>2. ASSUME NEW leg \in Legs, LockCreditForDeal(leg) \/ EmergencyRefundAfterTimeout(leg)
        PROVE  Promise!Next
    BY <1>2, LockStep, UnlockStep DEF Promise!Next
  <1>3. ASSUME RevealAndRelease \/ \E valid \in BOOLEAN : SettleLockedCredit(valid)
        PROVE  Promise!Next
    BY <1>3, TradeStep, ReleaseStep DEF Promise!Next
  <1>4. ASSUME NEW p \in Parties, NEW n, NEW e,
               \/ SubmitReleaseApproval(p, n, e) \/ RevokeReleaseApproval(p, n) \/ OpenReleaseDispute(p, n)
        PROVE  Promise!Next
    BY <1>4, ConsentStep DEF Promise!Next
  <1>5. ASSUME \/ \E b \in Bets : CreateConfidentialDeal(b)
               \/ \E amounts \in Plans : RegisterPrivateFundingCommitments(amounts)
               \/ \E leg \in Legs : DepositEncrypted(leg)
               \/ CancelDeal \/ RequestSettlementDecryption
               \/ \E n, e : ConfirmRelease(n, e)
               \/ \E S \in SUBSET Parties : ResolveReleaseDispute(S)
               \/ \E p \in Parties : ResolveElsewhere(p)
               \/ ApproveCrossChain \/ Tick \/ UNCHANGED vars
        PROVE  UNCHANGED Promise!pvars
    <2>1. UNCHANGED <<available, held, lock, withdrawal, reserve, agreed, executed>>
      BY <1>5 DEF CreateConfidentialDeal, RegisterPrivateFundingCommitments, DepositEncrypted, CancelDeal,
                  RequestSettlementDecryption, ConfirmRelease, ResolveReleaseDispute, ResolveElsewhere,
                  ApproveCrossChain, Tick, vars, dealVars, ledger, vault, balances, funding, consent
    <2>2. QED BY <2>1, UnseenStep
  <1>6. QED BY <1>1, <1>2, <1>3, <1>4, <1>5 DEF Next

\* Credit leaves an owner only as a claim he makes, which is paid once, or as the payment of
\* the one release both parties agree to; what he locked stays his until then.
THEOREM ImplementsCreditPromise == Spec => KeepsCredit
  <1>1. Init => Promise!Init
    <2> SUFFICES ASSUME Init PROVE Promise!Init
      OBVIOUS
    <2>1. \A leg \in Legs : OpenAmount(leg) = 0 BY DEF Init, NoLock, OpenAmount
    <2>2. OpenAmount("BuyerPayment") = 0 /\ Bond = [o \in Owners |-> 0] BY <2>1, Names DEF Bond
    <2>3. CreditOf = [o \in Owners |-> 0] BY DEF Init, VaultInit, CreditOf
    <2>4. Queued = [w \in Withdrawals |-> 0] /\ Paid = {} BY DEF Init, VaultInit, Queued, Paid
    <2>5. QED BY <2>2, <2>3, <2>4 DEF Init, VaultInit, Promise!Init
  <1>2. QED BY <1>1, StepKeepsCredit, Invariant, PTL DEF Spec, KeepsCredit, Promise!Spec

-----------------------------------------------------------------------------
(* Credit can always be had. *)

\* The checks of execute_withdrawal_batch on withdrawal w: the reserve and the pending
\* counter cover it, and the vault that is left covers what it still owes.
Payable(w) ==
    LET n == withdrawal[w].amount
    IN  reserve >= n /\ pending >= n /\ reserve - n >= issued + (pending - n)

\* Once its delay is over no check refuses a queued withdrawal, however many others are
\* queued, and whatever the deal has locked, settled or refunded meanwhile.
WithdrawalsPayable ==
    \A w \in Withdrawals : withdrawal[w] # Free /\ ~withdrawal[w].executed => Payable(w)

\* The lamports of every queued withdrawal are in the vault, for any number of withdrawals.
THEOREM WithdrawalsNeverRefused == Spec => []WithdrawalsPayable
  <1>1. ASSUME IInv, NEW w \in Withdrawals, withdrawal[w] # Free, ~withdrawal[w].executed
        PROVE  Payable(w)
    <2>1. Queued[w] = withdrawal[w].amount BY <1>1 DEF Queued
    <2>2. VaultTypeOK /\ QueueCounted /\ reserve = issued + pending
      BY <1>1, TypeParts, LedgerParts DEF IInv, LedgerBalanced
    <2>3. Queued \in [Withdrawals -> Nat] /\ IsFiniteSet(Withdrawals) /\ Holdings(Queued) \in Nat
      BY <2>2, QueuedType
    <2>4. Queued[w] <= pending BY <2>2, <2>3, HoldingsBound DEF QueueCounted
    <2>5. Queued[w] \in Nat /\ issued \in Nat /\ pending \in Nat /\ reserve \in Nat
      BY <2>2, <2>3, VaultNumbers
    <2>6. QED BY <2>1, <2>2, <2>4, <2>5 DEF Payable
  <1>2. IInv => WithdrawalsPayable BY <1>1 DEF WithdrawalsPayable
  <1>3. QED BY <1>2, Invariant, PTL

\* The checks that stand between an owner and his credit.  One he has not locked can be
\* queued; one that is locked can be refunded, leg by leg; and when all three legs are open
\* the settlement finds the whole of them locked.  None of these changes what the vault holds
\* or owes, so its own check is the first conjunct.
CreditCovered ==
    /\ reserve >= issued + pending
    /\ \A o \in Owners : issued >= available[o]
    /\ \A leg \in Legs : lock[leg].state = "open" =>
            held[OwnerOf(leg)] >= lock[leg].amount /\ encumbered >= lock[leg].amount
    /\ (\A leg \in Legs : lock[leg].state = "open") =>
            /\ held["buyer"] >= lock["BuyerPayment"].amount + lock["BuyerCollateral"].amount
            /\ held["seller"] >= lock["SellerCollateral"].amount
            /\ encumbered >= lock["BuyerPayment"].amount + lock["BuyerCollateral"].amount
                             + lock["SellerCollateral"].amount

\* No sequence of instructions leaves credit behind a subtraction that underflows: not in
\* queue_withdrawal, emergency_refund_after_timeout or settle_locked_credit.
THEOREM CreditNeverStranded == Spec => []CreditCovered
  <1>1. ASSUME IInv PROVE CreditCovered
    <2>1. VaultTypeOK /\ TotalsBalanced /\ LocksBalanced
      BY <1>1, TypeParts, LedgerParts DEF IInv, BooksBalanced
    <2>2. \A leg \in Legs : lock[leg].amount \in Nat
      BY <1>1, TypeParts DEF IInv, FundingTypeOK
    <2>3. \A leg \in Legs : /\ OpenAmount(leg) \in Nat
                            /\ lock[leg].state = "open" => OpenAmount(leg) = lock[leg].amount
      BY <2>2 DEF OpenAmount
    <2>4. /\ OpenAmount("BuyerPayment") \in Nat /\ OpenAmount("BuyerCollateral") \in Nat
          /\ OpenAmount("SellerCollateral") \in Nat
      BY <2>3, Names
    <2>5. reserve >= issued + pending BY <2>1, VaultNumbers DEF TotalsBalanced
    <2>6. \A o \in Owners : issued >= available[o] BY <2>1, VaultNumbers DEF TotalsBalanced
    <2>7. ASSUME NEW leg \in Legs, lock[leg].state = "open"
          PROVE  held[OwnerOf(leg)] >= lock[leg].amount /\ encumbered >= lock[leg].amount
      <3>1. OpenAmount(leg) = lock[leg].amount BY <2>3, <2>7
      <3>2. held[OwnerOf(leg)] >= OpenAmount(leg)
        <4>1. CASE leg = "SellerCollateral"
          BY <2>1, <2>4, <4>1 DEF LocksBalanced, OwnerOf
        <4>2. CASE leg \in {"BuyerPayment", "BuyerCollateral"}
          BY <2>1, <2>4, <4>2 DEF LocksBalanced, OwnerOf
        <4>3. QED BY <4>1, <4>2, Names
      <3>3. encumbered >= held[OwnerOf(leg)] BY <2>1, VaultNumbers, Names DEF TotalsBalanced
      <3>4. OpenAmount(leg) \in Nat /\ held[OwnerOf(leg)] \in Nat /\ encumbered \in Nat
        BY <2>1, <2>3, VaultNumbers, Names
      <3>5. QED BY <3>1, <3>2, <3>3, <3>4
    <2>8. ASSUME \A leg \in Legs : lock[leg].state = "open"
          PROVE  /\ held["buyer"] >= lock["BuyerPayment"].amount + lock["BuyerCollateral"].amount
                 /\ held["seller"] >= lock["SellerCollateral"].amount
                 /\ encumbered >= lock["BuyerPayment"].amount + lock["BuyerCollateral"].amount
                                  + lock["SellerCollateral"].amount
      <3>1. /\ OpenAmount("BuyerPayment") = lock["BuyerPayment"].amount
            /\ OpenAmount("BuyerCollateral") = lock["BuyerCollateral"].amount
            /\ OpenAmount("SellerCollateral") = lock["SellerCollateral"].amount
        BY <2>3, <2>8, Names
      <3>2. QED BY <2>1, <2>4, <3>1, VaultNumbers DEF TotalsBalanced, LocksBalanced
    <2>9. QED BY <2>5, <2>6, <2>7, <2>8 DEF CreditCovered
  <1>2. QED BY <1>1, Invariant, PTL

-----------------------------------------------------------------------------
(* ConfidentialDeal implements ReleaseView, the chain that ReleaseFlow runs *)
(* against: whatever is submitted, in whatever order, the release of a deal *)
(* moves by the steps the agent knows of.                                   *)

\* The parts of the state the view reads and how each kind of step finds them.
LEMMA ShownTypes ==
    ASSUME IInv
    PROVE  /\ nonce \in [Parties -> Nat] /\ approved \in SUBSET Parties
           /\ confirmed \in BOOLEAN /\ authorized \in BOOLEAN /\ executed \in BOOLEAN
           /\ deadline \in Nat /\ now \in Nat
           /\ dispute_open <=> status = "Disputed"
  BY TypeParts DEF IInv, FundingTypeOK, ConsentTypeOK

\* What a payload may be numbered is a nonce of the view.
LEMMA NumberedShown ==
    ASSUME NEW p \in Parties, NEW n \in Numbered(p)
    PROVE  n \in AnyNonce
  BY DEF Numbered, AnyNonce

\* The clock changes nothing but the window, which it can only end.
LEMMA TickShown ==
    ASSUME IInv, Tick
    PROVE  [View!Next]_View!vars
  <1>1. deadline \in Nat /\ now \in Nat /\ now' = now + 1 BY ShownTypes DEF Tick
  <1>2. UNCHANGED <<ShownState, nonce, approved, confirmed, authorized, executed>> /\ deadline' = deadline
    BY DEF Tick, dealVars, ShownState
  <1>3. CASE ShownWindow' = ShownWindow
    BY <1>2, <1>3 DEF View!vars, View!consent
  <1>4. CASE ShownWindow' # ShownWindow
    <2>1. ShownWindow = "open" /\ ShownWindow' = "over" BY <1>1, <1>2, <1>4 DEF ShownWindow
    <2>2. View!WindowEnds BY <1>2, <2>1 DEF View!WindowEnds
    <2>3. QED BY <2>2 DEF View!Next
  <1>5. QED BY <1>3, <1>4

\* Funding moves the deal within the states the view does not tell apart.
LEMMA FundingShown ==
    ASSUME IInv,
           \/ Credit
           \/ \E b \in Bets : CreateConfidentialDeal(b)
           \/ \E amounts \in Plans : RegisterPrivateFundingCommitments(amounts)
           \/ \E leg \in Legs : \/ DepositEncrypted(leg)
                                \/ LockCreditForDeal(leg)
                                \/ EmergencyRefundAfterTimeout(leg)
           \/ CancelDeal
           \/ RequestSettlementDecryption
    PROVE  [View!Next]_View!vars
  <1>1. ASSUME Credit PROVE UNCHANGED View!vars
    BY <1>1 DEF Credit, dealVars, View!vars, View!consent, ShownState, ShownWindow
  <1>2. ASSUME NEW b \in Bets, CreateConfidentialDeal(b) PROVE View!Next
    <2>1. /\ ShownState = "None" /\ ShownState' = "Open" /\ ShownWindow' = ShownWindow
          /\ UNCHANGED <<nonce, approved, confirmed, authorized, executed>>
      BY <1>2 DEF CreateConfidentialDeal, ShownState, ShownWindow, consent
    <2>2. QED BY <2>1 DEF View!Next, View!Create, View!consent
  <1>3. ASSUME NEW amounts \in Plans, RegisterPrivateFundingCommitments(amounts)
        PROVE  UNCHANGED View!vars
    BY <1>3 DEF RegisterPrivateFundingCommitments, View!vars, View!consent, consent, ShownState, ShownWindow
  <1>4. ASSUME NEW leg \in Legs, DepositEncrypted(leg) PROVE UNCHANGED View!vars
    <2>1. /\ ShownState = "Open" /\ ShownState' = "Open" /\ ShownWindow' = ShownWindow
          /\ UNCHANGED <<nonce, approved, confirmed, authorized, executed>>
      BY <1>4 DEF DepositEncrypted, Fundable, StatusWith, ShownState, ShownWindow, consent
    <2>2. QED BY <2>1 DEF View!vars, View!consent
  <1>5. ASSUME NEW leg \in Legs, LockCreditForDeal(leg) PROVE UNCHANGED View!vars
    <2>1. /\ ShownState = "Open" /\ ShownState' = "Open" /\ ShownWindow' = ShownWindow
          /\ UNCHANGED <<nonce, approved, confirmed, authorized, executed>>
      BY <1>5 DEF LockCreditForDeal, Fundable, StatusWith, ShownState, ShownWindow, consent
    <2>2. QED BY <2>1 DEF View!vars, View!consent
  <1>6. ASSUME NEW leg \in Legs, EmergencyRefundAfterTimeout(leg) PROVE UNCHANGED View!vars
    BY <1>6 DEF EmergencyRefundAfterTimeout, View!vars, View!consent, consent, ShownState, ShownWindow
  <1>7. ASSUME CancelDeal PROVE UNCHANGED View!vars
    BY <1>7 DEF CancelDeal, Fundable, View!vars, View!consent, consent, ShownState, ShownWindow
  <1>8. ASSUME RequestSettlementDecryption PROVE View!Next
    <2>1. /\ ShownState = "Open" /\ ShownState' = "Settling" /\ ShownWindow' = ShownWindow
          /\ UNCHANGED <<nonce, approved, confirmed, authorized, executed>>
      BY <1>8 DEF RequestSettlementDecryption, ShownState, ShownWindow, consent
    <2>2. QED BY <2>1 DEF View!Next, View!Request, View!consent
  <1>9. QED BY <1>1, <1>2, <1>3, <1>4, <1>5, <1>6, <1>7, <1>8

\* Payloads of either party.
LEMMA PayloadShown ==
    ASSUME IInv, Window > 0, NEW p \in Parties, NEW n \in AnyNonce, NEW e,
           \/ SubmitReleaseApproval(p, n, e)
           \/ p = "buyer" /\ ConfirmRelease(n, e)
           \/ RevokeReleaseApproval(p, n)
           \/ OpenReleaseDispute(p, n)
    PROVE  View!Next
  <1>1. ASSUME SubmitReleaseApproval(p, n, e) PROVE View!Submit(p, n)
    <2>1. /\ ShownState = "Settling" /\ ShownState' = "Settling" /\ ShownWindow' = "none"
      BY <1>1 DEF SubmitReleaseApproval, Negotiable, funding, ShownState, ShownWindow
    <2>2. View!CanSubmit(p, n)
      BY <1>1, <2>1 DEF SubmitReleaseApproval, Negotiable, FreshNonce, View!CanSubmit, View!Negotiable,
                        View!Fresh
    <2>3. View!Signs(p, n) /\ authorized' = FALSE /\ ~authorized /\ authorized \in BOOLEAN
      BY <1>1, ShownTypes DEF SubmitReleaseApproval, Negotiable, Signed, View!Signs
    <2>4. QED
      BY <1>1, <2>1, <2>2, <2>3 DEF SubmitReleaseApproval, View!Submit
  <1>2. ASSUME p = "buyer", ConfirmRelease(n, e) PROVE View!Confirm(n)
    <2>1. ShownState = "Settling" /\ ShownState' = "Settling"
      BY <1>2 DEF ConfirmRelease, Negotiable, funding, ShownState
    <2>2. ShownWindow' \in {"open", "over"}
      <3>1. now \in Nat /\ Window \in Nat /\ deadline' = now + Window
        BY <1>2, ShownTypes, DealAssumption DEF ConfirmRelease
      <3>2. deadline' # 0 BY <3>1
      <3>3. QED BY <3>2 DEF ShownWindow
    <2>3. View!CanConfirm(n)
      BY <1>2, <2>1 DEF ConfirmRelease, Negotiable, FreshNonce, View!CanConfirm, View!CanSubmit,
                        View!Negotiable, View!Fresh
    <2>4. View!Signs("buyer", n) /\ authorized' = FALSE /\ ~authorized /\ authorized \in BOOLEAN
      BY <1>2, ShownTypes DEF ConfirmRelease, Negotiable, Signed, View!Signs
    <2>5. QED BY <1>2, <2>1, <2>2, <2>3, <2>4 DEF ConfirmRelease, View!Confirm
  <1>3. ASSUME RevokeReleaseApproval(p, n) PROVE View!Revoke(p, n)
    <2>1. ShownState' = ShownState /\ ShownState # "None" /\ ShownWindow' = "none"
      BY <1>3 DEF RevokeReleaseApproval, funding, ShownState, ShownWindow
    <2>2. View!CanRevoke(p, n)
      BY <1>3, <2>1 DEF RevokeReleaseApproval, FreshNonce, View!CanRevoke, View!Fresh
    <2>3. View!Signs(p, n) /\ authorized' = FALSE /\ ~authorized /\ authorized \in BOOLEAN
      BY <1>3, ShownTypes DEF RevokeReleaseApproval, Signed, View!Signs
    <2>4. QED BY <1>3, <2>1, <2>2, <2>3 DEF RevokeReleaseApproval, View!Revoke
  <1>4. ASSUME OpenReleaseDispute(p, n) PROVE View!Dispute(p, n)
    <2>1. ShownState # "None" /\ ShownState' = "Disputed" /\ ShownWindow' = "none"
      BY <1>4 DEF OpenReleaseDispute, ShownState, ShownWindow
    <2>2. View!CanDispute(p, n)
      BY <1>4, <2>1 DEF OpenReleaseDispute, FreshNonce, View!CanDispute, View!Fresh
    <2>3. View!Signs(p, n) /\ authorized' = FALSE
      BY <1>4 DEF OpenReleaseDispute, Signed, View!Signs
    <2>4. QED BY <1>4, <2>1, <2>2, <2>3 DEF OpenReleaseDispute, View!Dispute
  <1>5. "buyer" \in Parties BY Names
  <1>6. QED BY <1>1, <1>2, <1>3, <1>4, <1>5 DEF View!Next

\* Resolution, authorization and the two settlements.
LEMMA SettlementShown ==
    ASSUME IInv,
           \/ \E S \in SUBSET Parties : ResolveReleaseDispute(S)
           \/ \E p \in Parties : ResolveElsewhere(p)
           \/ ApproveCrossChain
           \/ RevealAndRelease
           \/ \E valid \in BOOLEAN : SettleLockedCredit(valid)
    PROVE  [View!Next]_View!vars
  <1>1. ASSUME NEW S \in SUBSET Parties, ResolveReleaseDispute(S) PROVE View!Resolve
    <2>1. status = "Disputed" BY <1>1, ShownTypes DEF ResolveReleaseDispute
    <2>2. ShownState = "Disputed" /\ ShownState' = "Settling" /\ ShownWindow' = "none"
      BY <1>1, <2>1 DEF ResolveReleaseDispute, Resolved, ShownState, ShownWindow
    <2>3. QED BY <1>1, <2>2 DEF ResolveReleaseDispute, ApprovalsLeft, View!Resolve
  <1>2. ASSUME NEW p \in Parties, ResolveElsewhere(p) PROVE UNCHANGED View!vars
    BY <1>2 DEF ResolveElsewhere, funding, View!vars, View!consent, ShownState, ShownWindow
  <1>3. ASSUME ApproveCrossChain PROVE View!Authorize
    <2>1. ShownState = "Settling" /\ ShownState' = "Settling" /\ ShownWindow' = ShownWindow
      BY <1>3 DEF ApproveCrossChain, Negotiable, funding, ShownState, ShownWindow
    <2>2. ShownWindow = "over"
      <3>1. deadline \in Nat /\ deadline > 0 /\ now >= deadline
        BY <1>3, ShownTypes DEF ApproveCrossChain
      <3>2. QED BY <3>1 DEF ShownWindow
    <2>3. approved = Parties BY <1>3 DEF ApproveCrossChain, IInv, ConsentOrder
    <2>4. View!CanAuthorize
      BY <1>3, <2>1, <2>2, <2>3 DEF ApproveCrossChain, Negotiable, View!CanAuthorize, View!Negotiable
    <2>5. QED BY <1>3, <2>1, <2>4 DEF ApproveCrossChain, View!Authorize
  <1>4. ASSUME \/ RevealAndRelease
               \/ \E valid \in BOOLEAN : SettleLockedCredit(valid)
        PROVE  View!Execute
    <2>1. /\ Releasable /\ status' = "Completed" /\ executed' = TRUE /\ now' = now
          /\ UNCHANGED consent
      BY <1>4 DEF RevealAndRelease, SettleLockedCredit
    <2>2. ShownState = "Settling" /\ ShownState' = "Completed" /\ ShownWindow' = ShownWindow
      BY <2>1 DEF Releasable, consent, ShownState, ShownWindow
    <2>3. View!CanExecute BY <2>1, <2>2 DEF Releasable, View!CanExecute
    <2>4. UNCHANGED View!consent BY <2>1, <2>2 DEF consent, View!consent
    <2>5. QED BY <2>1, <2>2, <2>3, <2>4 DEF View!Execute
  <1>5. QED BY <1>1, <1>2, <1>3, <1>4 DEF View!Next

\* The program implements ReleaseView, for every dispute window of at least a second.
THEOREM ImplementsReleaseView == ASSUME Window > 0 PROVE Spec => ShowsRelease
  <1>1. Init => View!Init
    <2>1. Init => ShownState = "None" /\ ShownWindow = "none" BY DEF Init, ShownState, ShownWindow
    <2>2. QED BY <2>1 DEF Init, View!Init
  <1>2. ASSUME IInv, [Next]_vars PROVE [View!Next]_View!vars
    <2>1. ASSUME NEW p \in Parties, NEW n \in Numbered(p),
                 \/ \E e \in Expiries : SubmitReleaseApproval(p, n, e) \/ (p = "buyer" /\ ConfirmRelease(n, e))
                 \/ RevokeReleaseApproval(p, n)
                 \/ OpenReleaseDispute(p, n)
          PROVE  View!Next
      BY <1>2, <2>1, NumberedShown, PayloadShown
    <2>2. ASSUME UNCHANGED vars PROVE UNCHANGED View!vars
      BY <2>2 DEF vars, dealVars, View!vars, View!consent, ShownState, ShownWindow
    <2>3. QED BY <1>2, <2>1, <2>2, TickShown, FundingShown, SettlementShown DEF Next
  <1>3. QED BY <1>1, <1>2, Invariant, PTL DEF Spec, ShowsRelease, View!Spec
=============================================================================
