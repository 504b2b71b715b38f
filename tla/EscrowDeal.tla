------------------------------ MODULE EscrowDeal ------------------------------
(***************************************************************************)
(* The escrow program (escrow/programs/escrow/src/lib.rs) seen from one    *)
(* deal address, i.e. one pair (buyer, deal_id): the global config, the    *)
(* deal account living at that address (it can be closed and created       *)
(* again), the lamports of the account above rent ("pda"), the associated  *)
(* token account of the address ("ata"), and the wallets of the keys.      *)
(*                                                                         *)
(* One action is one instruction: Solana runs an instruction atomically    *)
(* and rolls it back when a require! or an arithmetic check fails, so a    *)
(* failing instruction is an action that is not enabled.                   *)
(***************************************************************************)
EXTENDS Integers, EscrowTerms, Accounts

CONSTANTS
    Keys,          \* public keys that sign instructions
    Admins,        \* keys that may be first to call initialize_config
    NoKey,         \* no key: no config account yet, or nobody has signed yet
    Hashes,        \* SHA-256 digests of payloads somebody can reveal
    ZeroHash,      \* [0u8; 32]
    NoHash,        \* Option::None
    Offers,        \* argument tuples somebody may pass to create_deal
    NoDeal,        \* no account data at the address
    Native,        \* TRUE when the mint of the address is the native (wSOL) mint
    Wallet0,       \* what each key owns at the start
    Gifts,         \* sizes of plain transfers to the address
    MaxTime,       \* last value of the on-chain clock (bound)
    MaxU64         \* u64::MAX, scaled down for TLC

OfferSet ==
    [buyer : Keys, seller : Keys, middleman : Keys,
     price : 0..MaxU64, collateral_buyer : 0..MaxU64, collateral_seller : 0..MaxU64,
     timeout : Nat, trade_mode : TradeModes, terms_hash : Hashes \cup {ZeroHash, NoHash}]

ASSUME EscrowAssumption ==
    /\ IsFiniteSet(Keys)
    /\ NoKey \notin Keys
    /\ Admins \subseteq Keys
    /\ Offers \subseteq OfferSet
    /\ NoDeal \notin OfferSet
    /\ Native \in BOOLEAN
    /\ Wallet0 \in [Keys -> Nat]
    /\ Gifts \subseteq Nat \ {0}
    /\ MaxTime \in Nat
    /\ MaxU64 \in Nat

VARIABLES
    authority,     \* Config.authority, NoKey before initialize_config
    paused,        \* Config.paused
    now,           \* Clock::get()?.unix_timestamp
    status,        \* Deal.status, "None" while there is no account
    deal,          \* the fields of Deal that only create_deal writes
    locked,        \* the deposits whose *_locked flag is set
    terms_revealed,\* Deal.terms_revealed
    pda,           \* lamports of the deal account above its rent
    ata,           \* amount of deal_ata, survives close_deal
    wallet,        \* what each key owns outside the escrow
    \* history variables, read by no guard
    stake,         \* what each role moved in with lock_* since create_deal
    got,           \* what the settlement paid each role since create_deal
    plain,         \* everything else that came in, minus what close_deal swept
    signer         \* signer of the last instruction

chain == <<authority, paused, now, status, deal, locked, terms_revealed, pda, ata, wallet>>
vars == <<authority, paused, now, status, deal, locked, terms_revealed, pda, ata, wallet,
          stake, got, plain, signer>>

\* Deal::is_terminal.
Terminal == status \in {"Completed", "Refunded", "Cancelled"}
Live == status \in {"Created", "CollateralLocked", "PaymentLocked"}

Participants == {deal.buyer, deal.seller, deal.middleman}

\* The account a settlement pays from and confirm_deposit reads.
Vault == IF Native THEN pda ELSE ata

\* What the program owes each role, and in total.
Owed == OwedBy(deal, locked)
Locked == Total(Owed)

\* Mutant: an else-if chain pays a key that plays two roles only once.
CreditedOnce(pay) ==
    [k \in Keys |-> wallet[k] + (IF k = deal.buyer THEN pay["buyer"]
                                ELSE IF k = deal.seller THEN pay["seller"]
                                ELSE IF k = deal.middleman THEN pay["middleman"] ELSE 0)]

\* Adds pay[r] to the wallet of the key that plays r; one key may play several roles.
Credited(pay) ==
    [k \in Keys |-> wallet[k] + (IF k = deal.buyer THEN pay["buyer"] ELSE 0)
                              + (IF k = deal.seller THEN pay["seller"] ELSE 0)
                              + (IF k = deal.middleman THEN pay["middleman"] ELSE 0)]

-----------------------------------------------------------------------------
TypeOK ==
    /\ authority \in Keys \cup {NoKey}
    /\ paused \in BOOLEAN
    /\ now \in Nat
    /\ status \in {"None", "Created", "CollateralLocked", "PaymentLocked",
                   "Completed", "Refunded", "Cancelled"}
    /\ deal \in Offers \cup {NoDeal}
    /\ (deal = NoDeal) <=> (status = "None")
    /\ locked \in SUBSET Deposits
    /\ terms_revealed \in BOOLEAN
    /\ pda \in 0..MaxU64
    /\ ata \in 0..MaxU64
    /\ wallet \in [Keys -> Nat]
    /\ stake \in [Roles -> Nat]
    /\ got \in [Roles -> Nat]
    /\ plain \in Nat
    /\ signer \in Keys \cup {NoKey}

Init ==
    /\ authority = NoKey
    /\ paused = FALSE
    /\ now = 0
    /\ status = "None"
    /\ deal = NoDeal
    /\ locked = {}
    /\ terms_revealed = FALSE
    /\ pda = 0
    /\ ata = 0
    /\ wallet = Wallet0
    /\ stake = Zero
    /\ got = Zero
    /\ plain = 0
    /\ signer = NoKey

\* The account contexts: which accounts must exist and who may sign.  Anchor checks
\* them before the handler runs; those with a config account need it initialized.
HasConfig == authority # NoKey
HasDeal == status # "None"
InitializeConfigAccounts == ~HasConfig
SetPausedAccounts(k) == HasConfig /\ k = authority
CreateDealAccounts(k, o) == HasConfig /\ ~HasDeal /\ k \in {o.buyer, o.middleman}
LockCollateralAccounts(k) == HasConfig /\ HasDeal /\ k \in {deal.buyer, deal.seller}
LockPaymentAccounts(k) == HasConfig /\ HasDeal /\ k = deal.buyer
ReleaseFundsAccounts(k) == HasConfig /\ HasDeal /\ k = deal.middleman
CancelDealAccounts(k) == HasConfig /\ HasDeal /\ k \in Participants
RefundOnTimeoutAccounts(k) == HasConfig /\ HasDeal /\ k \in Participants
CloseDealAccounts(k, receiver) == HasDeal /\ {k, receiver} \subseteq Participants
ConfirmDepositAccounts(k) == HasConfig /\ HasDeal /\ k = deal.middleman
RevealTermsAccounts(k) == HasDeal /\ k \in Participants

-----------------------------------------------------------------------------
\* initialize_config: `init` fails when the account exists, so the first caller wins.
InitializeConfig(k) ==
    /\ InitializeConfigAccounts
    /\ authority' = k
    /\ paused' = FALSE
    /\ signer' = k
    /\ UNCHANGED <<now, status, deal, locked, terms_revealed, pda, ata, wallet, stake, got, plain>>

\* set_paused
SetPaused(k, p) ==
    /\ SetPausedAccounts(k)
    /\ paused' = p
    /\ signer' = k
    /\ UNCHANGED <<authority, now, status, deal, locked, terms_revealed, pda, ata, wallet,
                   stake, got, plain>>

\* create_deal
CreateDeal(k, o) ==
    /\ CreateDealAccounts(k, o)
    /\ ~paused
    /\ o.price > 0 /\ o.collateral_buyer > 0 /\ o.collateral_seller > 0
    /\ o.timeout > now
    /\ o.trade_mode = "Privacy" => o.terms_hash \notin {ZeroHash, NoHash}
    /\ status' = "Created"
    /\ deal' = o
    /\ locked' = {}
    /\ terms_revealed' = FALSE
    /\ signer' = k
    /\ UNCHANGED <<authority, paused, now, pda, ata, wallet, stake, got, plain>>

\* The status once the flags in L are set: both collaterals advance a Created deal.
Advanced(L) ==
    IF {"BuyerCollateral", "SellerCollateral"} \subseteq L THEN "CollateralLocked" ELSE "Created"

\* Mutant: the balance of the payer is not looked at.
MoveInUnchecked(k, d, r) ==
    /\ wallet' = [wallet EXCEPT ![k] = @ - Amount(deal, d)]
    /\ ata' = ata + Amount(deal, d)
    /\ stake' = [stake EXCEPT ![r] = @ + Amount(deal, d)]
    /\ locked' = locked \cup {d}

\* The CPI that moves Amount(deal, d) from the signer's token account to deal_ata,
\* whatever the mint: the token program rejects a balance that is too small and a
\* sum that does not fit in a u64.
MoveIn(k, d, r) ==
    /\ wallet[k] >= Amount(deal, d)
    /\ ata + Amount(deal, d) <= MaxU64
    /\ wallet' = [wallet EXCEPT ![k] = @ - Amount(deal, d)]
    /\ ata' = ata + Amount(deal, d)
    /\ stake' = [stake EXCEPT ![r] = @ + Amount(deal, d)]
    /\ locked' = locked \cup {d}

\* lock_collateral: a key that is both buyer and seller is taken for the buyer.
LockCollateral(k) ==
    /\ LockCollateralAccounts(k)
    /\ ~paused
    /\ status = "Created"
    /\ \/ /\ k = deal.buyer
          /\ "BuyerCollateral" \notin locked
          /\ MoveIn(k, "BuyerCollateral", "buyer")
       \/ /\ k # deal.buyer
          /\ k = deal.seller
          /\ "SellerCollateral" \notin locked
          /\ MoveIn(k, "SellerCollateral", "seller")
    /\ status' = Advanced(locked')
    /\ signer' = k
    /\ UNCHANGED <<authority, paused, now, deal, terms_revealed, pda, got, plain>>

\* lock_payment
LockPayment(k) ==
    /\ LockPaymentAccounts(k)
    /\ ~paused
    /\ status = "CollateralLocked"
    /\ "BuyerPayment" \notin locked
    /\ MoveIn(k, "BuyerPayment", "buyer")
    /\ status' = "PaymentLocked"
    /\ signer' = k
    /\ UNCHANGED <<authority, paused, now, deal, terms_revealed, pda, got, plain>>

\* Mutant: each deposit is compared with the balance on its own.
ExpectedAlone(d) == Amount(deal, d)

\* What confirm_deposit requires the vault to hold before it sets flag d.
Expected(d) ==
    [BuyerCollateral  |-> deal.collateral_buyer + Flagged(deal, locked, "SellerCollateral"),
     SellerCollateral |-> deal.collateral_seller + Flagged(deal, locked, "BuyerCollateral"),
     BuyerPayment     |-> deal.collateral_buyer + deal.collateral_seller + deal.price][d]

\* confirm_deposit: no funds move, the flag records that the balance is there.
ConfirmDeposit(k, d) ==
    /\ ConfirmDepositAccounts(k)
    /\ ~paused
    /\ status = IF d = "BuyerPayment" THEN "CollateralLocked" ELSE "Created"
    /\ d \notin locked
    /\ Expected(d) <= MaxU64
    /\ Expected(d) <= Vault
    /\ locked' = locked \cup {d}
    /\ status' = IF d = "BuyerPayment" THEN "PaymentLocked" ELSE Advanced(locked')
    /\ signer' = k
    /\ UNCHANGED <<authority, paused, now, deal, terms_revealed, pda, ata, wallet,
                   stake, got, plain>>

\* transfer_lamports_from_pda and transfer_tokens_from_pda, once per role.
PayOut(pay) ==
    /\ pda' = IF Native THEN pda - Total(pay) ELSE pda
    /\ ata' = IF Native THEN ata ELSE ata - Total(pay)
    /\ wallet' = Credited(pay)

\* assert_rent_safe for lamports, the amount check for tokens.
Covered(n) == n <= Vault

\* The tail of release_funds, cancel_deal and refund_on_timeout: checked sums,
\* balance check, transfers out of the vault, final status.
Settle(k, pay, final) ==
    /\ Total(pay) <= MaxU64
    /\ Covered(Total(pay))
    /\ PayOut(pay)
    /\ got' = [r \in Roles |-> got[r] + pay[r]]
    /\ status' = final
    /\ signer' = k
    /\ UNCHANGED <<authority, paused, now, deal, locked, terms_revealed, stake, plain>>

\* release_funds
ReleaseFunds(k) ==
    /\ ReleaseFundsAccounts(k)
    /\ ~paused
    /\ status = "PaymentLocked"
    /\ locked = Deposits
    /\ Settle(k, ReleaseSplit(deal), "Completed")

\* Mutant: nobody asks who cancels.
CancellableByAll(k) == status \in {"Created", "CollateralLocked"}

\* cancel_deal: the arbiter alone may cancel once both collaterals are in, and nobody
\* once the payment is.
Cancellable(k) ==
    \/ status = "Created"
    \/ status = "CollateralLocked" /\ k = deal.middleman

CancelDeal(k) ==
    /\ CancelDealAccounts(k)
    /\ ~paused
    /\ Cancellable(k)
    /\ Settle(k, OwedBy(deal, locked \ {"BuyerPayment"}), "Cancelled")

\* Mutants: a cancelled or refunded deal is refunded again; only an unfunded deal is.
RefundableAgain == HasDeal /\ status # "Completed"
RefundableUnfunded == status = "Created"

\* refund_on_timeout: the three terminal states are refused one by one.
Refundable == status \notin {"Completed", "Refunded", "Cancelled"}

RefundOnTimeout(k) ==
    /\ RefundOnTimeoutAccounts(k)
    /\ ~paused
    /\ Refundable
    /\ now > deal.timeout
    /\ Settle(k, Owed, "Refunded")

\* close_deal: not gated by the pause; Anchor's `close` sends every lamport of the
\* account to the receiver, the token account stays.
CloseDeal(k, receiver) ==
    /\ CloseDealAccounts(k, receiver)
    /\ Terminal
    /\ wallet' = [wallet EXCEPT ![receiver] = @ + pda]
    /\ pda' = 0
    /\ status' = "None"
    /\ deal' = NoDeal
    /\ locked' = {}
    /\ terms_revealed' = FALSE
    /\ stake' = Zero
    /\ got' = Zero
    /\ plain' = ata
    /\ signer' = k
    /\ UNCHANGED <<authority, paused, now, ata>>

\* reveal_and_verify_terms: neither the pause nor the config is looked at. A hash is
\* identified with its pre-image, so hashing the revealed payload p yields p.
RevealTerms(k, p) ==
    /\ RevealTermsAccounts(k)
    /\ deal.trade_mode = "Privacy"
    /\ Terminal
    /\ ~terms_revealed
    /\ p = deal.terms_hash
    /\ terms_revealed' = TRUE
    /\ signer' = k
    /\ UNCHANGED <<authority, paused, now, status, deal, locked, pda, ata, wallet, stake, got, plain>>

\* A plain transfer to the address, outside the program: lamports to the account
\* (which must exist, clients learn the address when it does), tokens to deal_ata.
PlainTransfer(k, n) ==
    /\ wallet[k] >= n
    /\ Vault + n <= MaxU64
    /\ Native => status # "None"
    /\ wallet' = [wallet EXCEPT ![k] = @ - n]
    /\ pda' = IF Native THEN pda + n ELSE pda
    /\ ata' = IF Native THEN ata ELSE ata + n
    /\ plain' = plain + n
    /\ UNCHANGED <<authority, paused, now, status, deal, locked, terms_revealed, stake, got, signer>>

\* The cluster's clock.
Tick ==
    /\ now < MaxTime
    /\ now' = now + 1
    /\ UNCHANGED <<authority, paused, status, deal, locked, terms_revealed, pda, ata, wallet,
                   stake, got, plain, signer>>

Next ==
    \/ \E k \in Keys :
        \/ k \in Admins /\ InitializeConfig(k)
        \/ \E p \in BOOLEAN : SetPaused(k, p)
        \/ \E o \in Offers : CreateDeal(k, o)
        \/ LockCollateral(k)
        \/ LockPayment(k)
        \/ \E d \in Deposits : ConfirmDeposit(k, d)
        \/ ReleaseFunds(k)
        \/ CancelDeal(k)
        \/ RefundOnTimeout(k)
        \/ \E receiver \in Keys : CloseDeal(k, receiver)
        \/ \E p \in Hashes : RevealTerms(k, p)
        \/ \E n \in Gifts : PlainTransfer(k, n)
    \/ Tick

Spec == Init /\ [][Next]_vars

-----------------------------------------------------------------------------
\* The flags and the status agree: collaterals advance the deal exactly when both
\* are in, a payment is only ever flagged on top of both collaterals.  Four
\* instructions write flags and status separately (lock_collateral, lock_payment,
\* confirm_deposit, and the settlements that leave the flags set).
FlagsMatchStatus ==
    /\ status = "None" => locked = {}
    /\ status = "Created" => locked \in {{}, {"BuyerCollateral"}, {"SellerCollateral"}}
    /\ status = "CollateralLocked" => locked = {"BuyerCollateral", "SellerCollateral"}
    /\ status \in {"PaymentLocked", "Completed"} => locked = Deposits
    /\ status = "Cancelled" => "BuyerPayment" \notin locked

\* While a deal is live the vault covers everything the flags promise, so neither
\* the balance check nor a checked_add can reject its settlement, whatever mix of
\* lock_*, plain transfers, confirm_deposit and leftovers of an earlier deal at the
\* same address filled it.
Solvent == Live => Locked <= Vault /\ Locked <= MaxU64

\* For lamports: what was flagged on the strength of a plain deposit (all but what
\* lock_* moved into deal_ata) stays covered by the lamports of the account.
NativeCovered == Native /\ Live => Locked <= pda + Total(stake)

\* What a role moved in through lock_* is part of what it is owed, and nothing is left
\* of it once the account is closed.
StakeOwed ==
    /\ \A r \in Roles : stake[r] <= Owed[r]
    /\ ~HasDeal => stake = Zero

\* A settlement pays once, and to each role exactly its due: the release split
\* adds up to everything locked, a refund or a cancellation returns each deposit
\* to the role that owes it.
PaidExactly ==
    /\ status = "None" \/ Live => got = Zero
    /\ status = "Completed" => got = ReleaseSplit(deal) /\ Total(got) = Locked
    /\ status \in {"Refunded", "Cancelled"} => got = Owed

\* Whoever moved funds in with lock_collateral or lock_payment gets all of them back
\* unless the deal completed, and then all but the price and nothing less.
StakeReturned ==
    /\ status \in {"Refunded", "Cancelled"} => \A r \in Roles : got[r] >= stake[r]
    /\ status = "Completed" => /\ got["buyer"] >= stake["buyer"] - deal.price
                               /\ got["seller"] >= stake["seller"]

\* Every unit that entered the address is still there or was paid by the settlement:
\* nothing is counted twice by locking and confirming the same deposit.
Accounted == pda + ata + Total(got) = Total(stake) + plain

\* No unit is created or destroyed, whichever keys the roles share: what the wallets
\* and the two accounts of the address hold is what the wallets held at the start.
Supply == Holdings(Wallet0)
Conserved == pda + ata + Holdings(wallet) = Supply

\* The inductive invariant behind the safety properties above.
IInv ==
    /\ TypeOK
    /\ FlagsMatchStatus
    /\ ~Native => Solvent
    /\ NativeCovered
    /\ StakeOwed
    /\ PaidExactly
    /\ Accounted

\* From the moment both collaterals are in, and until the deadline, a settlement
\* needs the middleman's signature: no party can get out of the deal alone.
NoPartyExitsAlone ==
    [][(status \in {"CollateralLocked", "PaymentLocked"} /\ Total(got') > Total(got))
         => (signer' = deal.middleman \/ now > deal.timeout)]_vars

\* Once the payment is in and before the deadline the seller cannot be deprived of
\* it by anybody, the middleman included: the only way out is the release.
PaymentIsCommitted ==
    [][(status = "PaymentLocked" /\ status' # status)
         => (status' = "Completed" \/ now > deal.timeout)]_vars

\* The comment on refund_on_timeout (lib.rs:1127): "Refunds all locked funds if the
\* deal has timed out", so its balance check must pass for a timed-out deal.
RefundAvailable == Live /\ now > deal.timeout => Locked <= Vault

\* The escrow as seen by its users: what it owes and what it paid.
Promise == INSTANCE EscrowPromise WITH
    phase <- (IF status = "None" THEN "none" ELSE IF Terminal THEN "settled" ELSE "open"),
    owed  <- Owed,
    paid  <- got

\* The program implements the promise: see EscrowPromise.
KeepsPromise == Promise!Spec

\* The escrow as read by its clients: EscrowView, with the deadline of the deal account.
View == INSTANCE EscrowView WITH late <- HasDeal /\ now > deal.timeout

\* What clients see of the escrow moves as EscrowView says, whatever instruction runs.
ShowsView == View!Spec

-----------------------------------------------------------------------------
\* The clock goes on, and some participant keeps trying to refund: each of the three may
\* sign, and the SDK offers it to the parties (claimTimeoutRefund) for the case that the
\* middleman does not.  Strong fairness, because pauses disable the refund again and again.
FairSpec == Spec /\ WF_vars(Tick) /\ SF_vars(\E k \in Keys : RefundOnTimeout(k))

\* No live deal outlasts its deadline for ever, unless the program stays paused:
\* funds are never stuck.
NeverStuck == ([]<>(HasConfig /\ ~paused)) => (Live ~> (Terminal \/ ~HasDeal))
=============================================================================
