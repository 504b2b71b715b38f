----------------------------- MODULE CreditVault -----------------------------
(***************************************************************************)
(* The credit ledger of the confidential escrow program: SOL in one vault, *)
(* internal credit of each owner, part of it locked for a deal, and queued *)
(* withdrawals.  The instructions that lock, settle and refund credit also *)
(* act on a deal: they are in ConfidentialDeal, which extends this module. *)
(***************************************************************************)
EXTENDS Integers, FiniteSets

CONSTANTS Owners,       \* wallets with credit
          Wallet0,      \* SOL of each owner at the start
          Amounts,      \* amounts to deposit or withdraw
          Withdrawals,  \* withdrawal ids
          Delays,       \* values of not_before_ts
          Free          \* a withdrawal id without an account

WithdrawalRecords == [owner : Owners, amount : Amounts, after : Delays, executed : BOOLEAN]

ASSUME VaultAssumption ==
    /\ Wallet0 \in [Owners -> Nat]
    /\ Amounts \subseteq Nat \ {0}
    /\ Delays \subseteq Nat
    /\ IsFiniteSet(Owners) /\ IsFiniteSet(Withdrawals)
    /\ Free \notin WithdrawalRecords

VARIABLES
    wallet,      \* SOL each owner still has outside the program
    reserve,     \* lamports of the vault above rent
    issued,      \* total_issued_credit
    encumbered,  \* total_locked_credit
    pending,     \* pending_withdrawal_lamports
    available,   \* available_lamports of each CreditBalance
    held,        \* locked_lamports of each CreditBalance
    withdrawal   \* the CreditWithdrawal accounts

balances == <<available, held>>
vault == <<reserve, issued, encumbered, pending>>
ledger == <<wallet, reserve, issued, encumbered, pending, available, held, withdrawal>>

VaultTypeOK ==
    /\ wallet \in [Owners -> Nat]
    /\ reserve \in Nat /\ issued \in Nat /\ encumbered \in Nat /\ pending \in Nat
    /\ available \in [Owners -> Nat]
    /\ held \in [Owners -> Nat]
    /\ withdrawal \in [Withdrawals -> WithdrawalRecords \cup {Free}]

VaultInit ==
    /\ wallet = Wallet0
    /\ reserve = 0 /\ issued = 0 /\ encumbered = 0 /\ pending = 0
    /\ available = [o \in Owners |-> 0]
    /\ held = [o \in Owners |-> 0]
    /\ withdrawal = [w \in Withdrawals |-> Free]

\* validate_vault_reserve, run on the vault an instruction leaves behind.
validate_vault_reserve == reserve' >= issued' + pending'

\* deposit_sol_for_credit
DepositSolForCredit(o, n) ==
    /\ wallet[o] >= n
    /\ wallet' = [wallet EXCEPT ![o] = @ - n]
    /\ reserve' = reserve + n
    /\ issued' = issued + n
    /\ available' = [available EXCEPT ![o] = @ + n]
    /\ UNCHANGED <<encumbered, pending, held, withdrawal>>
    /\ validate_vault_reserve

\* The part of lock_credit_for_deal that moves credit.
LockCredit(o, n) ==
    /\ available[o] >= n
    /\ available' = [available EXCEPT ![o] = @ - n]
    /\ held' = [held EXCEPT ![o] = @ + n]
    /\ encumbered' = encumbered + n
    /\ UNCHANGED <<wallet, reserve, issued, pending, withdrawal>>
    /\ validate_vault_reserve

\* Mutant: the payment is credited to the seller and stays locked with the buyer.
TransferCreditOnce(back, from, to, n) ==
    /\ \A o \in Owners : held[o] >= back[o] + (IF o = from THEN n ELSE 0)
    /\ held' = [o \in Owners |-> held[o] - back[o]]
    /\ available' = [o \in Owners |-> available[o] + back[o] + (IF o = to THEN n ELSE 0)]

\* release_locked_credit_to_balance for each owner o and the amount back[o], and
\* transfer_locked_credit_between_balances of n from one owner to another.
TransferCredit(back, from, to, n) ==
    /\ \A o \in Owners : held[o] >= back[o] + (IF o = from THEN n ELSE 0)
    /\ held' = [o \in Owners |-> held[o] - back[o] - (IF o = from THEN n ELSE 0)]
    /\ available' = [o \in Owners |-> available[o] + back[o] + (IF o = to THEN n ELSE 0)]

\* The part of emergency_refund_after_timeout that moves credit.
RefundCredit(o, n) ==
    /\ held[o] >= n
    /\ encumbered >= n
    /\ held' = [held EXCEPT ![o] = @ - n]
    /\ available' = [available EXCEPT ![o] = @ + n]
    /\ encumbered' = encumbered - n
    /\ UNCHANGED <<wallet, reserve, issued, pending, withdrawal>>
    /\ validate_vault_reserve

\* queue_withdrawal
QueueWithdrawal(w, o, n, t) ==
    /\ withdrawal[w] = Free
    /\ available[o] >= n
    /\ issued >= n
    /\ available' = [available EXCEPT ![o] = @ - n]
    /\ issued' = issued - n
    /\ pending' = pending + n
    /\ withdrawal' = [withdrawal EXCEPT ![w] = [owner |-> o, amount |-> n, after |-> t, executed |-> FALSE]]
    /\ UNCHANGED <<wallet, reserve, encumbered, held>>
    /\ validate_vault_reserve

\* Mutant: the counter of pending lamports is left alone.
ExecuteWithdrawalUncounted(w, now) ==
    LET q == withdrawal[w]
    IN  /\ q # Free
        /\ ~q.executed
        /\ now >= q.after
        /\ reserve >= q.amount
        /\ reserve' = reserve - q.amount
        /\ withdrawal' = [withdrawal EXCEPT ![w].executed = TRUE]
        /\ UNCHANGED <<wallet, issued, encumbered, pending, available, held>>

\* execute_withdrawal_batch: whoever signs, the recorded destination is paid.
ExecuteWithdrawal(w, now) ==
    LET q == withdrawal[w]
    IN  /\ q # Free
        /\ ~q.executed
        /\ now >= q.after
        /\ reserve >= q.amount /\ pending >= q.amount
        /\ reserve' = reserve - q.amount
        /\ pending' = pending - q.amount
        /\ withdrawal' = [withdrawal EXCEPT ![w].executed = TRUE]
        /\ UNCHANGED <<wallet, issued, encumbered, available, held>>
        /\ validate_vault_reserve
=============================================================================
