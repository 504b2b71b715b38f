# AIR OTC: formal verification

TLA+ models of the AIR OTC settlement layer and of the services that drive it, the TLC
instances that check them, and theorems about them that the TLA+ proof system (TLAPS) checks
for every value of the constants. AIR OTC lets AI agents trade over the counter: two agents
negotiate, a middleman agent coordinates, a Solana program holds collateral and payment and
settles; an API server keeps offers, tickets and the matches of its sport arena. Paths below
are relative to the repository root. `L` stands for `escrow/programs/escrow/src/lib.rs`,
`LC` for `escrow/programs/escrow-confidential/src/lib.rs`, `LN` for
`escrow/programs/magicblock-negotiation/src/lib.rs`, and `core/`, `gateway/`, `listeners/`,
`services/`, `state/`, `utils/`, `index.ts` for the files of `middleman-agent` (`src/` left
out).

`AIROTC_ARCHITECTURE.md` names four escrow invariants: no unauthorized release, no double
settlement, timeout refund, ticket state matches escrow state. The first three are proved or
checked here for the escrow program, and the first also for the agent that drives it; the
fourth is where the models found most of the disagreements listed below.

## 1. Inventory

| Component | State it keeps | Operations | What is hard | What makes it correct |
|---|---|---|---|---|
| **Escrow program** (`L`, 1400 lines) | per deal: status, three deposit flags, terms, deadline; lamports of the account, token account; global config with authority and pause | initialize_config, set_paused, create_deal, lock_collateral, lock_payment, confirm_deposit, release_funds, cancel_deal, refund_on_timeout, close_deal, reveal_and_verify_terms | two ways to fund the same flag; three ways to settle; accounts closed and re-created at one address; u64 limits; who may act when | every flag is covered by funds; exactly one settlement, exact to the unit; no party leaves alone |
| **Confidential escrow program** (`LC`, 2570 lines) | deal with commitments and release state; approvals per party; credit vault, balances, locks, withdrawals | create, register commitments, deposit, lock credit, request decryption, submit / revoke / confirm / dispute / resolve, approve, release, settle credit, emergency refund, queue and execute withdrawals | signed payloads submitted by anybody, late and more than once; two funding rails; each instruction resets a different part of the release state | the ledger balances; a release rests on current consent and a full dispute window |
| **Negotiation program** (`escrow/programs/magicblock-negotiation`) | session: terms, status, hand-off proof; delegation and permission accounts | initialize, delegate, permissions, negotiate_terms, prepare / record hand-off, commit, reach_consensus | runs on a rollup; delegation and commit cross two chains; no instruction reads the status | terms handed over are those agreed; scrubbed terms never come back |
| **Deal phase manager** (`core/dealPhaseManager.ts`) | `DealState` per ticket in memory, its database row, `Deal.status` | create / release / dispute / cancel handlers, recordDeposit, advance, sync, load, reconcile with the chain | handlers wait between guard and effect; writes are not awaited; messages of a ticket are not serialised | phase follows the escrow; terminal is terminal |
| **Execution** (`services/executionService.ts`, `onChainExecutionService.ts`, `state/executionStore.ts`, `dealTracker.ts`) | execution rows (pending, failed, confirmed) | execute create, release and close, split, cancel, confirm, refund | each action is several steps; a crash or an error between two | idempotent; what is stored is what landed |
| **Standard escrow activation** (`services/standardEscrowActivationService.ts`) | none of its own | opens the phase, sets the escrow address, attaches watchers, advances | deposits may come before the phase awaits them | no deposit is lost |
| **Crash recovery** (`services/contextRecovery.ts`) | none of its own | heal rows, load deals, advance, retry releases | order of steps, stale rows, rows left pending | recovered = what the chain says; authorised releases are retried |
| **Deposit watcher** (`listeners/depositWatcher.ts`, `services/depositPollingFallback.ts`) | expectations in memory, `depositConfirmation`, `transaction` rows | account poll, balance changes, history reconciliation | the same deposit seen by several paths; flags set before awaits | each deposit recorded once, and recorded in the end |
| **Timeout watcher** (`services/dealTimeoutWatcher.ts`) | `isProcessing`, `Deal.status` | scan, claim, refund | crash between claim and reset; statuses outside the scan | every late deal is refunded |
| **Event bus** (`services/eventBus.ts`) | subscribers | publish, subscribe | handlers start at once and nobody waits for them | – |
| **Deal pipeline** (`services/dealPipeline.ts`, `pipelineRouting.ts`, `pipelineRecoveryService.ts`, `state/pipelineStateStore.ts`) | stage rows per ticket | route, dispatch, resume | stages re-entered, stages outside the recoverable set | a crash resumes where it stopped, nothing runs twice |
| **Release approvals** (`services/releaseApprovalService.ts`, `state/releaseApprovalStore.ts`) | mirror of the approvals, timers | request, sign, submit, revoke, dispute, authorise | mirror against program; timers lost by a crash; time units | mirror never ahead of the program |
| **Confidential funding and execution** | funding rows | clients of `LC` | several transactions per step | one release |
| **Private negotiation, rollup sessions** | negotiation rows, session journal | clients of the negotiation program | hand-off between rollup and chain | one hand-off per ticket |
| **Outbound delivery** (`services/outboundRouter.ts`, `gateway/`) | outbox rows, session maps | enqueue, flush, bind, unbind | crash between send and mark, overflow, reconnection | at least once, in order per agent; to sockets known as the agent's |
| **Retry, circuit breaker, shutdown, RPC** (`utils/`) | breaker state and counters, in-flight work | every on-chain call goes through them | probes, late results, a state without exit | one probe at a time; recovers |
| **Matching engine** | books of intents | add, match, expire | one intent matched twice | each intent in at most one match |
| **Judge, brain, persona** | prompts, memory | rulings | language models | out of reach; rulings are inputs |
| **Umbra, stealth, Torque** | external | payouts, events | external | – |
| **API server: offers and tickets** | offers, tickets | create, accept, status updates | two acceptances at once | one ticket per offer |
| **API server: webhooks, inbox** | events, deliveries, cursors | append, deliver, acknowledge | live and inbox delivery race | no event lost, cursor never ahead |
| **API server: arena, sport settlement** | matches, outcomes | outcome to release or refund | settle, then store | settled once |
| **API server: chain reading** | none | read, format | – | – |
| **SDKs, MCP server, agents** | none that others read | clients of all the above | – | the models let the parties make every call, in any order |
| **Frontend, landing page, scripts, vendored code** | – | – | – | – |

How they interact. The agent and the parties send transactions to the programs; each
instruction is atomic and a failing one changes nothing. The agent learns what landed by
polling the deal account and by the result of its own calls. Inside the agent the components
share `DealState` objects and the database, and call each other through the event bus, whose
handlers run concurrently at every `await`. The API server creates tickets and reads what
the agent stores. The parties talk to the agent over a WebSocket, answered through the
outbox. The full list of hazards, each at its line, is in `PROJECT.json`.

## 2. Modules

```
EscrowTerms  <--extends--  EscrowPromise      (abstract: what an escrow owes and pays)
     ^       <--extends--  EscrowView         (abstract: what a client reads)
     +-------extends------ EscrowDeal         implements EscrowPromise and EscrowView
     |                         |   extends Accounts (sums of balances)
     |                         ^-- EscrowDealProofs, MCEscrowDeal
     +-------extends------ DealPhase          its chain is EscrowView
     |                         ^-- DealPhaseProofs, MCDealPhase
     +-------extends------ DepositWatch       its chain is EscrowView
     |                         ^-- DepositProofs, MCDepositWatch
     +-------extends------ TimeoutWatch       its chain is EscrowView   ^-- MCTimeoutWatch
                               extends CircuitBreaker                   ^-- TimeoutProofs

CreditVault, Accounts  <--extends--  ConfidentialDeal   implements CreditPromise and ReleaseView
                               ^-- ConfidentialDealProofs, MCConfidentialDeal
ReleaseView  <--instance-- ReleaseFlow        its chain is ReleaseView
                               ^-- ReleaseProofs, MCReleaseFlow

AgentSessions <--extends-- OutboundDelivery   implements OutboxPromise
                               ^-- OutboundProofs, MCOutbound

SessionPromise <--extends-- NegotiationSession
                               ^-- ReleaseProofs (second part)
SportSettlement     ^-- SportProofs, MCSport
```

The two halves of a model, program and agent, are linked by what the agent can see. The
escrow program is *proved* to implement `EscrowView` (theorem `ImplementsView`) and the
confidential program `ReleaseView` (theorem `ImplementsReleaseView`), and the agent is
checked against these views. So what is shown of the agent holds against the program, not
against a convenient picture of it.

**Accounts** – the sum of finitely many balances, written as the number of units held, so that
it can be proved about without a recursion.

**EscrowTerms** – amounts, fee (`price * bps / 10000`, rounded down; 100 or 110 bps) and the
split of a release.

**EscrowPromise** – open, hold, then return *or* trade, once, then forget. A trade takes `p`
from the buyer's part, gives at most 1.1% of it to the middleman and the rest to the seller.

**EscrowView** – status, flags and lateness, with the eight moves a client can observe.

**EscrowDeal** – one deal address, i.e. one pair (buyer, deal id). One action per
instruction: the account context (`...Accounts`) and the `require!`s are its guard, the
assignments and transfers its effect; an instruction that fails is an action that is not
enabled. `PlainTransfer` is a deposit outside the program; `Tick` the clock. The vault is
the lamports of the account for a deal in the native mint and the token account for any
other, but `lock_*` moves tokens for both, as the code does. A hash is
identified with its pre-image, so that revealing terms compares payloads. `stake`, `got`,
`plain` and `signer` are history: no guard reads them.

**DealPhase** – one ticket. `deal` is the object in memory, `row` and `status` the two
records in the database, `record` the release row of the execution store, `onchain`, `flags`
and `late` the escrow. A handler that waits between its guard and its effect is two actions
joined by `pending` or `judging`; an execution is a chain of actions joined by `jobs`. A
write that is not awaited may land before or after another, or be lost by a crash. Since
rows are read again only after a crash, the model does not queue writes: it lets any write
be declared, while a crash is still to come, to be the one the crash finds (`rowFixed`,
`statusFixed`). `Deal.status` takes the values recovery looks at; `"open"` stands for all
the others. The judge may rule anything, at any time, or never.

**DepositWatch** – how the agent learns that somebody paid. Transfers carry no purpose, so
the watcher tells them apart by sender and amount. Each call of `watchForDeposits` is at an
await of its own (`watcher`); beside it run the polls of the account (`poll`) and the scans of
the history (`scan`, one transfer and one database answer at a time): one that each call
starts, and the heartbeat's, which looks neither for another scan nor for its own last one. The
serial handler of `deposit_received` asks the program to set the flag. All share the map of
expectations, `confirmed` and `stored` (the two tables), and the flags of the phase manager. A
restart keeps only the tables. What the watcher compares with the total (`Lamports`) holds the
rent of the account, what the program compares (`Balance`) does not; the watcher forgives
`Dust`. A write that fails is logged, and the deposit is published all the same, but for a
signature that is there already. `published` and `unwritten` are history.

**CircuitBreaker** – the breaker as functions from one value to the next: what asking it
leaves behind, what a success and a failure make of it, the probe of a half-open breaker.

**TimeoutWatch** – one deal past its deadline. `watch` is the cycle of the watcher at the
deal: the scan that reads the row, the claim, and the refund in two nested `withRetry`, which
both ask the breaker. Beside it run confirmations of plain transfers (`confirm`), the phase
manager, the parties, other calls through the breaker (`busy`), an outage (`net`), a shutdown
that refuses new calls, a crash, and the recovery; all but the parties write `row`. The
deadline passes for the agent (`due`) before it does for the program (`late`). `orphaned` is
history.

**CreditVault** – the ledger of internal credit: deposits, locks, settlement transfers,
emergency refunds, queued withdrawals, and the check of the reserve that ends each of them.

**ConfidentialDeal** – one deal of the confidential program on top of the vault. An
instruction that takes a signed payload may be taken with any payload the party may have
signed, at any time and again. What the FHE network and the dWallet network compute is
abstracted to its having been asked for; the hashes bind amounts, so they are the amounts.
`resolve_release_dispute` takes approval accounts that are not tied to the deal; the model
lets it clear any subset of this deal's approvals, or an approval of this deal while another
deal is resolved (`ResolveElsewhere`). `agreed`, `withdrawn` and `changed` are history.

**CreditPromise** – what the program promises to those who own credit. Credit is bought one
for one; it leaves as a claim of its owner, who cannot claim what he has locked, or as the
payment of the one release that all agree to; collaterals never change hands; every claim is
paid once and in full.

**ReleaseView** – how far the release of a confidential deal has come, with the moves the
agent and the parties can make in it.

**ReleaseFlow** – the release as the agent drives it, from the funding to the settlement.
Every asynchronous call of the services is a record in `calls` (where it waits, what it read
before); a step runs from one await to the next. Calls share the snapshot `store` (whose
updates the code serialises), the stage rows, in the order of their creation, and the chain.
The authorization timer is an entry that a crash deletes; recovery runs before the escrow
listener is there, as in `index.ts`. One trouble per behaviour: a call whose transaction
fails or lands unseen, a crash, or a repeated submission.

**AgentSessions** – the gateway's maps. They are changed only by callbacks that run to
completion, so each operation of the manager is a function from one value of the maps to the
next (`bindAgent`, `removeSession`, ...), and the actions are the callbacks. What interleaves
are sockets that close, wallets that are looked up while the socket goes on, replaced
sessions and sockets the gateway dialed itself. A challenge holds until the first lookup ends,
so any number of wallets may sign it, and each of them binds the session to its agent when its
own lookup ends. What the other end of a socket is known to be is history, and a relation:
`proved` says which wallets signed on it, `dialed` whose endpoint it was opened at, of which
nothing is proved.

**OutboundDelivery** – the outbox on these sessions: a delivery is a row, a write to a
socket and a mark, each after an await; the processor reads a batch, dials, writes, counts
retries, evicts; shutdown waits for it, a crash does not. Rows are numbered as they are
created, and "oldest" and "newest" mean the number; the processor holds the rest of its batch
as copies of the rows it read, which may have been evicted or sent by others meanwhile.

**OutboxPromise** – what the outbox promises of an accepted message: given at least once
before it counts as sent; never queued for ever.

**SessionPromise** – what a rollup session may rely on, in terms of where its account is and of
what the service still knows of it; the properties are stated here, apart from the steps.

**NegotiationSession** – one session account and the service that owns it. `base` and `live`
are the account on L1 and its copy on the validator, `owner` tells which one counts. Two
closers, `finalize` and `force`, may run together, each a sequence of awaits (`pc`); the
timeout starts the second. `queue` and `permq` are the retry queues in memory, `journal` the
row that survives. Every transaction may land, be refused, or land and be reported as
failed. `mishaps` is history.

**SportSettlement** – one SPORT offer: the acceptance in the API server with its rollback,
the middleman's deal for each ticket, the escrow, the match and its outcome, and the runs
that settle it, which overlap. `run[r]` is a run at the match, with what it read; `call[c]`
the middleman at work on the request of a run, whose answer may be lost or late. The timer's
runs take only as many matches as the limit says, the oldest first: `ahead` counts the older
ones that are open. An administrator starts runs as well, for this match if he likes and with
the transactions to record instead of asking the middleman, and writes to the match by hand
(`admin`, read and write apart): attaches any ticket with a row, also one of another offer
(`Foreign`), starts the match again, or settles it. A deal counts as funded for the middleman
with its second collateral (`deal`), whatever the chain still misses; one that a restart has
read from the chain waits for the payment (`"Unpaid"`). `written` and `elsewhere` are history.

The MC modules give constants their values: keys and offers, the scenes a behaviour is
played in, transfers, payloads. `NegotiationSession` needs none.

Definitions marked as mutants in the modules are plausible bugs (a dropped guard, a missing
reset, a counter left alone). Nothing uses them; each is paired in `PROJECT.json` with a
property that fails when it replaces the definition it belongs to.

## 3. Runs

| Run | Asks | Answer |
|---|---|---|
| `escrow_spl` | Token deals: do flags, funds and payouts agree under any mix of `lock_*`, confirmed transfers, cancels, refunds, close and re-creation, whichever keys the roles share? Does the program keep `EscrowPromise`? Does a deal stay live after its deadline? | holds; never, unless the program stays paused |
| `escrow_native_refund` | Can a timed-out lamport deal always be refunded? | **no**: finding 1 |
| `deal_phase` | Every interleaving of handlers, jobs, watcher events and other people's transactions, with one judge and the deadline, or with a crash at any step and any unawaited write lost or reordered: are deposits real, delivery funded, completion paid, releases authorised? | holds |
| `deal_phase_retry` | Does the retry after a crash run? | **no**: finding 2 |
| `deposits` | Transfers in any order, seen by overlapping scans, polls and the handler, with a fault: is each deposit reported once, but for each row that could not be written; do the rows claim no more than was received, but for rent and dust; is what is paid in full confirmed, while scans do not overlap? | holds |
| `timeout` | A late deal, the watcher, confirmations, the breaker shared with another call, an outage, a shutdown or crash: is the probe of the breaker always awaited, is a deal marked as refunded refunded, does a deal the watcher sees get a verdict? | holds; for the last, unless the process stops with the deal claimed |
| `confidential` | One confidential deal on either rail: is the ledger balanced, does a release rest on current consent, does the program keep `CreditPromise`, with two withdrawals in the queue at once? | holds |
| `release` | The release as the agent drives it: is what it writes down as settled executed, does it fail only for a reason, does the snapshot agree with the chain, does an undisturbed release settle? | holds |
| `outbound` | Do messages go to a socket known as their agent's, whoever else signed on it, does the outbox keep `OutboxPromise`, is an agent that stays online reached? | holds |
| `negotiation` | A session opened, used, closed by one or two closers, retried, recovered after crashes: is it ever forgotten, does its permission outlive it, do its terms reach L1 in clear, does it come home? | never; yes; only as `ScrubbedOrLate` says; yes |
| `sport` | Overlapping runs over a match whose result is revised, whose escrow others settle too, and which an administrator writes to: do its transactions say what the chain did, is an escrow's settlement written once, is a maker's win settled once the timer's runs take the match? | holds |
| `sport_payee` | Does the winner get the escrow? | **no**, for a buy offer: finding 3 |

### Bounds, and why they are enough

*Escrow.* Three keys, as the program knows three roles, and the three ways two roles can
share a key. `MaxU64` is 400 and the offers sit at the edges: a total
of exactly 400, one above it, a price of 199 whose fee shows the rate and the rounding
(1 at 100 bps, 2 at 110), a zero collateral and a zero hash, which `create_deal` refuses. A
plain transfer of 100 stands for one collateral and two of them for a payment, so each flag
can be reached by `lock_*`, by a confirmed transfer, or with leftovers of an earlier deal.
`MaxTime` is 2 with a deadline of 1: before, at and after it. The number of deals is not
bounded: close and re-creation make the graph cyclic, until fees have used up the wallets.
Lamport deals are covered by the theorems, which hold for either mint, and by the violation
run.

*DealPhase.* One ticket: deals share nothing but tables keyed by ticket. One crash: recovery
rebuilds everything from rows, so a second crash meets a state of the same kind; one dispute
before the judge; at most one confirmation in progress. The scene with a crash leaves out the
judge and the deadline, the scene without a crash has both.

*DepositWatch.* Collaterals of 4, a price of 8, a rent of 2, a dust of 1: the sums of two
deposits are told apart, and a total that is short by the rent is not. Five scenes: a transfer
for each deposit in any order, one call of the watcher beside the heartbeat, and one fault (a
restart, a read or a write that fails, the deadline, or a deposit made through the program); the
buyer alone, who pays twice; buyer's collateral and payment in one transfer, with two calls at
once, which the code tries to prevent and does not (`listeners/depositWatcher.ts:58`), or with
the heartbeat's scan beside that of the call, so that scans overlap over all that is due; and the total that only the rent completes. Where
scans may overlap there is no fault to add to it.

*TimeoutWatch.* A breaker that one failure opens, that recovers once and is degraded the
second time, and one retry of each kind: every state of the breaker is reached with every
position of the watcher. Three scenes: another call, an outage and a stop; all three deposits
as plain transfers; one of them and a stop. The real numbers (a sample of 10, 5 resets, 3
retries) make the same states last longer; the theorems hold for any.

*Confidential.* One deal, two plans of amounts (one lamport per leg, or two for the
payment, so that re-registering after a lock is visible), window of 1, expiry at 2, two
payloads of each party (an approval, and what follows it: a confirmation, a revocation, a
dispute or a second approval), a clock to 2, and two withdrawals, so that one is queued, paid
or not yet due while the other waits (their ids are interchangeable, hence the symmetry). The
view leaves out `changed`, a history variable that only the theorem `SellersWindowKept` is
about. The theorems below lift all of these.

*ReleaseFlow.* Two calls at a time, since every race found in the code is between a timer, a
message and a listener of which two hold a stale snapshot; four messages: the three a
release takes and one to object, to repeat or to come too late; one trouble. The theorems hold
for any number of calls and messages.

*Outbound.* Two messages or one that is asked for twice, two deliveries, a box of one row (so
that the second evicts the first), two retries, a batch of two, one stop, and an agent that
connects once; or a message for an agent that is dialed on one session and comes by itself on
another; or, without messages, two agents on two sessions, each of them on both: two wallets that
sign on one socket, one that signs on two, and lookups that end in any order. A third session
would add a replacement of a replacement, which the theorems cover.

*Negotiation.* Two terms, five attempts as in the code, three crashes: one in each of
opening, closing and recovery. One opening per ticket and one close of each kind at a time.

*Sport.* Two tickets (an acceptance that is rolled back and one that succeeds) and one of
another offer, a run of the timer and one of the administrator, two calls, a limit of one match.
Four scenes, each with one disturbance: a write by hand; a revision of the result; a fault while
others may settle or dispute the first escrow; an older open match, with the same others. More
of each at once is left to the theorems. A sell offer differs in who is paid, which only
`sport_payee` asks about.

`CHECK_DEADLOCK FALSE` everywhere: deals end, and the clocks and counters are bounded.

### Fairness

`EscrowDeal!FairSpec` assumes that the clock goes on (weak) and that some participant keeps
trying `refund_on_timeout` (strong, since pauses disable it again and again). Any of the
three roles may sign it, and the SDK offers it to the parties for the case that the
middleman is away (`sdk/ts/src/deal.ts`, `claimTimeoutRefund`). The agent's own timeout
watcher is not enough: it looks at three values of `Deal.status` and gives up after one
failure, which is listed as a hazard. `NeverStuck` is conditional on the program not staying
paused, as nothing in the code ends a pause.

The agent's modules assume that the agent works, and nothing of the parties, the judge or an
administrator:

- `DepositWatch`: deals are watched, a call, a poll and a scan go on (promises settle), the
  handler takes the next event, and the heartbeat comes round.
- `TimeoutWatch`: the watcher's loop goes on while the process runs (it catches every error),
  a shutdown ends (`utils/shutdownManager.ts:39` forces it after 30 seconds), and a process
  that has stopped is started again (`restart: always`, `middleman-agent/docker-compose.yml:6`).
- `ReleaseFlow`: a call goes on, time passes, the timer fires, recovery and the sweep for
  finalised sessions run at start-up.
- `OutboundDelivery`: a delivery goes on, the processor's interval repeats, a shutdown ends,
  the process manager restarts.
- `NegotiationSession`: a commit arrives on L1, the session timer fires, the two retry
  intervals repeat, the recovery runs at start-up, a started close goes on.
- `SportSettlement`: `transactionMonitor.ts` starts a run every two minutes, which reaches the
  match if it is among the oldest that the limit lets it take; a run that has reached the match
  goes on, and the middleman serves a request it has taken. That older matches are ever settled
  is not assumed, so `MakerIsPaid` speaks of a match that is within the limit.

A transaction is nowhere assumed to succeed: the liveness properties say under which
condition (no fault left, retries not used up, no later objection) the end is reached.

## 4. Findings

Three places where the code does not do what the repository says, each with a run that finds
the behaviour (details and quotations in `PROJECT.json`):

1. For the native mint `lock_*` moves tokens and `refund_on_timeout` pays lamports
   (`L:1174`): the refund of such a deal fails for as long as nobody sends lamports.
2. A release row left `pending` by a crash turns away the retry of the recovery
   (`state/executionStore.ts:45`).
3. For a buy offer the settlement in favour of the maker pays the taker
   (`api-server/src/services/arena/sportSettlementEngine.ts:204`).

Observations made while modelling, without a run.

*Escrow program and phase manager*

- `close_deal` of a lamport deal sends deposits that were never confirmed, with the rent,
  to the receiver its caller names (`L:642`).
- `recordDeposit` sets `payment_locked` when both *collaterals* are in
  (`core/dealPhaseManager.ts:641`), so a release is accepted without the payment, against
  the guard at 475. The program refuses it: no funds move, the phase says awaiting_release.
- A handler that waits between guard and transition takes a deal out of a terminal phase
  (`core/dealPhaseManager.ts:437`, 507), and a cancelled deal is then executed.
- A refund by the timeout watcher reaches `Deal.status` only, not the phase in memory
  (`services/dealTimeoutWatcher.ts:127`); the same holds for a party's own cancel.
- A crash may lose a release the buyer was told is accepted: the row is written without
  waiting (`core/dealPhaseManager.ts:750`), while `services/contextRecovery.ts:9` promises
  "zero state loss".
- `reveal_and_verify_terms` accepts any terminal status (`L:1366`), its comment (`L:1349`)
  names one.

*Deposits, the timeout and the breaker*

- A payment that arrives as a plain transfer after the last scan of a deal that has both
  collaterals is noticed by nothing: only a deal that awaits its deposits is scanned again
  (`index.ts:727`). `services/depositPollingFallback.ts:15` says "Guarantees: deposits are detected
  within 30s even if WS drops". `DepositsLand` therefore asks for everything to be paid before
  a deposit is noticed.
- Scans overlap (`index.ts:200-216` and 723 ask for none to be under way) and share one
  expectation, so one may publish the payment before another has published a collateral: the
  program refuses to confirm the payment, nothing asks again, and the deal goes to delivery with
  the payment on the account and its flag not set. A scan before the rows are there marks an
  expectation, confirms nothing, and no later scan looks again. `DepositsLand` excuses an overlap,
  and fails in two scenes of its run without the excuse.
- A write that fails other than by the unique signature is logged, and the deposit is
  published with its row unconfirmed (`listeners/depositWatcher.ts:595-609`): it is reported
  again after a restart. `ReportedOnce` counts these.
- The watcher compares the balance with its rent (`listeners/depositWatcher.ts:674`,
  `services/depositPollingFallback.ts:40`), and within a dust tolerance, where the program
  subtracts the rent and forgives nothing (`L:288-292`): deposits that are short by as much count
  as made in the database, and are refused on chain. The total on the account is taken for all
  three deposits whoever sent it, so a buyer who pays it alone is reported as a seller who
  paid his collateral.
- When price and buyer's collateral are equal, or nearly, the second pass over the history
  counts the buyer's collateral once more as the payment (`listeners/depositWatcher.ts:623`),
  though 373 says "process each unseen transfer individually"; the program then refuses to
  confirm it, but the row says confirmed.
- With one confirmed collateral `Deal.status` is `collateral_buyer` or `collateral_seller`,
  and after a failed call `failed`. The watcher scans neither
  (`services/dealTimeoutWatcher.ts:45`), so the agent never refunds such a deal, where
  `docs/AGENT_API_REFERENCE.md:214` says "Middleman auto-refunds". A party still can.
- The outer `withRetry` of the watcher (`services/dealTimeoutWatcher.ts:115`) takes the one
  probe of a half-open breaker, the inner one (`services/onChainExecutionService.ts:1023`) is
  then refused, and the deal ends in `timeout_failed`, which is never scanned again. So does a
  deal whose refund is refused since the agent's clock is ahead of the chain's, one claimed
  when a shutdown begins, and one whose refund landed unconfirmed. `VerdictReached` says
  "verdict", not "refund", for this reason.
- A crash between claim and verdict leaves `isProcessing` set for ever (`orphaned`).
- The scan acts on the status it read: a deposit that lands after the scan of a `created` deal
  is locked in a deal marked `expired`, "no_funds_locked".
- The breaker does not know which call it hears of: one admitted while it was closed and
  ending while it is half-open is taken for the probe's result. After five recoveries it is
  `DEGRADED` for good. `services/executionService.ts:64` and
  `services/confidentialExecutionService.ts:643` ask `isOpen()`, which changes nothing, so
  their calls alone never bring an open breaker to a probe.

*Confidential program and release*

- `cancel_deal` of the confidential program is documented as "Refunds any existing deposit"
  (`LC:1496`); it sends the SOL of the account to the middleman and leaves credit locks to
  the emergency refund.
- Whether a settlement on credit pays the seller is an argument of the middleman
  (`settle_locked_credit`), where the comment at `LC:375` speaks of a decision by FHE and IKA.
- `emergency_refund_after_timeout` takes its timeout from the caller and does not tie the
  deal, whose age counts, to the lock. `approve_cross_chain` does not compare the dWallet
  with the one stored in the deal.
- A dispute may be opened in any status before execution; its resolution puts the deal in
  `Settling`, also a cancelled or unfunded one. The release then still needs a decryption
  request, or all three locks, which such a deal does not have.
- `services/releaseApprovalService.ts` sends `expires_at` in milliseconds; the program
  compares seconds.
- The recovery of pipelines (`index.ts:799`) runs before `initEscrowListener` (805), the only
  subscriber of `release_authorized`: a release authorised during start-up, or lost with the
  process, or stopped in `release_pending`, is not taken up again, though
  `services/contextRecovery.ts:9` promises "zero state loss across crashes".
- `release_pending` counts as recoverable, but is not among the stages from which a prepared
  release resumes (`services/dealPipeline.ts:1425`): the whole confidential escrow is
  dispatched anew. A crash between `createInitial` and `publishStage` leaves `escrow_created`,
  which is not recoverable.
- After a revocation the next approval is requested with nonce 1 again and the program
  refuses it for ever (`state/releaseApprovalStore.ts:216`); `disputeOpen` is never cleared.
- An approval that lands unseen makes the second `approve_cross_chain` fail, and "failed" is
  final. A funding submitted twice publishes "completed" again, and the second preparation is
  refused, which ends in "failed" too. A slow `trackConfidentialDeal` may overwrite the
  tracker of a settled deal.

*Negotiation*

- `negotiate_terms` reads no status: terms written between `prepare_private_handoff` and the
  commit reach L1 in clear. A forced close that failed is retried with `reach_consensus`
  (`services/negotiationRollupService.ts:2124`), which scrubs nothing. `LN:249` says "PER-only
  safety step: scrub negotiated terms before any final L1 sync." `ScrubbedOrLate` states what
  does hold.
- A retried forced close overwrites the status, so that a recorded proof is unusable, and its
  journal row says `isPrivate: false`: after a restart the wrong client takes it and the
  permission is never closed.
- `finalize` clears the timer first; if a later step throws, nothing closes the session until
  a restart. An opening that fails after the delegation leaves a session delegated and
  untracked. The two retry cycles may overlap themselves and remove the wrong entry.
- A forced ER close sets `ConsensusReached` without an agreement, and one agent's
  `reach_consensus` commits the terms written last. It is the SDK that asks for it in ER sessions
  only (`agents/sdk/MeridianClient.ts:1400-1420`), and the model follows it: the program would take
  it from any member of a private session too (`LN:457-484`), whose terms it would commit in
  clear.
- `PermissionOutlivesSession` is about permissions that were delegated. With the fallback
  (`services/negotiationRollupService.ts:901-923`) the permission stayed on L1.

*Outbound and gateway*

- A challenge is cleared only when the lookup of the wallet's agent has ended
  (`gateway/wsServer.ts:75-101`, and `gateway/sessionManager.ts:57`: "Clear challenge physically
  halting Replays"). Two wallets that sign on one socket before that are both bound to it: what
  arrives counts as the second agent's, what is sent to either goes there, and after the close the
  first agent's entry dangles at a session that is gone, until the agent comes back. Hence
  `RoutesAgree` lets an agent's session not know the agent if another wallet has signed on it.
- Nothing is proved of the other end of a dialed socket: any `auth_success` binds the agent that
  was to be dialed (`gateway/wsClientManager.ts:72-80`), in place of a session it may have.
- Idempotency keys do not prevent duplicates (`services/outboundRouter.ts:17` says they do);
  a re-queued row keeps its `retryCount`; a dead letter that is delivered later is never
  marked as sent; an eviction drops queued rows unseen.
- A dialed session that went stale stays in the maps (`gateway/wsClientManager.ts:21`); an
  agent that opens its socket and stays silent holds the processor (38-41).

*Sport, offers, inbox*

- `refund_to_taker` calls `cancel_deal`, which the program refuses once the payment is locked
  (`L:1040-1054`), while the bridge asks for a fully funded deal: the escrow of a maker who
  loses is refunded by the deadline only, and its match never settles (the test "refunds
  funded SPORT escrow when maker loses" mocks the execution). `MakerIsPaid` therefore speaks
  of a maker who wins.
- An execution whose answer is lost, or whose match update fails, is not repeated: the bridge
  answers `sport_escrow_not_funded` from then on and the match stays unsettled.
- The second collateral makes a deal "funded" (`core/dealPhaseManager.ts:640-643`), which is all
  the bridge asks for: a release may be sent before the payment is there, and is refused.
- A result revised between the decision and `settleArenaMatch` makes the row's status and
  winner contradict each other. A rollback reactivates an offer that was cancelled meanwhile
  (`api-server/src/controllers/offersController.ts:391-431`); a lost answer leaves a deal
  without a ticket.
- What an administrator writes is checked against the request and against a match that was read
  before, never against the chain: an attached ticket may be another than the one whose escrow
  was executed, an attach or a start that was read earlier opens a settled match again, two runs
  on two tickets then settle it twice, and `/settle` or a run with `releaseTx` or `refundTx`
  records what never happened (`api-server/tests/arena_match.test.ts:416-468` releases a match
  that has no ticket). `RowMatchesChain` says what is left: a transaction of a run's own is that
  of an escrow settled that way.
- A run takes the `limit` oldest open matches (`api-server/src/services/arena/sportSettlementEngine.ts:156`,
  166-170), and matches that never settle, as that of a taker's win, stay among them: newer ones
  may never have their turn. If a match of a run is settled by another meanwhile, the run throws
  `arena_match_terminal` and gives up the rest of its matches.
- The inbox cursor goes by (createdAt, id) and may skip an event that is committed late
  (`agentEventInbox.ts:118`); `emitLive` marks an event delivered though no socket listens
  (`webhookDelivery.ts:83`).

## 5. Proofs

All proof modules follow one argument: a strengthened invariant `IInv`, shown to hold at
the start and to be kept by each action (one lemma per kind of step, one step per action),
and the properties as consequences.

**EscrowDealProofs**, from `EscrowAssumption` only (any set of keys, any offers, any bound
`MaxU64`, either mint):

| Theorem | Says |
|---|---|
| `TypeCorrect` | types; no u64 is ever exceeded |
| `NothingCreatedOrLost` | `Conserved`: wallets, lamports and the token account of the deal always add up to what the wallets had |
| `SettlementsNeverRefused` | release, cancellation and refund, once allowed, pass their checks: no overflow, enough funds; of a lamport deal if no instruction moved tokens, which is finding 1 and its only way to happen |
| `FlagsCoherent` | flags and status agree |
| `TokenDealsSolvent` | a live token deal covers its flags, so no settlement check fails |
| `SettlementsExact` | each settlement pays each role exactly its due, once |
| `EverythingAccounted` | what came in is there or was paid out |
| `StakesReturned` | what a role moved in comes back, but for the price of a completed deal |
| `PartiesCannotExitAlone`, `PaymentsAreCommitted` | who can move funds, and when |
| `ImplementsPromise`, `ImplementsView` | the program implements both abstract specifications |

`IInv` joins `TypeOK`, `FlagsMatchStatus`, `Solvent` for tokens, `NativeCovered`, `StakeOwed`,
`PaidExactly` and `Accounted`. None is inductive alone: `Solvent` is kept by
`confirm_deposit` because it compares with the *other flagged* deposits, and by `lock_*`
because the flag was not set, which needs `FlagsMatchStatus`; `StakeReturned` needs
`StakeOwed` (what was moved in is part of what is owed), since the settlement pays by flags
and not by who paid; for lamports `Solvent` is false (finding 1) and `NativeCovered`, which
subtracts what sits in the token account, takes its place. The refinement of
`EscrowPromise` needs in addition that accepted amounts are positive (`PositiveAmounts`), and
a bound of the rounded fee (`FeeBound`).

`Conserved` says that a sum over all keys stays the same. A sum by recursion would need
induction over data, which the provers do not have; `Holdings` counts units instead, and
`HoldingsUpdate` (changing one balance changes the sum by as much) follows from the library's
theorems on cardinalities. Hence the assumption that there are finitely many keys. The
payouts of a settlement are three changes, of a wallet each, in which keys may coincide
(`CreditedHoldings`).

**ConfidentialDealProofs**, from `VaultAssumption` and `DealAssumption` (any amounts, plans,
windows, expiries and any number of payloads):

| Theorem | Says |
|---|---|
| `TypeCorrect` | types, and the two marks of a dispute agree |
| `LedgerAlwaysBalanced` | the reserve, the totals, the balances, the locks and the queue of withdrawals agree to the lamport |
| `WithdrawalsNeverRefused` | a queued withdrawal whose delay is over passes every check: its lamports are in the vault |
| `CreditNeverStranded` | credit that is not locked can be queued, and locked credit refunded or settled, without an underflow |
| `ImplementsCreditPromise` | the program implements `CreditPromise`, for any number of withdrawals |
| `ReleasesRestOnConsent` | an authorised release rests on the current consent of both |
| `ApprovalsAreNewest` | no late or repeated payload revives an approval |
| `SellersWindowKept` | nothing changed for the whole window when a release is executed |

The strengthenings: `LocksRecorded` (a lock belongs to a leg that counts as deposited, of a
deal funded with credit, so a leg is never locked twice although commitments can be registered
again, and the settlement in lamports finds no lock), `NonceOrder` (no
revocation is ahead of the nonce), and `ConsentOrder`, which ties `approved`, `confirmed`,
`authorized` and the deadline to the history: outside a dispute whoever is recorded as
approving still agrees, and a deadline that is set is exactly one window after the last change.

In the ledger the queue is the hard part: a withdrawal is paid long after it was queued, and
the program subtracts it from one total (`pending`) that all withdrawals share. That the
subtraction never underflows needs `QueueCounted`: the total is the sum of what is queued. The
refinement of `CreditPromise` maps each owner's balance and locks to one credit, and each
queued withdrawal to a claim; a step that changes neither (of the release state, say, or a
plain payment) is a stutter. It rests on the ledger (a payment that changes hands was locked
by the buyer, so he can never have withdrawn it) and on `FreshConsent` (all agree at the settlement).

The same module proves `ImplementsReleaseView`: the confidential program implements
`ReleaseView`, for every window above zero (with a window of zero the window would be over in
the step that opens it).

**DealPhaseProofs**, for any scenes (any number of crashes and disputes):

| Theorem | Says |
|---|---|
| `TypeCorrect` | types |
| `ReleasesAreAuthorized` | the seller is paid only if the buyer's release was accepted or the judge ruled so |
| `CountedIsConfirmed` | a collateral counted in memory or in a row is flagged by the program |
| `DeliveryIsFunded` | a deal in delivery, or awaiting its release, has both collaterals locked |
| `CompletedWasPaid` | a deal shown as completed was paid, or the judge has ruled |

Every interleaving of handlers, jobs, lost writes and recovery is covered by one idea: what a
deal state says (`Truthful`) never becomes false again, since flags are only set and a ticket
has one escrow (`Later`, lemma `Kept`). So a stale copy, an unawaited write or a late row is as
true as when it was written, and it is enough that whoever *writes* a deal state may say so.
`IInv` adds what the flags say of the program's status (`ChainInv`), that a job in progress
(`JobsInv`) was authorised or has landed, and that a handler that waits has a deal to come back
to (`HandlersInv`). `Deal.status` belongs to the invariant, because recovery heals from it.

**DepositProofs**, from `WatchAssumption` (any transfers, amounts, calls, scenes and faults):

| Theorem | Says |
|---|---|
| `TypeCorrect` | types |
| `ReportedAtMostOnce` | a deposit is reported once, and once more for each time its row could not be written |
| `RowsFunded` | confirmed rows never claim more than the account received, but for rent, dust and a price that cannot be told from the buyer's collateral |

`ReportInv` says that a scan about to report a deposit has confirmed its row, that the deposit was
reported before only where its row could not be written, and that no other scan is about to. It
rests on the check of `confirmed` and the write to it being in one step (between two awaits), and
holds for any number of overlapping scans. `ScanInv` ties a scan to the transfer it looks at.
`CoverInv` is what `RowsFunded` rests on: either each deposit that is flagged, confirmed or reported
is one that a transfer in the history may be taken for, or the account received, with its rent and
dust, all three. The slack of `Confusable` is what the code does: with equal amounts a sender and
an amount do not say which leg was paid, and nothing in the agent or the program forbids such a
deal (see the observations).

**OutboundProofs**, for any sets of agents, sessions, messages and deliveries:

| Theorem | Says |
|---|---|
| `MapsAgree` | no session claims an agent that is routed elsewhere, and an agent's session knows the agent unless another wallet has signed on the same socket |
| `MessagesReachTheirOwner` | the session an agent is reached by is authenticated, and the agent's wallet signed on it or it was opened at the agent's endpoint; what arrives counts as such an agent's |
| `NoSessionLeftBehind` | an open authenticated session is the one its agent is reached by |
| `DeliveryReachesOwner` | both, with the outbox, the processor, crashes and restarts on top |
| `TypeCorrect` | types of gateway and router: no row is tried more often than `MAX_RETRIES` |
| `PromiseKept` | the router implements the safety part of `OutboxPromise`, step by step |

`GatewayInv` adds what the maps owe to the sockets (`Coherent`): a session that claims an agent has
a socket, is authenticated and is the one the agent is routed to (`Claims`); an agent is routed only
to what is known as the agent's, and to a session that claims it or has had a second wallet sign
(`Routes`). It is stated of one value of the maps and one relation of what is known, so that
each operation of the manager is a lemma of its own. Nothing fixes who speaks on a socket: any
wallet may sign on any, and any number of them. `RouterInv` adds that a delivery
about to be marked has been written (`CallInv`), that a row still to be tried has retries left
and that a sent one was written (`RowInv`), and what a row read by the processor still says of
the row of now (`ProcInv`): it has the same number or is gone, and only the processor gives
up. That is what makes "given before it counts as sent" and "given up only by the processor"
survive evictions and repeated enqueues between the read and the mark.

**ReleaseProofs**, from `FlowAssumption` (any number of calls at a time, of messages, and any
troubles):

| Theorem | Says |
|---|---|
| `TypeCorrect` | types; a stage has one row |
| `SettledWasExecuted` | what a stage, the snapshot or the tracker calls settled was paid out |
| `FailsOnlyForAReason` | without a trouble, a dispute or a revocation the pipeline never publishes "failed" |
| `SnapshotIsTheChain` | at rest the snapshot of an undisturbed release is the deal on chain, and a dispute on chain is in it |

`IInv` has three parts, each proved from those before it. `Basic` holds whatever goes wrong: a
call past the execution has seen it (`Paid`), and what is paid out stays so. `SmoothInv` holds
without troubles: until the snapshot exists one call prepares it and nothing else happens,
afterwards nobody prepares it again, and a dispute on chain is recorded or a call is on its
way to record it. `CalmInv` holds if in addition nobody revokes or disputes. It is about the
order of the calls, which no lock keeps. Each call that may still change the snapshot or the
chain holds a *baton* (the approval of a party, the confirmation, the buyer's request, the
release), and no two calls hold the same one (`OneHolder`): the chain accepts the nonce of a
payload once, and the timer that starts a release fires once. The snapshot is the chain but
for what the holder of a baton has still to write (`ApprovalsInv`, `RequestInv`,
`ReleaseInv`), and each call finds true what it relies on when it goes on (`GoesOn`). A payload
the chain has not accepted holds none and is never recorded. `IInv` also holds on the instance
of the `release` run.

The second part of the module is about the private session, `NegotiationSession`, which it
takes with `INSTANCE` and shows to keep `SessionPromise`; the hypothesis is `NegotiationAssumption` (any terms, any number of
attempts and crashes):

| Theorem | Says |
|---|---|
| `SessionTypeCorrect` | types; attempts stay below the limit |
| `SessionsAreRemembered` | a session that is with the validator is in the journal, and tracked unless it was given up |
| `PermissionsOutliveSessions` | the permission is closed only once the session is back on L1 |
| `TermsAreScrubbed` | private terms reach L1 only if written after the scrub, or by the retry loop |

`SessionInv` adds `SessionOpening` (how far the opening has come says who owns the account),
`CommittedInv` (past its commit a closer, or a queued permission, finds the session on its way
back), `QueuedInv` (what the journal queues has been tried) and `ScrubInv` (what is about to be
committed has been scrubbed).

**SportProofs**, from `SportAssumption` (any number of tickets, runs, calls, writes by hand,
revisions and faults):

| Theorem | Says |
|---|---|
| `TypeCorrect` | types |
| `RowsMatchTheChain` | a transaction of a run's own in the match is that of an escrow settled that way, whatever is written by hand; without that, match, ticket, winner and chain agree |
| `SettlementsAreWrittenOnce` | of any number of overlapping runs at most one writes the settlement of an escrow, however often its match is attached, opened again or settled by hand |

`IInv` adds that a request and its run name the same ticket and action (`LinkInv`), that a
success of the middleman is held by one call or one run for each escrow, since the chain executes
it once, and by nobody once it is written (`HeldInv`), that transactions kept for the match by a run
or a request are those of executed escrows (`TxInv`, from `ChainStays`: what is executed stays so), and,
while nothing is done by hand, that the match has the offer's one open ticket and
each run acts on it (`OfferInv`, `PlainInv`).

**TimeoutProofs**, from `WatchAssumption` and `BreakerAssumption` (any calls, retries, scenes
and numbers of the breaker):

| Theorem | Says |
|---|---|
| `TypeCorrect` | types |
| `ProbesAreAwaited` | while the breaker is half-open, a call that was admitted has not yet reported |
| `RefundsAreReal` | a deal marked as refunded, in its row or its phase, was refunded on chain |

`IInv` adds `BreakerInv`, that the mark of a probe is set exactly while the breaker is half-open
and that a call is then in flight (whatever call ends, the breaker is not half-open after it),
and `RefundInv`, that the watcher holds a refund that landed only of an escrow that is
refunded. The transitions write "refunded" only from the chain or from a row that says so.

The type invariants of `NegotiationSession`, `SportSettlement` and `TimeoutWatch`,
`FlagsCoherent`, `EverythingAccounted`, `StakesReturned`, `PaymentsAreCommitted`, `MapsAgree`,
`NoSessionLeftBehind`, `SellersWindowKept`, `SettlementsNeverRefused`, `WithdrawalsNeverRefused`,
`CreditNeverStranded` and the two `Implements...View` are proved and not listed in a run.

Every invariant and every action property the passing runs check is so proved, for every value
of the constants. Only model-checked is liveness, which is out of the prover's reach:
`NeverStuck`, `DepositsLand`, `ReleaseSettles`, `ReachedWhileOnline`, `EventuallyHome`,
`MakerIsPaid`, `VerdictReached`, and the second half of `OutboxPromise`, whose first half is
`PromiseKept`. `SettlementsNeverRefused`, `WithdrawalsNeverRefused` and `CreditNeverStranded` are what safety
can say of such promises in the programs: a step that is due finds nothing in its way but its signer.

## 6. Not modelled, and why

Events, strings and logging are left out everywhere, as no guard reads them, and the rent of
accounts in the programs, which subtract it before they compare (`L:288-292`); the deposit watcher
does not, and has it. The programs' other addresses are independent of the one modelled. In the agent, transaction
building and RPC retries are abstracted to "lands", "fails" or "is reported as failed
after it landed"; attestation, tokens and encryption to their having succeeded. Language
models are inputs.

*RPC endpoints.* Which endpoint a retry uses (`utils/rpcManager.ts`) is abstracted to whether
transactions get through. The other modules of the agent do not mention the breaker: a call it
refuses is, for them, a call that fails.

*Matching engine.* Books in memory of one process, changed by synchronous code. *Webhooks and
inbox.* Rows that are read again; see the observations. *Chain reading, formatting.* Pure.
*Umbra, stealth, Torque.* Calls to services nobody waits for. *SDKs, MCP server, agents.*
Clients: the models give the parties every call these can make.
*Tickets that are not SPORT.* Attaching one to a match by hand hides the match from the runs. *Frontend, landing page,
scripts, vendored code.* Presentation, tooling.

## 7. Plan

1. *(done)* `EscrowTerms`, `EscrowPromise`, `EscrowView`, `EscrowDeal`; proofs.
2. *(done)* `DealPhase` against `EscrowView`; proofs.
3. *(done)* `CreditVault`, `ConfidentialDeal`; proofs; `ReleaseView` and its refinement.
4. *(done)* `DepositWatch` against `EscrowView`; proofs.
5. *(done)* `ReleaseFlow` against `ReleaseView`; proofs.
6. *(done)* `AgentSessions`, `OutboundDelivery`, `OutboxPromise`; proofs and refinement.
7. *(done)* `SessionPromise`, `NegotiationSession`; proofs.
8. *(done)* `SportSettlement`; proofs.
9. *(done)* `CircuitBreaker` with retry and shutdown, and `TimeoutWatch`; proofs.
10. The pipeline's stages before the funding, and the random deal id of a second dispatch.
11. Tickets with the event inbox; the matching engine.
