---------------------------- MODULE DepositWatch ----------------------------
(***************************************************************************)
(* How the agent learns of deposits (listeners/depositWatcher.ts), with    *)
(* the serial handler of deposit_received (index.ts), the confirmation on  *)
(* chain (executeConfirmDeposit) and the part of the phase manager they    *)
(* write to.  Plain transfers to the escrow's address carry no purpose:    *)
(* the watcher tells them apart by sender and amount, confirms a row per   *)
(* deposit, and publishes an event whose handler asks the program to set   *)
(* the flag.  Every await is a step, and may fail; watchers, their startup *)
(* scans, the polling timer, the heartbeat's rescans and the handler       *)
(* interleave, and any number of scans may be under way.                   *)
(*                                                                         *)
(* The escrow is EscrowView.  The watcher compares amounts within a dust   *)
(* tolerance and counts the rent of the account; the program does neither. *)
(* The account's history is short enough to be read at once (10            *)
(* signatures).  The WebSocket listener, off unless an environment flag    *)
(* asks for it, runs the same scan; the second opinion of Dune SIM is      *)
(* logged only.                                                            *)
(***************************************************************************)
EXTENDS EscrowTerms, Sequences

CONSTANTS Deal,          \* the amounts of the deal, as EscrowTerms reads them
          Rent,          \* what the account holds for its own storage
          Dust,          \* DUST_TOLERANCE_LAMPORTS
          Watchers,      \* calls of watchForDeposits in one life of the process, numbered
          Rescanners,    \* the heartbeat's scans that may be under way besides
          Ticks,         \* polls of the timer that may be under way at once
          Nobody,        \* no watcher, no deposit
          Scenes         \* bounds of a behaviour: the plain transfers that may be made
                         \* ([from, amount]), more than once or not, the heartbeat's scans,
                         \* and the number of calls, transfers and faults

VARIABLES
    status, locked, late, \* the escrow: EscrowView
    transfers,       \* what the account received, oldest first
    received,        \* all it received, and what a refund has paid out again
    returned,
    phase,           \* of the deal in the phase manager
    deposited,       \* buyer_deposited, seller_deposited
    paid,            \* payment_locked
    created,         \* the depositConfirmation rows are there
    confirmed,       \* those with confirmed = true
    stored,          \* transaction rows: their unique txSignature
    watcher,         \* watchForDeposits, by call: not called, awaiting the rows, the balance, over
    active,          \* activeWatchers has the ticket
    current,         \* whose expectation the map expectations holds
    expect,          \* the deposits each call's expectation has marked as made
    poll,            \* pollOnChainDealState, by caller
    scan,            \* reconcileDepositWatcherFromHistory, by call or rescan
    queue, handling, \* deposit_received events, in order, and the one being handled
    published,       \* events per deposit
    unwritten,       \* those published although the row could not be written
    faults,          \* crashes, failed awaits, deadlines, and locks by a party itself
    scene            \* the bounds of this behaviour

chain == <<status, locked, late, transfers, received, returned>>
manager == <<phase, deposited, paid>>
rows == <<created, confirmed, stored>>
watching == <<watcher, active, current, expect>>
events == <<queue, handling, published, unwritten>>
bounds == <<faults, scene>>
vars == <<chain, manager, rows, watching, poll, scan, events, bounds>>

Chain == INSTANCE EscrowView

Collaterals == Chain!Collaterals
\* The code takes the deposits one after the other, in this order.
Rank == [BuyerCollateral |-> 1, SellerCollateral |-> 2, BuyerPayment |-> 3]
First(ts) == CHOOSE t \in ts : \A u \in ts : Rank[t] <= Rank[u]
After(ts, t) == {u \in ts : Rank[u] > Rank[t]}

\* What the program counts, and what getBalance returns.
Balance == received - returned
Lamports == Balance + Rent
AmountOf(ts) == Flagged(Deal, ts, "BuyerCollateral") + Flagged(Deal, ts, "SellerCollateral")
                + Flagged(Deal, ts, "BuyerPayment")

Transfers == [from : {"buyer", "seller"}, amount : Nat]

\* Who may scan the history at once: the calls, each of which leaves its place to the
\* heartbeat, and the heartbeat.  A scan polls the account first, and so does the timer the
\* calls share.
Scanners == Watchers \cup Rescanners
Pollers == Scanners \cup Ticks
ASSUME WatchAssumption ==
    /\ Deal \in [price : Nat, collateral_buyer : Nat, collateral_seller : Nat]
    /\ Rent \in Nat /\ Dust \in Nat /\ Rent >= 2 * Dust
    /\ Watchers \subseteq Nat \ {0} /\ Nobody \notin Watchers
    /\ Ticks \cap (Watchers \cup Rescanners) = {} /\ Watchers \cap Rescanners = {}
    /\ Nobody \notin [pc : {"confirm", "record"}, type : Deposits]
    /\ Scenes \subseteq [payments : SUBSET Transfers, calls : Nat, rescans : SUBSET Scanners,
                     again : BOOLEAN, transfers : Nat, faults : Nat]

Idle == [pc |-> "idle", of |-> Nobody, seen |-> {}, left |-> {}]
Resting == [pc |-> "idle", of |-> Nobody, balance |-> 0, upto |-> 0, at |-> 0, todo |-> {},
            pass |-> 0, did |-> FALSE]

Polls == [pc : {"idle", "row", "record"}, of : Watchers \cup {Nobody}, seen : SUBSET Deposits,
          left : SUBSET Deposits]
Scans(n) == [pc : {"idle", "polling", "fetch", "look", "confirm", "store", "total", "totalStore"},
             of : Watchers \cup {Nobody}, balance : Nat, upto : 0..n, at : 0..(n + 1),
             todo : SUBSET Deposits, pass : 0..2, did : BOOLEAN]

TypeOK ==
    /\ Chain!TypeOK
    /\ transfers \in Seq(Transfers) /\ received \in Nat /\ returned \in 0..received
    /\ phase \in {"escrow_created", "awaiting_deposits", "delivery", "refunded"}
    /\ deposited \in SUBSET Collaterals /\ paid \in BOOLEAN
    /\ created \in BOOLEAN /\ confirmed \in SUBSET Deposits
    /\ stored \in SUBSET ((1..scene.transfers) \X (Deposits \cup {"plain"}))
    /\ watcher \in [Watchers -> {"none", "starting", "reading", "returned"}]
    /\ active \in BOOLEAN /\ current \in Watchers \cup {Nobody}
    /\ expect \in [Watchers -> SUBSET Deposits]
    /\ poll \in [Pollers -> Polls] /\ scan \in [Scanners -> Scans(scene.transfers)]
    /\ queue \in Seq(Deposits)
    /\ handling \in [pc : {"confirm", "record"}, type : Deposits] \cup {Nobody}
    /\ published \in [Deposits -> Nat] /\ unwritten \in [Deposits -> Nat]
    /\ scene \in Scenes /\ faults \in 0..scene.faults

Init ==
    /\ status = "Created" /\ locked = {} /\ late = FALSE /\ transfers = <<>>
    /\ received = 0 /\ returned = 0
    /\ phase = "escrow_created" /\ deposited = {} /\ paid = FALSE
    /\ created = FALSE /\ confirmed = {} /\ stored = {}
    /\ watcher = [w \in Watchers |-> "none"]
    /\ active = FALSE /\ current = Nobody
    /\ expect = [w \in Watchers |-> {}]
    /\ poll = [p \in Pollers |-> Idle]
    /\ scan = [s \in Scanners |-> Resting]
    /\ queue = <<>> /\ handling = Nobody
    /\ published = [t \in Deposits |-> 0] /\ unwritten = [t \in Deposits |-> 0]
    /\ faults = 0 /\ scene \in Scenes

-----------------------------------------------------------------------------
(* The parties, and the phase manager. *)

Receive(x) ==
    /\ transfers' = Append(transfers, x) /\ received' = received + x.amount
    /\ UNCHANGED returned

Fault == faults < scene.faults /\ faults' = faults + 1 /\ UNCHANGED scene

\* A plain transfer to the escrow's address.
Pay(x) ==
    /\ Len(transfers) < scene.transfers
    /\ scene.again \/ \A i \in DOMAIN transfers : transfers[i] # x
    /\ Receive(x)
    /\ UNCHANGED <<status, locked, late, manager, rows, watching, poll, scan, events, bounds>>

\* lock_collateral or lock_payment: funds and flag in one transaction.
PartyLocks(t) ==
    /\ Fault /\ Len(transfers) < scene.transfers
    /\ Chain!Deposit(t)
    /\ Receive([from |-> IF t = "SellerCollateral" THEN "seller" ELSE "buyer",
                amount |-> Amount(Deal, t)])
    /\ UNCHANGED <<manager, rows, watching, poll, scan, events>>

\* The deadline, and the refund it allows (EscrowView).
Expire ==
    /\ Fault /\ ~late /\ Chain!Expire
    /\ UNCHANGED <<transfers, received, returned, manager, rows, watching, poll, scan, events>>
Refund ==
    /\ Chain!Refund
    /\ returned' = received
    /\ UNCHANGED <<transfers, received, manager, rows, watching, poll, scan, events, bounds>>

\* recordDeposit: refused, without an error, in any phase but two.
RecordDeposit(t) ==
    IF phase \notin {"awaiting_deposits", "delivery"} THEN UNCHANGED manager
    ELSE /\ deposited' = deposited \cup {t}
         /\ IF deposited' = Collaterals
            THEN phase' = "delivery" /\ paid' = (paid \/ phase # "delivery" \/ t \notin deposited)
            ELSE UNCHANGED <<phase, paid>>

-----------------------------------------------------------------------------
(* Watching. *)

Publish(t) ==
    /\ queue' = Append(queue, t)
    /\ published' = [published EXCEPT ![t] = @ + 1]
    /\ UNCHANGED handling

\* stopWatching leaves a ticket without an active watcher alone.
StopWatching(complete) ==
    IF complete /\ active THEN active' = FALSE /\ current' = Nobody
    ELSE UNCHANGED <<active, current>>

\* watchForDeposits: the test for an active watcher is far from the line that adds one.
\* The heartbeat and recovery advance the phase before the call, activation after it;
\* recovery also calls it for a deal that was awaiting its deposits.
WatchBegin(w) ==
    /\ ~active /\ watcher[w] = "none" /\ w <= scene.calls
    /\ \A v \in Watchers : v < w => watcher[v] # "none"
    /\ \/ phase = "escrow_created" /\ phase' \in {"escrow_created", "awaiting_deposits"}
       \/ /\ phase = "awaiting_deposits" /\ \A v \in Watchers : watcher[v] = "none"
          /\ UNCHANGED phase
    /\ watcher' = [watcher EXCEPT ![w] = "starting"]
    /\ expect' = [expect EXCEPT ![w] = {}]
    /\ current' = w
    /\ UNCHANGED <<chain, deposited, paid, rows, active, poll, scan, events, bounds>>

StartScan(s) ==
    /\ scan' = [scan EXCEPT ![s] = [Resting EXCEPT !.pc = "polling", !.of = current]]
    /\ poll' = [poll EXCEPT ![s] = [pc |-> "row", of |-> current, seen |-> locked,
                                    left |-> Deposits]]

\* The rows exist.
WatchRows(w) ==
    /\ watcher[w] = "starting"
    /\ watcher' = [watcher EXCEPT ![w] = "reading"] /\ created' = TRUE
    /\ UNCHANGED <<chain, manager, confirmed, stored, active, current, expect, poll, scan, events,
                   bounds>>

\* The balance is read: the timer, and a scan of the history.
WatchReturns(w) ==
    /\ watcher[w] = "reading"
    /\ watcher' = [watcher EXCEPT ![w] = "returned"]
    /\ active' = TRUE
    /\ phase' = IF phase = "escrow_created" THEN "awaiting_deposits" ELSE phase
    /\ IF current = Nobody THEN UNCHANGED <<poll, scan>> ELSE StartScan(w)
    /\ UNCHANGED <<chain, deposited, paid, rows, current, expect, events, bounds>>

\* createMany or getBalance throws: the expectation stays, no timer is set.
WatchFails(w) ==
    /\ Fault /\ watcher[w] \in {"starting", "reading"}
    /\ watcher' = [watcher EXCEPT ![w] = "returned"]
    /\ UNCHANGED <<chain, manager, rows, active, current, expect, poll, scan, events>>

\* The polling timer reads the account, whether the last poll is over or not.
PollTick(k) ==
    /\ current # Nobody /\ poll[k].pc = "idle" /\ active
    /\ locked \ expect[current] # {} \/ expect[current] = Deposits
    /\ poll' = [poll EXCEPT ![k] = [pc |-> "row", of |-> current, seen |-> locked,
                                    left |-> Deposits]]
    /\ UNCHANGED <<chain, manager, rows, watching, scan, events, bounds>>

\* The heartbeat has found the full amount on the account, and scans the history, whatever
\* else is scanning it.
Rescan(s) ==
    /\ phase = "awaiting_deposits" /\ received + Rent >= AmountOf(Deposits)
    /\ current # Nobody /\ s \in scene.rescans
    /\ scan[s].pc = "idle" /\ (s \in Watchers => watcher[s] = "returned")
    /\ StartScan(s)
    /\ UNCHANGED <<chain, manager, rows, watching, events, bounds>>

-----------------------------------------------------------------------------
(* pollOnChainDealState: the flags of the account, read once, are marked one by one. *)

Due(p) == {t \in poll[p].left : t \in poll[p].seen /\ t \notin expect[poll[p].of]}

\* updateMany finds a row only where createMany has been.
Written(t) == IF created THEN {t} ELSE {}

\* updateMany of the row; the transaction row and the phase manager come after it.
PollRow(p) ==
    /\ poll[p].pc = "row" /\ Due(p) # {}
    /\ LET t == First(Due(p))
       IN /\ confirmed' = confirmed \cup Written(t)
          /\ poll' = [poll EXCEPT ![p].pc = "record", ![p].left = {t} \cup After(@, t)]
    /\ UNCHANGED <<chain, manager, created, stored, watching, scan, events, bounds>>

PollRecord(p) ==
    /\ poll[p].pc = "record"
    /\ LET t == First(poll[p].left)
       IN /\ expect' = [expect EXCEPT ![poll[p].of] = @ \cup {t}]
          /\ IF t \in Collaterals THEN RecordDeposit(t)
             ELSE paid' = TRUE /\ UNCHANGED <<phase, deposited>>
          /\ poll' = [poll EXCEPT ![p].pc = "row", ![p].left = @ \ {t}]
    /\ UNCHANGED <<chain, rows, watcher, active, current, scan, events, bounds>>

\* A scan goes on to the history unless everything is in.
Polled(p) ==
    IF p \in Ticks THEN scan
    ELSE [scan EXCEPT ![p] = IF expect'[poll[p].of] = Deposits THEN Resting
                             ELSE [@ EXCEPT !.pc = "fetch", !.balance = Lamports]]

\* Nothing is left to mark.
PollEnds(p) ==
    /\ poll[p].pc = "row" /\ Due(p) = {}
    /\ StopWatching(expect[poll[p].of] = Deposits)
    /\ poll' = [poll EXCEPT ![p] = Idle]
    /\ UNCHANGED expect /\ scan' = Polled(p)
    /\ UNCHANGED <<chain, manager, rows, watcher, events, bounds>>

\* The account, a row or the deal cannot be read or written: the poll is over, with the
\* deposit at hand marked or not, and a scan goes on to the history.
PollFails(p) ==
    /\ Fault /\ poll[p].pc # "idle"
    /\ \/ UNCHANGED expect
       \/ /\ poll[p].pc = "record"
          /\ expect' = [expect EXCEPT ![poll[p].of] = @ \cup {First(poll[p].left)}]
    /\ poll' = [poll EXCEPT ![p] = Idle]
    /\ scan' = Polled(p)
    /\ UNCHANGED <<chain, manager, rows, watcher, active, current, events>>

-----------------------------------------------------------------------------
(* identifyAndConfirmDeposit: the account's history, transfer by transfer. *)

\* Mutant of Identified: the payment is looked for as soon as one collateral is in.
PaidEarly(E, x) ==
    IF x.from # "buyer" THEN {}
    ELSE IF "BuyerPayment" \notin E /\ E # {} /\ x.amount >= Amount(Deal, "BuyerPayment")
    THEN {"BuyerPayment"}
    ELSE IF "BuyerCollateral" \notin E THEN {"BuyerCollateral"} ELSE {}

\* isClose: an amount of zero is never looked for.
Close(x, expected) ==
    expected # 0 /\ x.amount <= expected + Dust /\ expected <= x.amount + Dust
Alike(x, t) == Close(x, Amount(Deal, t))
Grouped(x) == Close(x, Amount(Deal, "BuyerCollateral") + Amount(Deal, "BuyerPayment"))

\* What a transfer is taken for when the deposits in E count as made.
Identified(E, x) ==
    IF "SellerCollateral" \notin E /\ x.from = "seller" /\ Alike(x, "SellerCollateral")
    THEN {"SellerCollateral"}
    ELSE IF "BuyerCollateral" \notin E /\ Alike(x, "BuyerCollateral")
    THEN IF x.from = "buyer" THEN {"BuyerCollateral"} ELSE {}
    ELSE IF x.from # "buyer" THEN {}
    ELSE IF {"BuyerCollateral", "BuyerPayment"} \cap E = {} /\ Grouped(x)
    THEN IF "SellerCollateral" \in E THEN {"BuyerCollateral", "BuyerPayment"}
         ELSE {"BuyerCollateral"}
    ELSE IF "SellerCollateral" \notin E /\ Alike(x, "SellerCollateral")
    THEN {}
    ELSE IF Collaterals \subseteq E /\ "BuyerPayment" \notin E
            /\ (Grouped(x) \/ Alike(x, "BuyerPayment"))
    THEN {"BuyerPayment"} ELSE {}

\* The unique txSignature of the transaction row: that of the transfer, made distinct
\* by type when it is a grouped one.
Signature(s, t) == <<s.at, IF Grouped(transfers[s.at]) THEN t ELSE "plain">>

Fetch(w) ==
    /\ scan[w].pc = "fetch"
    /\ scan' = [scan EXCEPT ![w].pc = "look", ![w].upto = Len(transfers), ![w].at = 1,
                            ![w].did = FALSE]
    /\ UNCHANGED <<chain, manager, rows, watching, poll, events, bounds>>

\* The expectation is marked as soon as a transfer is identified.
Look(w) ==
    /\ scan[w].pc = "look" /\ scan[w].at <= scan[w].upto
    /\ LET types == Identified(expect[scan[w].of], transfers[scan[w].at])
       IN /\ expect' = [expect EXCEPT ![scan[w].of] = @ \cup types]
          /\ scan' = IF types = {} THEN [scan EXCEPT ![w].at = @ + 1]
                     ELSE [scan EXCEPT ![w].pc = "confirm", ![w].todo = types, ![w].did = TRUE]
    /\ UNCHANGED <<chain, manager, rows, watcher, active, current, poll, events, bounds>>

Rest(ts) == ts \ {First(ts)}
AfterType(s) ==
    IF Rest(s.todo) # {} THEN [s EXCEPT !.pc = "confirm", !.todo = Rest(@)]
    ELSE [s EXCEPT !.pc = "look", !.todo = {}, !.at = @ + 1]

\* The guard against a second confirmation: a row that was confirmed is left alone.  One that
\* cannot be written is reported all the same.
ConfirmRow(w) ==
    /\ scan[w].pc = "confirm"
    /\ LET t == First(scan[w].todo)
       IN \/ /\ t \in confirmed \/ ~created
             /\ scan' = [scan EXCEPT ![w] = AfterType(@)]
             /\ UNCHANGED <<confirmed, events, bounds>>
          \/ /\ t \notin confirmed /\ created
             /\ scan' = [scan EXCEPT ![w].pc = "store"] /\ confirmed' = confirmed \cup {t}
             /\ UNCHANGED <<events, bounds>>
          \/ /\ Fault
             /\ Publish(t) /\ unwritten' = [unwritten EXCEPT ![t] = @ + 1]
             /\ scan' = [scan EXCEPT ![w] = AfterType(@)]
             /\ UNCHANGED confirmed
    /\ UNCHANGED <<chain, manager, created, stored, watching, poll>>

\* The transaction row, then the event; a signature seen before (P2002) ends it without,
\* any other error does not.
StoreTransaction(w) ==
    /\ scan[w].pc = "store"
    /\ LET t == First(scan[w].todo)
           signature == Signature(scan[w], t)
       IN \/ /\ signature \in stored
             /\ UNCHANGED <<stored, queue, published, handling, bounds>>
          \/ /\ signature \notin stored /\ stored' = stored \cup {signature}
             /\ Publish(t) /\ UNCHANGED bounds
          \/ Fault /\ Publish(t) /\ UNCHANGED stored
    /\ scan' = [scan EXCEPT ![w] = AfterType(@)]
    /\ UNCHANGED <<chain, manager, created, confirmed, watching, poll, unwritten>>

\* The chain or the database fails where nothing catches it: the scan is over, the expectation
\* and the rows stay as they are.  A transfer whose details are not to be had is passed over.
ScanFails(w) ==
    /\ Fault
    /\ \/ scan[w].pc \in {"fetch", "look", "total", "totalStore"} /\ scan' = [scan EXCEPT ![w] = Resting]
       \/ /\ scan[w].pc = "look" /\ scan[w].at <= scan[w].upto
          /\ scan' = [scan EXCEPT ![w].at = @ + 1]
    /\ UNCHANGED <<chain, manager, rows, watching, poll, events>>

Again(s) == [s EXCEPT !.pc = "fetch", !.pass = @ + 1]

\* Mutants of PassEnds: the history is read once; it is read once more than three times.
ReadOnce(w) ==
    /\ scan[w].pc = "look" /\ scan[w].at > scan[w].upto
    /\ StopWatching(expect[scan[w].of] = Deposits)
    /\ scan' = [scan EXCEPT ![w] = Resting]
    /\ UNCHANGED <<chain, manager, rows, watcher, expect, poll, events, bounds>>
ReadOn(w) ==
    /\ scan[w].pc = "look" /\ scan[w].at > scan[w].upto
    /\ scan' = [scan EXCEPT ![w] = IF scan[w].did /\ scan[w].pass <= 2
                                   THEN Again(@) ELSE Resting]
    /\ UNCHANGED <<chain, manager, rows, watching, poll, events, bounds>>

\* Two more passes while the payment is missing; then the balance as a whole.
PassEnds(w) ==
    /\ scan[w].pc = "look" /\ scan[w].at > scan[w].upto
    /\ LET E == expect[scan[w].of]
           again == scan[w].did /\ scan[w].pass < 2 /\ E \cap Collaterals # {}
                        /\ "BuyerPayment" \notin E
           funded == /\ E # Deposits /\ AmountOf(Deposits) > 0
                     /\ scan[w].balance + Dust >= AmountOf(Deposits)
       IN /\ StopWatching(E = Deposits)
          /\ scan' = [scan EXCEPT ![w] =
                 IF again THEN Again(@)
                 ELSE IF funded THEN [@ EXCEPT !.pc = "total", !.todo = Deposits \ E]
                 ELSE Resting]
    /\ UNCHANGED <<chain, manager, rows, watcher, expect, poll, events, bounds>>

AfterTotal(s) ==
    IF Rest(s.todo) = {} THEN Resting ELSE [s EXCEPT !.pc = "total", !.todo = Rest(@)]

\* Mutant of TotalRow: a row that is confirmed is reported again.
TotalAgain(w) ==
    /\ scan[w].pc = "total"
    /\ LET t == First(scan[w].todo)
       IN /\ expect' = [expect EXCEPT ![scan[w].of] = @ \cup {t}]
          /\ confirmed' = confirmed \cup Written(t)
    /\ scan' = [scan EXCEPT ![w].pc = "totalStore"]
    /\ UNCHANGED <<chain, manager, created, stored, watcher, active, current, poll, events, bounds>>

\* reconcileFullyFundedBalance: everything the expectation misses counts as made.
TotalRow(w) ==
    /\ scan[w].pc = "total"
    /\ LET t == First(scan[w].todo)
           E == expect[scan[w].of] \cup {t}
           new == t \notin confirmed /\ created
           last == Rest(scan[w].todo) = {}
       IN /\ expect' = [expect EXCEPT ![scan[w].of] = E]
          /\ confirmed' = confirmed \cup Written(t)
          /\ scan' = [scan EXCEPT ![w] = IF new THEN [@ EXCEPT !.pc = "totalStore"]
                                         ELSE AfterTotal(@)]
          /\ StopWatching(~new /\ last /\ E = Deposits)
    /\ UNCHANGED <<chain, manager, created, stored, watcher, poll, events, bounds>>

TotalStore(w) ==
    /\ scan[w].pc = "totalStore"
    /\ LET last == Rest(scan[w].todo) = {}
       IN /\ Publish(First(scan[w].todo))
          /\ scan' = [scan EXCEPT ![w] = AfterTotal(@)]
          /\ StopWatching(last /\ expect[scan[w].of] = Deposits)
    /\ UNCHANGED <<chain, manager, rows, watcher, expect, poll, unwritten, bounds>>

-----------------------------------------------------------------------------
(* handleDepositReceived, one event at a time. *)

HandlerBegins ==
    /\ handling = Nobody /\ queue # <<>>
    /\ handling' = [pc |-> "confirm", type |-> Head(queue)]
    /\ queue' = Tail(queue)
    /\ UNCHANGED <<chain, manager, rows, watching, poll, scan, published, unwritten, bounds>>

\* What confirm_deposit wants on the account.
Wanted(t) == AmountOf({t} \cup IF t = "BuyerPayment" THEN Collaterals ELSE locked \cap Collaterals)

Confirmable(t) ==
    /\ t \notin locked
    /\ status = IF t = "BuyerPayment" THEN "CollateralLocked" ELSE "Created"
    /\ Wanted(t) <= Balance

ConfirmLands ==
    /\ handling # Nobody /\ handling.pc = "confirm"
    /\ Confirmable(handling.type)
    /\ Chain!Deposit(handling.type)
    /\ handling' = [handling EXCEPT !.pc = "record"]
    /\ UNCHANGED <<transfers, received, returned, manager, rows, watching, poll, scan, queue, published,
                   unwritten, bounds>>

\* The program refuses, or the call fails, before or after it has landed: the event is
\* done with, and nothing asks again.
ConfirmFails ==
    /\ handling # Nobody /\ handling.pc = "confirm"
    /\ \/ ~Confirmable(handling.type) /\ UNCHANGED <<status, locked, late, bounds>>
       \/ Fault /\ UNCHANGED <<status, locked, late>>
       \/ Fault /\ Confirmable(handling.type) /\ Chain!Deposit(handling.type)
    /\ handling' = Nobody
    /\ UNCHANGED <<transfers, received, returned, manager, rows, watching, poll, scan, queue, published,
                   unwritten>>

HandlerRecords ==
    /\ handling # Nobody /\ handling.pc = "record"
    /\ IF handling.type \in Collaterals THEN RecordDeposit(handling.type)
       ELSE /\ paid' = TRUE
            /\ phase' = IF phase = "awaiting_deposits" THEN "delivery" ELSE phase
            /\ UNCHANGED deposited
    /\ handling' = Nobody
    /\ UNCHANGED <<chain, rows, watching, poll, scan, queue, published, unwritten, bounds>>

-----------------------------------------------------------------------------
(* The process stops at any step and recovers: the rows and the phase, reconciled with  *)
(* the chain, are what is left.                                                         *)

PhaseOnChain == [Created |-> "escrow_created", CollateralLocked |-> "delivery",
                 PaymentLocked |-> "delivery", Refunded |-> "refunded"][status]

Restart ==
    /\ Fault
    /\ phase' = PhaseOnChain
    /\ deposited' = locked \cap Collaterals
    /\ paid' = (Chain!Live /\ "BuyerPayment" \in locked)
    /\ watcher' = [w \in Watchers |-> "none"]
    /\ active' = FALSE /\ current' = Nobody
    /\ expect' = [w \in Watchers |-> {}]
    /\ poll' = [p \in Pollers |-> Idle]
    /\ scan' = [s \in Scanners |-> Resting]
    /\ queue' = <<>> /\ handling' = Nobody
    /\ UNCHANGED <<chain, rows, published, unwritten>>

\* What a poll or a scan does next.
Polling(p) == PollRow(p) \/ PollRecord(p) \/ PollEnds(p) \/ PollFails(p)
Scanning(s) == \/ Fetch(s) \/ Look(s) \/ ConfirmRow(s) \/ StoreTransaction(s)
               \/ PassEnds(s) \/ TotalRow(s) \/ TotalStore(s) \/ ScanFails(s)
Starting(w) == WatchRows(w) \/ WatchReturns(w) \/ WatchFails(w)

Watching ==
    \/ \E w \in Watchers : Starting(w)
    \/ \E s \in Scanners : Rescan(s)
    \/ \E k \in Ticks : PollTick(k)
    \/ \E p \in Pollers : Polling(p)
    \/ \E s \in Scanners : Scanning(s)

Handling == HandlerBegins \/ ConfirmLands \/ ConfirmFails \/ HandlerRecords

Next ==
    \/ \E x \in scene.payments : Pay(x)
    \/ \E t \in Deposits : PartyLocks(t)
    \/ Expire \/ Refund
    \/ \E w \in Watchers : WatchBegin(w)
    \/ Watching
    \/ Handling
    \/ Restart

Spec == Init /\ [][Next]_vars

\* Continuations run, the agent goes on with the deal, and the heartbeat comes round.
Fairness ==
    /\ \A p \in Pollers : WF_vars(Polling(p))
    /\ \A s \in Scanners : WF_vars(Scanning(s))
    /\ \A w \in Watchers : WF_vars(Starting(w))
    /\ WF_vars(Handling)
    /\ WF_vars(\E w \in Watchers : WatchBegin(w))
    /\ WF_vars(\E s \in Scanners : Rescan(s))

FairSpec == Spec /\ Fairness

-----------------------------------------------------------------------------
(* What watching promises. *)

\* Whatever notices a deposit - overlapping scans of several watchers and of the heartbeat, the
\* timer, the balance as a whole, a second life of the process - it is reported once, and once
\* more for each time its row could not be written when it was.
ReportedOnce == \A t \in Deposits : published[t] <= 1 + unwritten[t]

\* No transfer stands for two deposits: the rows that are confirmed never add up to more than
\* the account has received, but for the rent, which the watcher takes for a deposit, and the
\* dust it forgives.  Only a price as large as the buyer's collateral, or within the dust of
\* both, can be claimed twice.
Confusable == /\ Deal.price <= Deal.collateral_buyer + 2 * Dust
              /\ Deal.collateral_buyer <= Deal.price + 2 * Dust
RowsAreFunded ==
    AmountOf(confirmed) <= received + Rent + Dust + IF Confusable THEN Deal.price ELSE 0

\* With everything paid by the parties themselves, each leg with its amount or the buyer's two in
\* one, before a deposit is noticed, all three flags get set and the deal goes to delivery, in
\* whatever order the transfers were made and are noticed - unless something goes wrong on the
\* way, or two scans share an expectation.
Made(from, amount) == [from |-> from, amount |-> amount] \in {transfers[i] : i \in DOMAIN transfers}
AllPaid ==
    /\ Made("seller", Amount(Deal, "SellerCollateral"))
    /\ \/ /\ Made("buyer", Amount(Deal, "BuyerCollateral"))
          /\ Made("buyer", Amount(Deal, "BuyerPayment"))
       \/ Made("buyer", Amount(Deal, "BuyerCollateral") + Amount(Deal, "BuyerPayment"))
Unnoticed == confirmed = {} /\ \A w \in Watchers : expect[w] = {}
Landed == faults > 0 \/ (locked = Deposits /\ phase = "delivery")
Overlap == \E s \in Scanners :
    /\ scan[s].pc # "idle"
    /\ \/ \E u \in Scanners \ {s} : scan[u].pc # "idle"
       \/ \E w \in Watchers : watcher[w] \in {"starting", "reading"}
DepositsLand == AllPaid /\ Unnoticed /\ ~Overlap ~> Landed \/ Overlap
=============================================================================
