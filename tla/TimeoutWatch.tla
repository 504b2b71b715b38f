---------------------------- MODULE TimeoutWatch ----------------------------
(***************************************************************************)
(* One deal whose parties fall silent: the timeout watcher that refunds    *)
(* it (services/dealTimeoutWatcher.ts, executeRefundOnTimeout), the calls  *)
(* it makes through withRetry and the circuit breaker, which other calls   *)
(* of the agent share, and the others who write Deal.status, by which the  *)
(* watcher finds the deal: the confirmation of deposits and the phase      *)
(* manager.  The process shuts down, or stops, at any step.                *)
(*                                                                         *)
(* The escrow is EscrowView, its address is stored, and the database does  *)
(* not fail.  A write nobody waits for (transition) lands at once.         *)
(***************************************************************************)
EXTENDS EscrowTerms, CircuitBreaker

CONSTANTS Calls,         \* other calls that go through withRetry
          MaxRetries,    \* of withRetry
          Scenes         \* what is bounded: the calls made, the deposits that come as plain
                         \* transfers, and how often the network goes away and the process stops

ASSUME WatchAssumption ==
    /\ MaxRetries \in Nat
    /\ Scenes \subseteq [calls : SUBSET Calls, transfers : SUBSET Deposits, outages : Nat,
                         stops : Nat]

VARIABLES
    status, locked, late,  \* the escrow: EscrowView
    due,         \* the deadline has passed by the agent's clock
    phase, deposited,      \* of the deal in the phase manager
    row,         \* Deal.status and Deal.isProcessing
    breaker,
    watch,       \* runWatcherCycle, at the deal
    confirm,     \* executeConfirmDeposit, with the handler that called it
    arrived,     \* deposits it was called for
    busy,        \* other calls in progress
    up,          \* the process
    net,         \* transactions reach the chain and are confirmed in time
    outages, stops, scene,
    orphaned     \* the process has stopped with the deal claimed

chain == <<status, locked, late, due>>
manager == <<phase, deposited>>
depositing == <<confirm, arrived>>
world == <<net, outages, scene>>
process == <<up, stops, orphaned>>
vars == <<chain, manager, row, breaker, watch, depositing, busy, world, process>>

Chain == INSTANCE EscrowView

Scanned == {"created", "collateral_locked", "payment_locked"}
Statuses == Scanned \cup {"collateral_buyer", "collateral_seller", "refunded", "cancelled",
                          "expired", "failed", "timeout_failed"}

\* In the watcher, tries counts the attempts of its own withRetry, sends those of the one
\* inside; again tells whether the error may be retried.
Resting == [at |-> "idle", seen |-> "created", tries |-> 0, sends |-> 0, again |-> FALSE]
Waiting == [at |-> "idle", type |-> "BuyerCollateral", to |-> "created"]

Rows == [status : Statuses, processing : BOOLEAN]
Watches == [at : {"idle", "claim", "handle", "attempt", "send", "landed", "failing", "done",
                  "giveUp"},
            seen : Scanned, tries : 0..MaxRetries, sends : 0..MaxRetries, again : BOOLEAN]
Confirms == [at : {"idle", "sending", "landed", "write", "record", "failing"},
             type : Deposits, to : Scanned \cup {"collateral_buyer", "collateral_seller"}]

TypeOK ==
    /\ Chain!TypeOK /\ due \in BOOLEAN
    /\ phase \in {"escrow_created", "awaiting_deposits", "delivery", "refunded", "cancelled"}
    /\ deposited \in SUBSET Chain!Collaterals
    /\ row \in Rows
    /\ breaker \in Breakers
    /\ watch \in Watches
    /\ confirm \in Confirms /\ arrived \in SUBSET Deposits
    /\ busy \in SUBSET Calls
    /\ up \in {"up", "stopping", "down"} /\ orphaned \in BOOLEAN
    /\ scene \in Scenes /\ net \in BOOLEAN
    /\ outages \in 0..scene.outages /\ stops \in 0..scene.stops

Init ==
    /\ status = "Created" /\ locked = {} /\ late = FALSE /\ due = FALSE
    /\ phase = "escrow_created" /\ deposited = {}
    /\ row = [status |-> "created", processing |-> FALSE]
    /\ breaker = FreshBreaker
    /\ watch = Resting
    /\ confirm = Waiting /\ arrived = {}
    /\ busy = {} /\ scene \in Scenes
    /\ up = "up" /\ net = TRUE /\ outages = 0 /\ stops = 0 /\ orphaned = FALSE

Running == up # "down"
Write(s) == row' = [row EXCEPT !.status = s]
Settle(s) == row' = [status |-> s, processing |-> FALSE]

-----------------------------------------------------------------------------
(* The parties, the clocks and the network. *)

PartyDeposits(t) ==
    /\ Chain!Deposit(t)
    /\ UNCHANGED <<due, manager, row, breaker, watch, depositing, busy, world, process>>

\* A refund, or a cancel before both collaterals are in, by a party.
PartySettles ==
    /\ Chain!Refund \/ (status = "Created" /\ Chain!Cancel)
    /\ UNCHANGED <<due, manager, row, breaker, watch, depositing, busy, world, process>>

\* The deadline is one number; the clock of the chain may run behind the agent's.
Due == ~due /\ due' = TRUE
       /\ UNCHANGED <<status, locked, late, manager, row, breaker, watch, depositing, busy, world,
                      process>>
Expire == due /\ ~late /\ Chain!Expire
          /\ UNCHANGED <<due, manager, row, breaker, watch, depositing, busy, world, process>>

NetFails == net /\ outages < scene.outages /\ net' = FALSE /\ outages' = outages + 1
            /\ UNCHANGED <<chain, manager, row, breaker, watch, depositing, busy, scene, process>>
NetReturns == ~net /\ net' = TRUE
              /\ UNCHANGED <<chain, manager, row, breaker, watch, depositing, busy, outages, scene,
                              process>>

-----------------------------------------------------------------------------
(* The phase manager: each transition writes a status of its own. *)

phaseToStatus == [escrow_created |-> "created", awaiting_deposits |-> "collateral_locked",
                  delivery |-> "payment_locked", refunded |-> "refunded",
                  cancelled |-> "cancelled"]
transition(p) == phase' = p /\ Write(phaseToStatus[p])

advanceToAwaitingDeposits ==
    /\ Running /\ phase = "escrow_created"
    /\ transition("awaiting_deposits")
    /\ UNCHANGED <<chain, deposited, breaker, watch, depositing, busy, world, process>>

recordDeposit(t) ==
    IF phase \notin {"awaiting_deposits", "delivery"} THEN UNCHANGED <<manager, row>>
    ELSE /\ deposited' = deposited \cup {t}
         /\ IF deposited' = Chain!Collaterals /\ phase # "delivery"
            THEN transition("delivery") ELSE UNCHANGED <<phase, row>>

\* The poll of the account finds a flag set.
Poll(t) ==
    /\ Running /\ t \in (locked \cap Chain!Collaterals) \ deposited
    /\ phase \in {"awaiting_deposits", "delivery"}
    /\ recordDeposit(t)
    /\ UNCHANGED <<chain, breaker, watch, depositing, busy, world, process>>

-----------------------------------------------------------------------------
(* executeConfirmDeposit, for a deposit that came as a plain transfer. *)

Partial == [BuyerCollateral |-> "collateral_buyer", SellerCollateral |-> "collateral_seller",
            BuyerPayment |-> "payment_locked"]

\* A call may begin: startExecution and canExecute.
Admitted == up = "up" /\ canExecute(breaker)
Asked == IF up = "up" THEN asked(breaker) ELSE breaker

ConfirmBegins(t) ==
    /\ Running /\ confirm.at = "idle" /\ t \in scene.transfers \ arrived
    /\ arrived' = arrived \cup {t}
    /\ confirm' = [confirm EXCEPT !.at = IF Admitted THEN "sending" ELSE "failing", !.type = t]
    /\ breaker' = Asked
    /\ UNCHANGED <<chain, manager, row, watch, busy, world, process>>

ConfirmLands ==
    /\ Running /\ confirm.at = "sending" /\ net
    /\ Chain!Deposit(confirm.type)
    /\ breaker' \in Succeeded(breaker)
    /\ confirm' = [confirm EXCEPT !.at = "landed"]
    /\ UNCHANGED <<due, manager, row, watch, arrived, busy, world, process>>

\* The program refuses, or no confirmation comes, even of a deposit that landed.
Confirmable == /\ confirm.type \notin locked
               /\ status = IF confirm.type = "BuyerPayment" THEN "CollateralLocked" ELSE "Created"
ConfirmFails ==
    /\ Running /\ confirm.at = "sending"
    /\ \/ UNCHANGED <<status, locked, late>> /\ (~net \/ ~Confirmable)
       \/ ~net /\ Chain!Deposit(confirm.type)
    /\ breaker' = recordFailure(breaker)
    /\ confirm' = [confirm EXCEPT !.at = "failing"]
    /\ UNCHANGED <<due, manager, row, watch, arrived, busy, world, process>>

\* The new status is computed from the row, and written after.
ConfirmReads ==
    /\ Running /\ confirm.at = "landed"
    /\ confirm' = [confirm EXCEPT !.at = "write", !.to =
           IF {Partial[confirm.type], row.status} = {"collateral_buyer", "collateral_seller"}
           THEN "collateral_locked" ELSE Partial[confirm.type]]
    /\ UNCHANGED <<chain, manager, row, breaker, watch, arrived, busy, world, process>>

ConfirmWrites ==
    /\ Running
    /\ \/ confirm.at = "write" /\ Write(confirm.to) /\ confirm' = [confirm EXCEPT !.at = "record"]
       \/ confirm.at = "failing" /\ Write("failed") /\ confirm' = Waiting
    /\ UNCHANGED <<chain, manager, breaker, watch, arrived, busy, world, process>>

\* Back in the handler of deposit_received.
ConfirmRecords ==
    /\ Running /\ confirm.at = "record"
    /\ IF confirm.type \in Chain!Collaterals THEN recordDeposit(confirm.type)
       ELSE IF phase = "awaiting_deposits" THEN transition("delivery") /\ UNCHANGED deposited
       ELSE UNCHANGED <<manager, row>>
    /\ confirm' = Waiting
    /\ UNCHANGED <<chain, breaker, watch, arrived, busy, world, process>>

-----------------------------------------------------------------------------
(* The watcher: runWatcherCycle and handleExpiredDeal. *)

\* The rows are read here, and handled one after the other.
Scan ==
    /\ up = "up" /\ watch.at = "idle"
    /\ due /\ row.status \in Scanned /\ ~row.processing
    /\ watch' = [Resting EXCEPT !.at = "claim", !.seen = row.status]
    /\ UNCHANGED <<chain, manager, row, breaker, depositing, busy, world, process>>

Claim ==
    /\ Running /\ watch.at = "claim"
    /\ row' = [row EXCEPT !.processing = TRUE]
    /\ watch' = [watch EXCEPT !.at = "handle"]
    /\ UNCHANGED <<chain, manager, breaker, depositing, busy, world, process>>

\* By what the scan read: nothing is locked, or the refund is tried, in a withRetry of the
\* watcher's own.
Handle ==
    /\ Running /\ watch.at = "handle"
    /\ \/ /\ watch.seen = "created"
          /\ Settle("expired") /\ watch' = Resting
          /\ UNCHANGED breaker
       \/ /\ watch.seen # "created"
          /\ watch' = [watch EXCEPT !.at = IF Admitted THEN "attempt" ELSE "giveUp"]
          /\ breaker' = Asked
          /\ UNCHANGED row
    /\ UNCHANGED <<chain, manager, depositing, busy, world, process>>

\* executeRefundOnTimeout calls withRetry again.
Attempt ==
    /\ Running /\ watch.at = "attempt"
    /\ watch' = [watch EXCEPT !.at = IF Admitted THEN "send" ELSE "failing",
                              !.sends = 0, !.again = FALSE]
    /\ breaker' = Asked
    /\ UNCHANGED <<chain, manager, row, depositing, busy, world, process>>

Refundable == Chain!Live /\ late
RefundLands ==
    /\ Running /\ watch.at = "send" /\ net
    /\ Chain!Refund
    /\ breaker' \in Succeeded(breaker)
    /\ watch' = [watch EXCEPT !.at = "landed"]
    /\ UNCHANGED <<due, manager, row, depositing, busy, world, process>>

RefundRefused ==
    /\ Running /\ watch.at = "send" /\ net /\ ~Refundable
    /\ breaker' = recordFailure(breaker)
    /\ watch' = [watch EXCEPT !.at = "failing"]
    /\ UNCHANGED <<chain, manager, row, depositing, busy, world, process>>

\* No confirmation comes: it is sent again, until the attempts or the two minutes are over.
RefundUnconfirmed ==
    /\ Running /\ watch.at = "send" /\ ~net
    /\ UNCHANGED <<status, locked, late>> \/ Chain!Refund
    /\ \/ /\ watch.sends < MaxRetries
          /\ watch' = [watch EXCEPT !.sends = @ + 1]
          /\ UNCHANGED breaker
       \/ /\ watch' = [watch EXCEPT !.at = "failing", !.again = watch.sends = MaxRetries]
          /\ breaker' = recordFailure(breaker)
    /\ UNCHANGED <<due, manager, row, depositing, busy, world, process>>

RefundStored ==
    /\ Running /\ watch.at = "landed"
    /\ Write("refunded")
    /\ breaker' \in Succeeded(breaker)
    /\ watch' = [watch EXCEPT !.at = "done"]
    /\ UNCHANGED <<chain, manager, depositing, busy, world, process>>

\* Mutant: the watcher takes no notice of what executeRefundOnTimeout returns.
FailureIgnored ==
    /\ Running /\ watch.at = "failing"
    /\ Write("failed")
    /\ breaker' \in Succeeded(breaker)
    /\ watch' = [watch EXCEPT !.at = "done"]
    /\ UNCHANGED <<chain, manager, depositing, busy, world, process>>

RefundFailed ==
    /\ Running /\ watch.at = "failing"
    /\ Write("failed")
    /\ \/ /\ watch.again /\ watch.tries < MaxRetries
          /\ watch' = [watch EXCEPT !.at = "attempt", !.tries = @ + 1]
          /\ UNCHANGED breaker
       \/ /\ watch' = [watch EXCEPT !.at = "giveUp"]
          /\ breaker' = recordFailure(breaker)
    /\ UNCHANGED <<chain, manager, depositing, busy, world, process>>

\* Mutant: the error of a refund leaves the loop without giving the deal back.
KeepsClaim ==
    /\ Running /\ watch.at \in {"done", "giveUp"}
    /\ IF watch.at = "done" THEN Settle("refunded") ELSE UNCHANGED row
    /\ watch' = Resting
    /\ UNCHANGED <<chain, manager, breaker, depositing, busy, world, process>>

Conclude ==
    /\ Running /\ watch.at \in {"done", "giveUp"}
    /\ Settle(IF watch.at = "done" THEN "refunded" ELSE "timeout_failed")
    /\ watch' = Resting
    /\ UNCHANGED <<chain, manager, breaker, depositing, busy, world, process>>

Watching ==
    \/ Scan \/ Claim \/ Handle \/ Attempt
    \/ RefundLands \/ RefundRefused \/ RefundUnconfirmed
    \/ RefundStored \/ RefundFailed \/ Conclude

-----------------------------------------------------------------------------
(* Other calls, the clock of the breaker, and the process. *)

\* One that is not admitted ends at once.
CallBegins(c) ==
    /\ up = "up" /\ c \in scene.calls \ busy
    /\ busy' = IF Admitted THEN busy \cup {c} ELSE busy
    /\ breaker' = Asked
    /\ UNCHANGED <<chain, manager, row, watch, depositing, world, process>>

CallEnds(c) ==
    /\ Running /\ c \in busy
    /\ breaker' \in Succeeded(breaker)      \* or it fails, which counts as a slow one
    /\ busy' = busy \ {c}
    /\ UNCHANGED <<chain, manager, row, watch, depositing, world, process>>

TimePasses ==
    /\ Running
    /\ \/ breaker.state = "OPEN" /\ breaker' = [breaker EXCEPT !.cool = TRUE]
       \/ /\ breaker.state = "CLOSED"
          /\ \E g \in 0..breaker.successes, f \in 0..breaker.failures :
                breaker' = Pruned(breaker, g, f)
    /\ UNCHANGED <<chain, manager, row, watch, depositing, busy, world, process>>

beginShutdown ==
    /\ up = "up" /\ stops < scene.stops
    /\ up' = "stopping" /\ stops' = stops + 1
    /\ UNCHANGED <<chain, manager, row, breaker, watch, depositing, busy, world, orphaned>>

\* The end of a shutdown, when the calls have drained or after 30 seconds, or a crash. A
\* transfer whose confirmation was not stored may be found again.
Stop ==
    /\ \/ up = "stopping" /\ UNCHANGED stops
       \/ up = "up" /\ stops < scene.stops /\ stops' = stops + 1
    /\ up' = "down"
    /\ orphaned' = (orphaned \/ row.processing)
    /\ breaker' = FreshBreaker /\ watch' = Resting /\ busy' = {} /\ confirm' = Waiting
    /\ arrived' \in {arrived, IF confirm.at = "idle" THEN arrived ELSE arrived \ {confirm.type}}
    /\ UNCHANGED <<chain, manager, row, world>>

PhaseOnChain ==
    [Created |-> "escrow_created", CollateralLocked |-> "delivery", PaymentLocked |-> "delivery",
     Refunded |-> "refunded", Cancelled |-> "cancelled"]
Ended == {"refunded", "cancelled"}

\* recoverInFlightDeals: a phase that has ended is not loaded; Deal.status may end it; then the
\* chain is read, if it answers, and a created escrow is advanced. The writes of the two
\* transitions are not awaited and land in either order.
Restart ==
    /\ up = "down" /\ up' = "up"
    /\ LET healed == IF phase \notin Ended /\ row.status \in Ended THEN row.status ELSE phase
       IN \/ /\ healed \in Ended
             /\ phase' = healed /\ UNCHANGED <<deposited, row>>
          \/ /\ healed \notin Ended
             /\ \E read \in {healed, PhaseOnChain[status]} :
                   LET after == IF read = "escrow_created" THEN "awaiting_deposits" ELSE read
                       written == {phaseToStatus[p] : p \in ({read} \ {healed}) \cup
                                                            ({after} \ {read})}
                   IN /\ phase' = after
                      /\ deposited' \in {locked \cap Chain!Collaterals} \cup
                            (IF read = healed THEN {deposited} ELSE {})
                      /\ \/ written = {} /\ UNCHANGED row
                         \/ \E s \in written : Write(s)
    /\ UNCHANGED <<chain, breaker, watch, depositing, busy, world, stops, orphaned>>

Next ==
    \/ \E t \in Deposits : PartyDeposits(t) \/ Poll(t) \/ ConfirmBegins(t)
    \/ PartySettles \/ Due \/ Expire \/ NetFails \/ NetReturns
    \/ advanceToAwaitingDeposits
    \/ ConfirmLands \/ ConfirmFails \/ ConfirmReads \/ ConfirmWrites \/ ConfirmRecords
    \/ Watching
    \/ \E c \in Calls : CallBegins(c) \/ CallEnds(c)
    \/ TimePasses \/ beginShutdown \/ Stop \/ Restart

Spec == Init /\ [][Next]_vars

\* The watcher's loop goes on while the process runs; a shutdown ends within 30 seconds; the
\* container is started again (restart: always).
FairSpec == Spec /\ WF_vars(Watching) /\ WF_vars(up = "stopping" /\ Stop) /\ WF_vars(Restart)

-----------------------------------------------------------------------------

\* While the breaker waits for its probe, a call that was admitted is still in flight: the call
\* whose end lets the agent back on chain is never lost, however calls overlap and nest.
InFlight == \/ busy # {} \/ confirm.at = "sending"
            \/ watch.at \in {"attempt", "send", "landed", "failing"}
ProbeInFlight == Running /\ breaker.state = "HALF_OPEN" => breaker.probing /\ InFlight

\* Whoever wrote it, the watcher, a transition or the recovery, a deal marked as refunded has
\* been refunded on chain.
RefundedIsReal == "refunded" \in {row.status, phase} => status = "Refunded"

\* A deal past its deadline that the watcher can see gets a verdict, refunded, expired or
\* failed, whatever the chain and the other calls do; unless the process stops while the deal
\* is claimed.
VerdictReached ==
    (due /\ row.status \in Scanned) ~> (row.status \notin Scanned \/ orphaned)
=============================================================================
