--------------------------- MODULE SportSettlement ---------------------------
(***************************************************************************)
(* One SPORT offer, from the API server's acceptance of it to the          *)
(* settlement of its escrow by the result of the fixture: the offer, its   *)
(* tickets and its match in the database of the API server, the deals of   *)
(* the middleman, which is another process, and the escrows on chain.      *)
(* Several settlement runs overlap: the timer's (transactionMonitor.ts)    *)
(* has no guard, an administrator may start more.  The administrator may   *)
(* also write to the match by hand: attach another ticket, start the match *)
(* again, settle it, or give a run the transactions to record.  Attaching  *)
(* a ticket that is not a SPORT one hides the match from the runs, and is  *)
(* left out.                                                               *)
(***************************************************************************)
EXTENDS Naturals, FiniteSets

CONSTANTS Tickets,       \* of the offer: a rolled-back acceptance leaves its ticket's deal
          Foreign,       \* SPORT tickets of other offers
          Timers,        \* the runs the timer starts
          Admins,        \* the runs an administrator starts
          Calls,         \* settlement calls the middleman works on at a time
          None,
          Supplied,      \* a transaction that an administrator names
          Modes,         \* of the offer, chosen by the maker
          Limit,         \* SPORT_SETTLEMENT_MONITOR_LIMIT
          Scenes         \* bounds of a behaviour: writes by hand, revisions of the result,
                         \* faults (answers lost, time-outs, crashes), older open matches,
                         \* and the tickets whose escrow others may settle or dispute

VARIABLES mode,       \* Offer.mode
          offer,      \* Offer.status
          cancelling, \* updateOffer has read the offer as active
          row,        \* the Ticket rows: "None", "Open", "Deleted"
          accept,     \* the request that accepts the offer
          admin,      \* what an administrator's request is about to write to the match
          match,      \* the ArenaMatch; tx: the releaseTx and the refundTx, by their escrow
          written,    \* of each ticket, how often a run has written its settlement down
          outcome,    \* who wins by the ArenaOutcome, "None" without one
          ahead,      \* SPORT matches that are older, and open
          run,        \* runSportSettlement, at the match
          call,       \* executeSportSettlement
          deal,       \* the middleman's phase and flags of each ticket
          chain,      \* Deal.status of its escrow
          elsewhere,  \* the tickets whose escrow somebody else settles, or disputes
          hands, revisions, faults,
          scene       \* the bounds of this behaviour

apiVars == <<mode, offer, cancelling, row, accept, admin>>
matchVars == <<match, written>>
settling == <<run, call>>
escrows == <<deal, chain, elsewhere>>
bounds == <<hands, revisions, faults, scene>>
vars == <<apiVars, matchVars, outcome, ahead, settling, escrows, bounds>>

Terminal == {"settled", "released", "refunded"}
Sides == {"maker", "taker"}
Actions == {"release_to_maker", "refund_to_taker"}
AllTickets == Tickets \cup Foreign
Runs == Timers \cup Admins
Transactions == AllTickets \cup {None, Supplied}

ASSUME SportAssumption ==
    /\ None \notin AllTickets \cup Calls /\ Supplied \notin AllTickets \cup {None}
    /\ Tickets \cap Foreign = {} /\ Timers \cap Admins = {}
    /\ Modes \subseteq {"buy", "sell"}
    /\ Scenes \subseteq [hands : Nat, revisions : Nat, faults : Nat, ahead : Nat,
                         others : SUBSET AllTickets]

NoCall == [at |-> "idle", ticket |-> None, action |-> "None"]
NoRun == [at |-> "idle", ticket |-> None, action |-> "None", call |-> None,
          supplied |-> {}, seen |-> None]
NoAccept == [at |-> "idle", ticket |-> None]
NoRequest == [at |-> "idle", ticket |-> None, seen |-> [a \in Actions |-> None]]

Init ==
    /\ mode \in Modes
    /\ offer = "active"
    /\ cancelling = FALSE
    /\ row = [t \in AllTickets |-> IF t \in Foreign THEN "Open" ELSE "None"]
    /\ accept = NoAccept
    /\ admin = NoRequest
    /\ match = [status |-> "offer_created", ticket |-> None, winner |-> "None",
                tx |-> [a \in Actions |-> None]]
    /\ written = [t \in AllTickets |-> 0]
    /\ outcome = "None"
    /\ run = [r \in Runs |-> NoRun]
    /\ call = [c \in Calls |-> NoCall]
    /\ deal = [t \in AllTickets |-> IF t \in Foreign THEN "Funded" ELSE "None"]
    /\ chain = [t \in AllTickets |-> IF t \in Foreign THEN "PaymentLocked" ELSE "None"]
    /\ elsewhere = {}
    /\ hands = 0 /\ revisions = 0 /\ faults = 0
    /\ scene \in Scenes /\ ahead = scene.ahead

Fault == faults < scene.faults /\ faults' = faults + 1 /\ UNCHANGED <<hands, revisions, scene>>
Hand == hands < scene.hands /\ hands' = hands + 1 /\ UNCHANGED <<revisions, faults, scene>>

-----------------------------------------------------------------------------
\* The offer.  Accepting takes it and creates its ticket in one transaction; the deal is
\* then made by the middleman, within five seconds or not as far as the request knows.
acceptOffer(t) ==
    /\ accept.at = "idle"
    /\ offer = "active"
    /\ row[t] = "None"
    /\ \A u \in Tickets : row[u] # "Open"
    /\ offer' = "matched"
    /\ row' = [row EXCEPT ![t] = "Open"]
    /\ accept' = [at |-> "forward", ticket |-> t]
    /\ UNCHANGED <<mode, cancelling, admin, matchVars, outcome, ahead, settling, escrows, bounds>>

Answered(next) ==
    /\ accept.at = "forward"
    /\ accept' = [accept EXCEPT !.at = next]
    /\ UNCHANGED <<mode, offer, cancelling, row, admin, matchVars, outcome, ahead, settling,
                   chain, elsewhere>>

createMatched ==
    /\ Answered("attach")
    /\ deal' = [deal EXCEPT ![accept.ticket] = "Open"]
    /\ UNCHANGED bounds

refuseMatched == Answered("rollback") /\ UNCHANGED <<deal, bounds>>

loseAnswer ==
    /\ Answered("rollback")
    /\ deal' = [deal EXCEPT ![accept.ticket] = "Open"]
    /\ Fault

rollBack ==
    /\ accept.at = "rollback"
    /\ row' = [row EXCEPT ![accept.ticket] = "Deleted"]
    /\ offer' = "active"
    /\ accept' = NoAccept
    /\ UNCHANGED <<mode, cancelling, admin, matchVars, outcome, ahead, settling, escrows, bounds>>

\* updateOffer writes what it is told, though the offer may be taken since it was read.
readOffer ==
    /\ ~cancelling
    /\ offer = "active"
    /\ cancelling' = TRUE
    /\ UNCHANGED <<mode, offer, row, accept, admin, matchVars, outcome, ahead, settling, escrows,
                   bounds>>

cancelOffer ==
    /\ cancelling
    /\ cancelling' = FALSE
    /\ offer' = "cancelled"
    /\ UNCHANGED <<mode, row, accept, admin, matchVars, outcome, ahead, settling, escrows, bounds>>

-----------------------------------------------------------------------------
\* The match.  attachArenaTicket reads it, refuses a settled one, and writes later.
Attached(t, status) == match' = [match EXCEPT !.ticket = t, !.status = status]

attachSportTicketByOffer ==
    /\ accept.at = "attach"
    /\ accept' = IF match.status \in Terminal THEN NoAccept
                 ELSE [accept EXCEPT !.at = "attaching"]
    /\ UNCHANGED <<mode, offer, cancelling, row, admin, matchVars, outcome, ahead, settling,
                   escrows, bounds>>

\* A ticket that could not be attached is only logged.
attachFails ==
    /\ accept.at \in {"attach", "attaching"}
    /\ accept' = NoAccept
    /\ Fault
    /\ UNCHANGED <<mode, offer, cancelling, row, admin, matchVars, outcome, ahead, settling,
                   escrows>>

attachArenaTicket ==
    /\ accept.at = "attaching"
    /\ Attached(accept.ticket, "ticket_attached")
    /\ accept' = NoAccept
    /\ UNCHANGED <<mode, offer, cancelling, row, admin, written, outcome, ahead, settling, escrows,
                   bounds>>

\* The administrator attaches any ticket that has a row, starts the match, or settles it: the
\* match is read as open, and written later.
adminReads(request) ==
    /\ admin = NoRequest
    /\ Hand
    /\ match.status \notin Terminal
    /\ request.ticket # None => row[request.ticket] = "Open"
    /\ admin' = request
    /\ UNCHANGED <<mode, offer, cancelling, row, accept, matchVars, outcome, ahead, settling,
                   escrows>>

adminAttaches(t) == adminReads([NoRequest EXCEPT !.at = "attach", !.ticket = t])
adminStarts == adminReads([NoRequest EXCEPT !.at = "start"])
adminSettles ==
    /\ outcome # "None"
    /\ adminReads([NoRequest EXCEPT !.at = "settle", !.seen = match.tx])

\* What is written is the administrator's choice: the status of an attached ticket, and of a
\* settlement the status, the winner and the transactions; one that is not named is the one
\* that was read.
adminWrites ==
    /\ \/ /\ admin.at = "attach"
          /\ \E s \in {"ticket_attached"} \cup Terminal : Attached(admin.ticket, s)
       \/ /\ admin.at = "start"
          /\ match' = [match EXCEPT !.status = "offer_created"]
       \/ /\ admin.at = "settle"
          /\ \E s \in Terminal, w \in Sides, as \in SUBSET Actions :
                 match' = [match EXCEPT !.status = s, !.winner = w,
                               !.tx = [a \in Actions |-> IF a \in as THEN Supplied
                                                         ELSE admin.seen[a]]]
    /\ admin' = NoRequest
    /\ UNCHANGED <<mode, offer, cancelling, row, accept, written, outcome, ahead, settling,
                   escrows, bounds>>

\* A final score is stored; a later one may say otherwise, and overwrites it.
upsertOutcome(s) ==
    /\ outcome # s
    /\ outcome' = s
    /\ IF outcome = "None" THEN UNCHANGED bounds
       ELSE /\ revisions < scene.revisions /\ revisions' = revisions + 1
            /\ UNCHANGED <<hands, faults, scene>>
    /\ UNCHANGED <<apiVars, matchVars, ahead, settling, escrows>>

-----------------------------------------------------------------------------
\* A run reads its matches, the oldest first, and comes to this one with what it read.
Begins(r, supplied) ==
    /\ run[r].at = "idle"
    /\ match.status \notin Terminal
    /\ run' = [run EXCEPT ![r] = [NoRun EXCEPT !.at = "read", !.ticket = match.ticket,
                                               !.supplied = supplied]]
    /\ UNCHANGED <<apiVars, matchVars, outcome, ahead, call, escrows>>

\* The timer's run takes as many as the limit allows.
sweepSportSettlement(r) == ahead < Limit /\ Begins(r, {}) /\ UNCHANGED bounds

\* The administrator's may name the match, and the transactions to record.
runSportSettlement(r, supplied) ==
    /\ Begins(r, supplied)
    /\ IF supplied = {} THEN UNCHANGED bounds ELSE Hand

Skip(r) == run' = [run EXCEPT ![r] = NoRun]

\* An older match is settled; a run that comes too late with it throws, and gives up the rest.
olderSettles(late) ==
    /\ ahead > 0 /\ ahead' = ahead - 1
    /\ run' = [r \in Runs |-> IF r \in late /\ run[r].at = "read" THEN NoRun ELSE run[r]]
    /\ UNCHANGED <<apiVars, matchVars, outcome, call, escrows, bounds>>

\* Mutant: the sides are swapped.
swappedAction == IF outcome = "taker" THEN "release_to_maker" ELSE "refund_to_taker"
settlementAction == IF outcome = "maker" THEN "release_to_maker" ELSE "refund_to_taker"

\* No final result yet, or no ticket and no transaction.
skipMatch(r) ==
    /\ run[r].at = "read"
    /\ outcome = "None" \/ (run[r].ticket = None /\ settlementAction \notin run[r].supplied)
    /\ Skip(r)
    /\ UNCHANGED <<apiVars, matchVars, outcome, ahead, call, escrows, bounds>>

\* With the transaction at hand the middleman is not asked.
recordSupplied(r) ==
    /\ run[r].at = "read"
    /\ outcome # "None" /\ settlementAction \in run[r].supplied
    /\ run' = [run EXCEPT ![r].at = "settle", ![r].action = settlementAction]
    /\ UNCHANGED <<apiVars, matchVars, outcome, ahead, call, escrows, bounds>>

forwardSportSettlement(r, c) ==
    /\ run[r].at = "read"
    /\ outcome # "None" /\ settlementAction \notin run[r].supplied
    /\ run[r].ticket # None
    /\ call[c].at = "idle"
    /\ call' = [call EXCEPT ![c] = [at |-> "check", ticket |-> run[r].ticket,
                                    action |-> settlementAction]]
    /\ run' = [run EXCEPT ![r].at = "called", ![r].action = settlementAction,
                          ![r].call = c]
    /\ UNCHANGED <<apiVars, matchVars, outcome, ahead, escrows, bounds>>

Awaited(c) == \E r \in Runs : run[r].at = "called" /\ run[r].call = c
Ends(c, result) ==
    call' = [call EXCEPT ![c] = IF Awaited(c) THEN [@ EXCEPT !.at = result] ELSE NoCall]

\* The middleman: a funded SPORT deal is released, or cancelled.
executeSportSettlement(c) ==
    /\ call[c].at = "check"
    /\ IF deal[call[c].ticket] = "Funded"
       THEN call' = [call EXCEPT ![c].at = "execute"]
       ELSE Ends(c, "failed")
    /\ UNCHANGED <<apiVars, matchVars, outcome, ahead, run, escrows, bounds>>

\* release_funds and cancel_deal, on chain.
Allows(action, status) ==
    status \in IF action = "release_to_maker" THEN {"PaymentLocked"}
               ELSE {"Created", "CollateralLocked"}
Becomes(action) == IF action = "release_to_maker" THEN "Completed" ELSE "Cancelled"

Executed(c) ==
    /\ call[c].at = "execute"
    /\ Allows(call[c].action, chain[call[c].ticket])
    /\ chain' = [chain EXCEPT ![call[c].ticket] = Becomes(call[c].action)]
    /\ UNCHANGED <<apiVars, matchVars, outcome, ahead, run, deal, elsewhere>>

executeOnChain(c) ==
    /\ Executed(c)
    /\ call' = [call EXCEPT ![c].at = "record"]
    /\ UNCHANGED bounds

\* It landed, but its confirmation timed out, and the retry is refused.
executeUnseen(c) == Executed(c) /\ Ends(c, "failed") /\ Fault

\* Mutant: what is done already counts as done.
refuseUnlessDone(c) ==
    /\ call[c].at = "execute"
    /\ ~Allows(call[c].action, chain[call[c].ticket])
    /\ Ends(c, IF chain[call[c].ticket] = Becomes(call[c].action) THEN "done" ELSE "failed")
    /\ UNCHANGED <<apiVars, matchVars, outcome, ahead, run, escrows, bounds>>

refuseExecution(c) ==
    /\ call[c].at = "execute"
    /\ ~Allows(call[c].action, chain[call[c].ticket])
    /\ Ends(c, "failed")
    /\ UNCHANGED <<apiVars, matchVars, outcome, ahead, run, escrows, bounds>>

syncTerminalPhase(c) ==
    /\ call[c].at = "record"
    /\ deal' = [deal EXCEPT ![call[c].ticket] =
                  IF call[c].action = "release_to_maker" THEN "Completed" ELSE "Refunded"]
    /\ Ends(c, "done")
    /\ UNCHANGED <<apiVars, matchVars, outcome, ahead, run, chain, elsewhere, bounds>>

\* Mutant: a refusal is recorded like a success.
answerAnyway(r) ==
    /\ run[r].at = "called"
    /\ call[run[r].call].at \in {"done", "failed"}
    /\ run' = [run EXCEPT ![r].at = "settle"]
    /\ call' = [call EXCEPT ![run[r].call] = NoCall]
    /\ UNCHANGED <<apiVars, matchVars, outcome, ahead, escrows, bounds>>

\* The answer, within a minute; later the call goes on unawaited.
answerRun(r) ==
    /\ run[r].at = "called"
    /\ call[run[r].call].at \in {"done", "failed"}
    /\ IF call[run[r].call].at = "done" THEN run' = [run EXCEPT ![r].at = "settle"]
                                        ELSE Skip(r)
    /\ call' = [call EXCEPT ![run[r].call] = NoCall]
    /\ UNCHANGED <<apiVars, matchVars, outcome, ahead, escrows, bounds>>

Unawaited(C) ==
    [c \in Calls |-> IF c \in C /\ call[c].at \in {"done", "failed"} THEN NoCall
                     ELSE call[c]]

timeOut(r) ==
    /\ run[r].at = "called"
    /\ Skip(r)
    /\ call' = Unawaited({run[r].call})
    /\ Fault
    /\ UNCHANGED <<apiVars, matchVars, outcome, ahead, escrows>>

\* settleArenaMatch reads the match again, and the result, and writes.  The status and the
\* transaction are the run's, the other transaction is the one that was read, and the winner
\* is that of the result as it is now.
Other(a) == IF a = "release_to_maker" THEN "refund_to_taker" ELSE "release_to_maker"

settleArenaMatch(r) ==
    /\ run[r].at = "settle"
    /\ IF match.status \in Terminal THEN Skip(r)
       ELSE run' = [run EXCEPT ![r].at = "write", ![r].seen = match.tx[Other(run[r].action)]]
    /\ UNCHANGED <<apiVars, matchVars, outcome, ahead, call, escrows, bounds>>

ByHand(r) == run[r].action \in run[r].supplied

writeSettlement(r) ==
    /\ run[r].at = "write"
    /\ match' = [match EXCEPT
                   !.status = IF run[r].action = "release_to_maker" THEN "released"
                              ELSE "refunded",
                   !.winner = outcome,
                   !.tx = [a \in Actions |->
                              IF a # run[r].action THEN run[r].seen
                              ELSE IF ByHand(r) THEN Supplied ELSE run[r].ticket]]
    /\ written' = IF ByHand(r) THEN written
                  ELSE [written EXCEPT ![run[r].ticket] = @ + 1]
    /\ Skip(r)
    /\ UNCHANGED <<apiVars, outcome, ahead, call, escrows, bounds>>

-----------------------------------------------------------------------------
\* The escrow of a ticket, as EscrowDeal and DealPhase have it.
Chain(t, from, to) ==
    /\ chain[t] \in from
    /\ chain' = [chain EXCEPT ![t] = to]
    /\ UNCHANGED <<apiVars, matchVars, outcome, ahead, settling, bounds>>

createEscrow(t) ==
    deal[t] = "Open" /\ Chain(t, {"None"}, "Created") /\ UNCHANGED <<deal, elsewhere>>
lockCollaterals(t) ==
    Chain(t, {"Created"}, "CollateralLocked") /\ UNCHANGED <<deal, elsewhere>>
lockPayment(t) ==
    Chain(t, {"CollateralLocked"}, "PaymentLocked") /\ UNCHANGED <<deal, elsewhere>>

\* With the second collateral the payment counts as locked too; only a deal that a restart has
\* read from the chain in between waits for the payment.
recordDeposits(t) ==
    /\ \/ deal[t] = "Open" /\ chain[t] \in {"CollateralLocked", "PaymentLocked"}
       \/ deal[t] = "Unpaid" /\ chain[t] = "PaymentLocked"
    /\ deal' = [deal EXCEPT ![t] = "Funded"]
    /\ UNCHANGED <<apiVars, matchVars, outcome, ahead, settling, chain, elsewhere, bounds>>

\* The buyer may authorise the release as in any deal, and a party dispute it; the verdict
\* releases or cancels.  A party cancels on chain, or asks the middleman to, before the payment
\* is in; the deadline may pass: of that the phase manager is not told.
Elsewhere(t) == t \in scene.others /\ elsewhere' = elsewhere \cup {t}

disputeDeal(t) ==
    /\ deal[t] \in {"Open", "Unpaid", "Funded"}
    /\ deal' = [deal EXCEPT ![t] = "Disputed"]
    /\ Elsewhere(t)
    /\ UNCHANGED <<apiVars, matchVars, outcome, ahead, settling, chain, bounds>>
buyerReleases(t) ==
    /\ deal[t] \in {"Funded", "Disputed"}
    /\ Chain(t, {"PaymentLocked"}, "Completed")
    /\ deal' \in {deal, [deal EXCEPT ![t] = "Completed"]}
    /\ Elsewhere(t)
cancelDeal(t) ==
    /\ Chain(t, {"Created", "CollateralLocked"}, "Cancelled")
    /\ deal' \in {deal, [deal EXCEPT ![t] = "Cancelled"]}
    /\ Elsewhere(t)
refundOnTimeout(t) ==
    /\ Chain(t, {"Created", "CollateralLocked", "PaymentLocked"}, "Refunded")
    /\ Elsewhere(t)
    /\ UNCHANGED deal

-----------------------------------------------------------------------------
\* The API server restarts; the middleman does, and reconciles its deals with the chain.
restartApi ==
    /\ Fault
    /\ cancelling' = FALSE
    /\ accept' = NoAccept
    /\ admin' = NoRequest
    /\ run' = [r \in Runs |-> NoRun]
    /\ call' = Unawaited(Calls)
    /\ UNCHANGED <<mode, offer, row, matchVars, outcome, ahead, escrows>>

Reconciled(t) ==
    IF deal[t] = "None" \/ chain[t] \in {"None", "Created"} THEN deal[t]
    ELSE IF chain[t] = "CollateralLocked" THEN "Unpaid"
    ELSE IF chain[t] = "PaymentLocked" THEN "Funded" ELSE chain[t]

\* The account of a deal that was released may be closed: nothing is read then.
restartMiddleman(closed) ==
    /\ Fault
    /\ \A t \in closed : chain[t] = "Completed"
    /\ deal' = [t \in AllTickets |-> IF t \in closed THEN deal[t] ELSE Reconciled(t)]
    /\ call' = [c \in Calls |-> IF Awaited(c) /\ call[c].at # "done"
                                THEN [call[c] EXCEPT !.at = "failed"]
                                ELSE IF Awaited(c) THEN call[c] ELSE NoCall]
    /\ UNCHANGED <<apiVars, matchVars, outcome, ahead, run, chain, elsewhere>>

Settling(r) ==
    \/ skipMatch(r)
    \/ recordSupplied(r)
    \/ \E c \in Calls : forwardSportSettlement(r, c)
    \/ answerRun(r)
    \/ settleArenaMatch(r)
    \/ writeSettlement(r)

Serving(c) ==
    \/ executeSportSettlement(c)
    \/ executeOnChain(c)
    \/ executeUnseen(c)
    \/ refuseExecution(c)
    \/ syncTerminalPhase(c)

Offering ==
    \/ \E t \in Tickets : acceptOffer(t)
    \/ createMatched \/ refuseMatched \/ loseAnswer \/ rollBack
    \/ readOffer \/ cancelOffer
    \/ attachSportTicketByOffer \/ attachFails \/ attachArenaTicket

Administering ==
    \/ \E t \in AllTickets : adminAttaches(t)
    \/ adminStarts \/ adminSettles \/ adminWrites
    \/ \E r \in Admins, supplied \in SUBSET Actions : runSportSettlement(r, supplied)

Trading(t) ==
    \/ createEscrow(t) \/ lockCollaterals(t) \/ lockPayment(t) \/ recordDeposits(t)
    \/ disputeDeal(t) \/ buyerReleases(t) \/ cancelDeal(t) \/ refundOnTimeout(t)

Next ==
    \/ Offering
    \/ Administering
    \/ \E s \in Sides : upsertOutcome(s)
    \/ \E r \in Timers : sweepSportSettlement(r)
    \/ \E late \in SUBSET Runs : olderSettles(late)
    \/ \E r \in Runs : Settling(r) \/ timeOut(r)
    \/ \E c \in Calls : Serving(c)
    \/ \E t \in AllTickets : Trading(t)
    \/ restartApi
    \/ \E closed \in SUBSET AllTickets : restartMiddleman(closed)

Spec == Init /\ [][Next]_vars

\* The timer starts a run every two minutes, and a run that has read the match comes to it
\* and goes on (its awaits return); the middleman works on what it is asked.  Nothing says
\* that an older match is ever settled.
FairSpec ==
    /\ Spec
    /\ WF_vars(\E r \in Timers : sweepSportSettlement(r))
    /\ \A r \in Runs : WF_vars(Settling(r))
    /\ \A c \in Calls : WF_vars(Serving(c))

-----------------------------------------------------------------------------
CallStates == {"idle", "check", "execute", "record", "done", "failed"}
RunRec == [at : {"idle", "read", "called", "settle", "write"},
           ticket : AllTickets \cup {None}, action : Actions \cup {"None"},
           call : Calls \cup {None}, supplied : SUBSET Actions, seen : Transactions]
CallRec == [at : CallStates, ticket : AllTickets \cup {None}, action : Actions \cup {"None"}]
MatchRec == [status : {"offer_created", "ticket_attached"} \cup Terminal,
             ticket : AllTickets \cup {None}, winner : Sides \cup {"None"},
             tx : [Actions -> Transactions]]

\* Every variable keeps its type, across the two servers and their restarts
\* (ticket.service.ts:139, sportSettlementEngine.ts:147, sportSettlementBridge.ts:38).
TypeOK ==
    /\ mode \in Modes
    /\ offer \in {"active", "matched", "cancelled"}
    /\ cancelling \in BOOLEAN
    /\ row \in [AllTickets -> {"None", "Open", "Deleted"}]
    /\ accept \in [at : {"idle", "forward", "rollback", "attach", "attaching"},
                   ticket : Tickets \cup {None}]
    /\ (accept.at = "idle") <=> (accept.ticket = None)
    /\ admin \in [at : {"idle", "attach", "start", "settle"}, ticket : AllTickets \cup {None},
                  seen : [Actions -> Transactions]]
    /\ admin.at = "attach" => admin.ticket # None
    /\ match \in MatchRec
    /\ written \in [AllTickets -> Nat]
    /\ outcome \in Sides \cup {"None"}
    /\ ahead \in 0..scene.ahead
    /\ run \in [Runs -> RunRec]
    /\ call \in [Calls -> CallRec]
    /\ deal \in [AllTickets -> {"None", "Open", "Unpaid", "Funded", "Disputed", "Completed",
                                "Refunded", "Cancelled"}]
    /\ chain \in [AllTickets -> {"None", "Created", "CollateralLocked", "PaymentLocked",
                                 "Completed", "Refunded", "Cancelled"}]
    /\ elsewhere \subseteq scene.others
    /\ scene \in Scenes
    /\ hands \in 0..scene.hands /\ revisions \in 0..scene.revisions /\ faults \in 0..scene.faults

\* A transaction of a run's own that the match shows has settled an escrow that way, whatever
\* is attached, started or settled by hand in between.  While nothing is done by hand that
\* escrow is the one of the match's ticket, the status says what became of it, and, unless the
\* result was revised, the winner is the one it was settled for (sportSettlementEngine.ts:250).
RowMatchesChain ==
    /\ \A a \in Actions : match.tx[a] \in AllTickets => chain[match.tx[a]] = Becomes(a)
    /\ hands = 0 =>
         /\ match.status # "settled"
         /\ match.status = "released" => /\ match.tx["release_to_maker"] = match.ticket
                                         /\ match.ticket \in Tickets
                                         /\ revisions = 0 => match.winner = "maker"
         /\ match.status = "refunded" => /\ match.tx["refund_to_taker"] = match.ticket
                                         /\ match.ticket \in Tickets
                                         /\ revisions = 0 => match.winner = "taker"

\* A settlement of an escrow is written down once: of the runs that overlap on it, of those
\* that read the match before it was settled or attached to another ticket, and of those that
\* find it open again, one at most gets an answer it may write down
\* (sportSettlementEngine.ts:220, transactionMonitor.ts:273).
SettledOnce == \A t \in AllTickets : written[t] <= 1

\* The maker's win is settled once the match is among those the timer's run takes: while
\* nothing fails, the result stays and nobody acts by hand, an attached and paid escrow is
\* released and recorded, unless buyer, deadline or a dispute was there first.
Due ==
    /\ match.status = "ticket_attached"
    /\ deal[match.ticket] = "Funded"
    /\ chain[match.ticket] = "PaymentLocked"
    /\ outcome = "maker"
    /\ ahead < Limit
Excused == faults > 0 \/ hands > 0 \/ outcome # "maker" \/ match.ticket \in elsewhere
MakerIsPaid == Due ~> (match.status = "released" \/ Excused)

\* release_to_maker gives the payment to the winner that the match names: with a buy
\* offer the maker is the buyer (ticket.service.ts:169), and release_funds pays the seller.
Seller == IF mode = "buy" THEN "taker" ELSE "maker"
WinnerIsPaid == match.status = "released" => match.winner = Seller

=============================================================================
