----------------------------- MODULE SportProofs -----------------------------
(***************************************************************************)
(* Theorems about SportSettlement, for any number of tickets, runs and     *)
(* calls, and whatever the administrator does by hand.  The argument: an   *)
(* escrow is executed once, so of all runs and calls one at most holds the *)
(* success of a ticket, and only while it is not written down; a           *)
(* transaction that a run writes, or carries over from the match, is that  *)
(* of an executed escrow.  While nobody acts by hand all of them, and the  *)
(* match, are about the one open ticket of the offer.                      *)
(***************************************************************************)
EXTENDS SportSettlement, TLAPS

Busy(r) == run[r].at \in {"called", "settle", "write"}

\* A run that waits does so for a call of its own, with its ticket and its action.
LinkInv ==
    /\ \A r \in Runs :
         /\ Busy(r) => run[r].action \in Actions
         /\ run[r].at = "called" => /\ run[r].call \in Calls
                                    /\ call[run[r].call].at # "idle"
                                    /\ call[run[r].call].ticket = run[r].ticket
                                    /\ call[run[r].call].action = run[r].action
                                    /\ ~ByHand(r)
    /\ \A r, s \in Runs :
         run[r].at = "called" /\ run[s].at = "called" /\ run[r].call = run[s].call => r = s
    /\ \A c \in Calls : call[c].at # "idle" => /\ call[c].action \in Actions
                                               /\ call[c].ticket \in AllTickets

\* Who holds a success of the middleman's that is not written down yet.
CallHolds(c) == call[c].at \in {"record", "done"}
RunHolds(r) == run[r].at \in {"settle", "write"} /\ ~ByHand(r)

HeldInv ==
    /\ \A c \in Calls : CallHolds(c) => /\ chain[call[c].ticket] = Becomes(call[c].action)
                                        /\ written[call[c].ticket] = 0
    /\ \A r \in Runs : RunHolds(r) => /\ run[r].ticket \in AllTickets
                                      /\ chain[run[r].ticket] = Becomes(run[r].action)
                                      /\ written[run[r].ticket] = 0
    /\ \A c, d \in Calls :
         CallHolds(c) /\ CallHolds(d) /\ call[c].ticket = call[d].ticket => c = d
    /\ \A r, s \in Runs :
         RunHolds(r) /\ RunHolds(s) /\ run[r].ticket = run[s].ticket => r = s
    /\ \A c \in Calls, r \in Runs :
         ~(CallHolds(c) /\ RunHolds(r) /\ call[c].ticket = run[r].ticket)
    /\ \A t \in AllTickets : /\ written[t] <= 1
                             /\ written[t] # 0 => chain[t] \in {"Completed", "Cancelled"}

\* A transaction in the match, or kept for it by a run or a request, is that of an executed
\* escrow.
TxInv ==
    /\ \A a \in Actions : match.tx[a] \in AllTickets => chain[match.tx[a]] = Becomes(a)
    /\ \A a \in Actions : admin.seen[a] \in AllTickets => chain[admin.seen[a]] = Becomes(a)
    /\ \A r \in Runs : run[r].at = "write" /\ run[r].seen \in AllTickets
                         => chain[run[r].seen] = Becomes(Other(run[r].action))

\* A ticket whose acceptance ended well is open, and stays open.
Lasting(t) ==
    t # None => /\ t \in Tickets
                /\ row[t] = "Open"
                /\ ~(accept.ticket = t /\ accept.at \in {"forward", "rollback"})

OfferInv ==
    /\ \A t, u \in Tickets : row[t] = "Open" /\ row[u] = "Open" => t = u
    /\ accept.at # "idle" => row[accept.ticket] = "Open"

\* What the match says while nobody acts by hand.
RowSays ==
    /\ match.status # "settled"
    /\ match.status = "released" => /\ match.tx["release_to_maker"] = match.ticket
                                    /\ match.ticket \in Tickets
                                    /\ revisions = 0 => match.winner = "maker"
    /\ match.status = "refunded" => /\ match.tx["refund_to_taker"] = match.ticket
                                    /\ match.ticket \in Tickets
                                    /\ revisions = 0 => match.winner = "taker"

PlainInv ==
    hands = 0 =>
      /\ admin = NoRequest
      /\ \A r \in Runs : /\ run[r].supplied = {}
                         /\ run[r].ticket # None => run[r].ticket = match.ticket
                         /\ RunHolds(r) => match.status \notin Terminal
                         /\ Busy(r) /\ revisions = 0 => /\ outcome # "None"
                                                        /\ run[r].action = settlementAction
      /\ \A c \in Calls : /\ call[c].at # "idle" => call[c].ticket = match.ticket
                          /\ CallHolds(c) => match.status \notin Terminal
      /\ Lasting(match.ticket)
      /\ RowSays

IInv == TypeOK /\ LinkInv /\ HeldInv /\ TxInv /\ OfferInv /\ PlainInv

DealType == [AllTickets -> {"None", "Open", "Unpaid", "Funded", "Disputed", "Completed",
                            "Refunded", "Cancelled"}]
ChainType == [AllTickets -> {"None", "Created", "CollateralLocked", "PaymentLocked",
                             "Completed", "Refunded", "Cancelled"}]

-----------------------------------------------------------------------------
\* The types, by the variables that a step may change.
ApiType ==
    /\ mode \in Modes
    /\ offer \in {"active", "matched", "cancelled"}
    /\ cancelling \in BOOLEAN
    /\ row \in [AllTickets -> {"None", "Open", "Deleted"}]
    /\ accept \in [at : {"idle", "forward", "rollback", "attach", "attaching"},
                   ticket : Tickets \cup {None}]
    /\ (accept.at = "idle") <=> (accept.ticket = None)
    /\ admin \in [at : {"idle", "attach", "start", "settle"}, ticket : AllTickets \cup {None},
                  seen : [Actions -> Transactions]]
    /\ admin.at = "attach" => admin.ticket # None
    /\ outcome \in Sides \cup {"None"}
MatchType == match \in MatchRec /\ written \in [AllTickets -> Nat]
RunType == run \in [Runs -> RunRec] /\ call \in [Calls -> CallRec]
EscrowType == deal \in DealType /\ chain \in ChainType /\ elsewhere \subseteq scene.others
BoundType ==
    /\ scene \in Scenes /\ ahead \in 0..scene.ahead
    /\ hands \in 0..scene.hands /\ revisions \in 0..scene.revisions /\ faults \in 0..scene.faults

LEMMA TypeParts == TypeOK <=> ApiType /\ MatchType /\ RunType /\ EscrowType /\ BoundType
BY DEF TypeOK, ApiType, MatchType, RunType, EscrowType, BoundType, DealType, ChainType

\* A step of the offer, the result or an administrator.
LEMMA ApiTypeStep ==
  ASSUME IInv, Next
  PROVE  ApiType'
<1> DEFINE Goal == ApiType'
<1>0. ApiType /\ MatchType
  BY TypeParts DEF IInv
<1>a. match.ticket \in AllTickets \cup {None} /\ match.tx \in [Actions -> Transactions]
  BY <1>0 DEF MatchType, MatchRec
<1>b. [a \in Actions |-> None] \in [Actions -> Transactions]
  BY DEF Transactions
<1> USE SportAssumption, <1>0 DEF ApiType, apiVars, NoAccept, NoRequest, AllTickets
<1>1. ASSUME NEW t \in Tickets, acceptOffer(t) PROVE Goal
  BY <1>1 DEF acceptOffer
<1>2. CASE createMatched \/ refuseMatched \/ loseAnswer
  BY <1>2 DEF createMatched, refuseMatched, loseAnswer, Answered
<1>3. CASE rollBack
  BY <1>3 DEF rollBack
<1>4. CASE readOffer \/ cancelOffer
  BY <1>4 DEF readOffer, cancelOffer
<1>5. CASE attachSportTicketByOffer \/ attachFails \/ attachArenaTicket
  BY <1>5 DEF attachSportTicketByOffer, attachFails, attachArenaTicket
<1>6. ASSUME NEW t \in AllTickets, adminAttaches(t) PROVE Goal
  BY <1>6, <1>b DEF adminAttaches, adminReads
<1>7. CASE adminStarts \/ adminSettles \/ adminWrites
  <2>1. CASE adminStarts
    BY <2>1, <1>b DEF adminStarts, adminReads
  <2>2. CASE adminSettles
    BY <2>2, <1>a, <1>b DEF adminSettles, adminReads
  <2>3. CASE adminWrites
    BY <2>3, <1>b DEF adminWrites
  <2> QED
    BY <1>7, <2>1, <2>2, <2>3
<1>8. ASSUME NEW s \in Sides, upsertOutcome(s) PROVE Goal
  BY <1>8 DEF upsertOutcome
<1>9. CASE restartApi
  BY <1>9, <1>b DEF restartApi
<1>10. ASSUME NEW r \in Runs, Settling(r) \/ timeOut(r) PROVE Goal
  BY <1>10 DEF Settling, skipMatch, recordSupplied, forwardSportSettlement, answerRun,
     settleArenaMatch, writeSettlement, timeOut
<1>11. ASSUME NEW r \in Runs, NEW supplied,
              sweepSportSettlement(r) \/ runSportSettlement(r, supplied) PROVE Goal
  BY <1>11 DEF sweepSportSettlement, runSportSettlement, Begins
<1>12. ASSUME NEW late, olderSettles(late) PROVE Goal
  BY <1>12 DEF olderSettles
<1>13. ASSUME NEW c \in Calls, Serving(c) PROVE Goal
  BY <1>13 DEF Serving, executeSportSettlement, executeOnChain, executeUnseen, Executed,
     refuseExecution, syncTerminalPhase
<1>14. ASSUME NEW t \in AllTickets, Trading(t) PROVE Goal
  BY <1>14 DEF Trading, Chain, createEscrow, lockCollaterals, lockPayment, recordDeposits,
     disputeDeal, buyerReleases, cancelDeal, refundOnTimeout
<1>15. ASSUME NEW closed, restartMiddleman(closed) PROVE Goal
  BY <1>15 DEF restartMiddleman
<1> QED
  BY <1>1, <1>2, <1>3, <1>4, <1>5, <1>6, <1>7, <1>8, <1>9, <1>10, <1>11, <1>12, <1>13,
     <1>14, <1>15 DEF Next, Offering, Administering, Runs

\* A write of the match.
LEMMA MatchTypeStep ==
  ASSUME IInv, Next
  PROVE  MatchType'
<1> DEFINE Goal == MatchType'
<1>0. ApiType /\ MatchType /\ RunType
  BY TypeParts DEF IInv
<1> USE SportAssumption, <1>0 DEF MatchType, matchVars
<1>1. CASE attachArenaTicket
  <2>1. accept.ticket \in AllTickets \cup {None}
    BY DEF ApiType, AllTickets
  <2>2. match' \in MatchRec
    BY <1>1, <2>1 DEF attachArenaTicket, Attached, MatchRec
  <2> QED
    BY <1>1, <2>2 DEF attachArenaTicket
<1>2. CASE adminWrites
  <2>1. match' \in MatchRec
    <3>1. CASE admin.at = "attach"
      <4>1. \E s \in {"ticket_attached"} \cup Terminal : Attached(admin.ticket, s)
        BY <1>2, <3>1 DEF adminWrites
      <4>2. admin.ticket \in AllTickets
        BY <3>1 DEF ApiType
      <4> QED
        BY <4>1, <4>2 DEF Attached, MatchRec
    <3>2. CASE admin.at = "start"
      BY <1>2, <3>2 DEF adminWrites, MatchRec
    <3>3. CASE admin.at = "settle"
      <4>1. PICK s \in Terminal, w \in Sides, as \in SUBSET Actions :
               match' = [match EXCEPT !.status = s, !.winner = w,
                               !.tx = [a \in Actions |-> IF a \in as THEN Supplied
                                                   ELSE admin.seen[a]]]
        BY <1>2, <3>3 DEF adminWrites
      <4>2. [a \in Actions |-> IF a \in as THEN Supplied ELSE admin.seen[a]]
               \in [Actions -> Transactions]
        BY DEF ApiType, Transactions
      <4> QED
        BY <4>1, <4>2 DEF MatchRec
    <3> QED
      BY <1>2, <3>1, <3>2, <3>3 DEF adminWrites
  <2> QED
    BY <1>2, <2>1 DEF adminWrites
<1>3. ASSUME NEW r \in Runs, writeSettlement(r) PROVE Goal
  <2>1. run[r] \in RunRec
    BY DEF RunType
  <2>2. [a \in Actions |-> IF a # run[r].action THEN run[r].seen
                           ELSE IF ByHand(r) THEN Supplied ELSE run[r].ticket]
           \in [Actions -> Transactions]
    BY <2>1 DEF RunRec, Transactions
  <2>3. outcome \in Sides \cup {"None"}
    BY DEF ApiType
  <2>4. match' \in MatchRec
    BY <1>3, <2>2, <2>3 DEF writeSettlement, MatchRec, Terminal
  <2>5. written' \in [AllTickets -> Nat]
    <3>1. CASE ByHand(r)
      BY <1>3, <3>1 DEF writeSettlement
    <3>2. CASE ~ByHand(r)
      <4>1. written' = [written EXCEPT ![run[r].ticket] = @ + 1]
        BY <1>3, <3>2 DEF writeSettlement
      <4>2. run[r].ticket \in AllTickets => written[run[r].ticket] + 1 \in Nat
        OBVIOUS
      <4> QED
        BY <4>1, <4>2
    <3> QED
      BY <3>1, <3>2
  <2> QED
    BY <2>4, <2>5
<1>4. CASE UNCHANGED matchVars
  BY <1>4
<1> QED
  BY <1>1, <1>2, <1>3, <1>4 DEF Next, Offering, Administering, Settling, Serving, Trading,
     acceptOffer, Answered, createMatched, refuseMatched, loseAnswer, rollBack, readOffer,
     cancelOffer, attachSportTicketByOffer, attachFails, adminAttaches, adminStarts,
     adminSettles, adminReads, upsertOutcome, sweepSportSettlement, runSportSettlement, Begins,
     olderSettles, skipMatch, recordSupplied, forwardSportSettlement, answerRun,
     settleArenaMatch, timeOut, executeSportSettlement, executeOnChain, executeUnseen,
     Executed, refuseExecution, syncTerminalPhase, Chain, createEscrow, lockCollaterals,
     lockPayment, recordDeposits, disputeDeal, buyerReleases, cancelDeal, refundOnTimeout,
     restartApi, restartMiddleman

\* A step of the runs and the calls.
LEMMA RunTypeStep ==
  ASSUME IInv, Next
  PROVE  RunType'
<1> DEFINE Goal == RunType'
<1>0. ApiType /\ MatchType /\ RunType
  BY TypeParts DEF IInv
<1>a. NoRun \in RunRec /\ NoCall \in CallRec
  BY DEF NoRun, NoCall, RunRec, CallRec, CallStates, Transactions
<1>b. ASSUME NEW c \in Calls, NEW s \in CallStates
      PROVE  [call[c] EXCEPT !.at = s] \in CallRec
  BY <1>0 DEF RunType, CallRec
<1>c. ASSUME NEW c \in Calls, NEW s \in {"failed", "done"}, Ends(c, s)
      PROVE  call' \in [Calls -> CallRec]
  <2>1. call' = [call EXCEPT ![c] = IF Awaited(c) THEN [call[c] EXCEPT !.at = s] ELSE NoCall]
    BY <1>c DEF Ends
  <2>2. [call[c] EXCEPT !.at = s] \in CallRec
    BY <1>b, <1>c DEF CallStates
  <2> QED
    BY <1>0, <1>a, <2>1, <2>2 DEF RunType
<1>d. ASSUME NEW r \in Runs, Skip(r) PROVE run' \in [Runs -> RunRec]
  BY <1>0, <1>a, <1>d DEF Skip, RunType
<1>e. settlementAction \in Actions
  BY DEF settlementAction, Actions
<1> USE SportAssumption, <1>0, <1>a DEF RunType, settling
<1>1. ASSUME NEW r \in Runs, NEW supplied \in SUBSET Actions, Begins(r, supplied) PROVE Goal
  <2>1. [NoRun EXCEPT !.at = "read", !.ticket = match.ticket, !.supplied = supplied] \in RunRec
    BY DEF MatchType, MatchRec, RunRec
  <2> QED
    BY <1>1, <2>1 DEF Begins
<1>2. ASSUME NEW late, olderSettles(late) PROVE Goal
  <2>1. \A r \in Runs : (IF r \in late /\ run[r].at = "read" THEN NoRun ELSE run[r]) \in RunRec
    OBVIOUS
  <2>2. run' \in [Runs -> RunRec]
    BY <1>2, <2>1 DEF olderSettles
  <2> QED
    BY <1>2, <2>2 DEF olderSettles
<1>3. ASSUME NEW r \in Runs, skipMatch(r) PROVE Goal
  BY <1>3, <1>d DEF skipMatch
<1>4. ASSUME NEW r \in Runs, recordSupplied(r) PROVE Goal
  <2>1. [run[r] EXCEPT !.at = "settle", !.action = settlementAction] \in RunRec
    BY <1>e DEF RunRec
  <2>2. run' = [run EXCEPT ![r] = [run[r] EXCEPT !.at = "settle", !.action = settlementAction]]
    BY <1>4 DEF recordSupplied
  <2> QED
    BY <1>4, <2>1, <2>2 DEF recordSupplied
<1>5. ASSUME NEW r \in Runs, NEW c \in Calls, forwardSportSettlement(r, c) PROVE Goal
  <2>1. [run[r] EXCEPT !.at = "called", !.action = settlementAction, !.call = c] \in RunRec
    BY <1>e DEF RunRec
  <2>2. run' = [run EXCEPT ![r] = [run[r] EXCEPT !.at = "called",
                                     !.action = settlementAction, !.call = c]]
    BY <1>5 DEF forwardSportSettlement
  <2>3. [at |-> "check", ticket |-> run[r].ticket, action |-> settlementAction] \in CallRec
    BY <1>e DEF RunRec, CallRec, CallStates
  <2> QED
    BY <1>5, <2>1, <2>2, <2>3 DEF forwardSportSettlement
<1>6. ASSUME NEW r \in Runs, answerRun(r) PROVE Goal
  <2>1. [run[r] EXCEPT !.at = "settle"] \in RunRec
    BY DEF RunRec
  <2>2. run' \in [Runs -> RunRec]
    BY <1>6, <1>d, <2>1 DEF answerRun
  <2>3. call' \in [Calls -> CallRec]
    BY <1>6 DEF answerRun
  <2> QED
    BY <2>2, <2>3
<1>7. ASSUME NEW r \in Runs, timeOut(r) PROVE Goal
  BY <1>7, <1>d DEF timeOut, Unawaited
<1>8. ASSUME NEW r \in Runs, settleArenaMatch(r) PROVE Goal
  <2>1. run[r].action \in Actions \cup {"None"} /\ Other(run[r].action) \in Actions
    BY DEF RunRec, Other, Actions
  <2>2. match.tx[Other(run[r].action)] \in Transactions
    BY <2>1 DEF MatchType, MatchRec
  <2>3. [run[r] EXCEPT !.at = "write", !.seen = match.tx[Other(run[r].action)]] \in RunRec
    BY <2>2 DEF RunRec
  <2>4. \/ Skip(r)
        \/ run' = [run EXCEPT ![r] = [run[r] EXCEPT !.at = "write",
                                        !.seen = match.tx[Other(run[r].action)]]]
    BY <1>8 DEF settleArenaMatch
  <2>5. run' \in [Runs -> RunRec]
    BY <2>3, <2>4, <1>d
  <2> QED
    BY <1>8, <2>5 DEF settleArenaMatch
<1>9. ASSUME NEW r \in Runs, writeSettlement(r) PROVE Goal
  BY <1>9, <1>d DEF writeSettlement
<1>10. ASSUME NEW c \in Calls, executeSportSettlement(c) PROVE Goal
  <2>1. [call[c] EXCEPT !.at = "execute"] \in CallRec
    BY <1>b DEF CallStates
  <2>2. \/ call' = [call EXCEPT ![c] = [call[c] EXCEPT !.at = "execute"]]
        \/ Ends(c, "failed")
    BY <1>10 DEF executeSportSettlement
  <2>3. call' \in [Calls -> CallRec]
    BY <2>1, <2>2, <1>c
  <2> QED
    BY <1>10, <2>3 DEF executeSportSettlement
<1>11. ASSUME NEW c \in Calls, executeOnChain(c) PROVE Goal
  <2>1. [call[c] EXCEPT !.at = "record"] \in CallRec
    BY <1>b DEF CallStates
  <2>2. call' = [call EXCEPT ![c] = [call[c] EXCEPT !.at = "record"]]
    BY <1>11 DEF executeOnChain
  <2> QED
    BY <1>11, <2>1, <2>2 DEF executeOnChain, Executed
<1>12. ASSUME NEW c \in Calls, executeUnseen(c) \/ refuseExecution(c) \/ syncTerminalPhase(c)
       PROVE Goal
  <2>1. Ends(c, "failed") \/ Ends(c, "done")
    BY <1>12 DEF executeUnseen, refuseExecution, syncTerminalPhase
  <2>2. run' = run
    BY <1>12 DEF executeUnseen, refuseExecution, syncTerminalPhase, Executed
  <2> QED
    BY <2>1, <2>2, <1>c
<1>13. CASE restartApi
  <2>1. run' \in [Runs -> RunRec]
    BY <1>13 DEF restartApi
  <2>2. call' \in [Calls -> CallRec]
    BY <1>13 DEF restartApi, Unawaited
  <2> QED
    BY <2>1, <2>2
<1>14. ASSUME NEW closed, restartMiddleman(closed) PROVE Goal
  <2>1. \A c \in Calls : [call[c] EXCEPT !.at = "failed"] \in CallRec
    BY <1>b DEF CallStates
  <2>2. call' \in [Calls -> CallRec]
    BY <1>14, <2>1 DEF restartMiddleman
  <2> QED
    BY <1>14, <2>2 DEF restartMiddleman
<1>15. CASE UNCHANGED settling
  BY <1>15
<1>16. ASSUME NEW r \in Runs, sweepSportSettlement(r) PROVE Goal
  BY <1>16, <1>1 DEF sweepSportSettlement
<1>17. ASSUME NEW r \in Runs, NEW supplied \in SUBSET Actions, runSportSettlement(r, supplied)
       PROVE Goal
  BY <1>17, <1>1 DEF runSportSettlement
<1>18. CASE Offering \/ (\E s \in Sides : upsertOutcome(s)) \/ \E t \in AllTickets : Trading(t)
  BY <1>15, <1>18 DEF Offering, acceptOffer, Answered, createMatched, refuseMatched,
     loseAnswer, rollBack, readOffer, cancelOffer, attachSportTicketByOffer, attachFails,
     attachArenaTicket, upsertOutcome, Trading, Chain, createEscrow, lockCollaterals,
     lockPayment, recordDeposits, disputeDeal, buyerReleases, cancelDeal, refundOnTimeout
<1>19. CASE (\E t \in AllTickets : adminAttaches(t)) \/ adminStarts \/ adminSettles \/ adminWrites
  BY <1>15, <1>19 DEF adminAttaches, adminStarts, adminSettles, adminReads, adminWrites
<1> QED
  BY <1>2, <1>3, <1>4, <1>5, <1>6, <1>7, <1>8, <1>9, <1>10, <1>11, <1>12, <1>13,
     <1>14, <1>16, <1>17, <1>18, <1>19 DEF Next, Administering, Settling, Serving, Runs

\* A step of the escrows.
LEMMA EscrowTypeStep ==
  ASSUME IInv, Next
  PROVE  EscrowType' /\ BoundType'
<1> DEFINE Goal == EscrowType' /\ BoundType'
<1>0. ApiType /\ RunType /\ EscrowType /\ BoundType
  BY TypeParts DEF IInv
<1> USE SportAssumption, <1>0 DEF EscrowType, BoundType, escrows, bounds
<1>1. ASSUME Fault \/ Hand PROVE BoundType' \/ ahead' # ahead
  BY <1>1 DEF Fault, Hand
<1>a. ASSUME UNCHANGED <<escrows, ahead>>, UNCHANGED bounds \/ Fault \/ Hand PROVE Goal
  <2>1. scene' = scene /\ ahead' = ahead
    BY <1>a DEF Fault, Hand
  <2>2. BoundType'
    BY <1>1, <1>a, <2>1
  <2>3. EscrowType'
    BY <1>a, <2>1
  <2> QED
    BY <2>2, <2>3
<1>2. CASE Offering
  <2>1. CASE createMatched \/ loseAnswer
    <3>1. deal' = [deal EXCEPT ![accept.ticket] = "Open"] /\ UNCHANGED <<chain, elsewhere, ahead>>
      BY <2>1 DEF createMatched, loseAnswer, Answered
    <3>2. UNCHANGED bounds \/ Fault
      BY <2>1 DEF createMatched, loseAnswer
    <3>3. BoundType'
      BY <1>1, <3>1, <3>2
    <3>4. deal' \in DealType
      BY <3>1 DEF DealType
    <3>5. scene' = scene
      BY <3>2 DEF Fault
    <3> QED
      BY <3>1, <3>3, <3>4, <3>5
  <2> QED
    BY <1>2, <1>a, <2>1 DEF Offering, acceptOffer, Answered, refuseMatched, rollBack,
       readOffer, cancelOffer, attachSportTicketByOffer, attachFails, attachArenaTicket
<1>3. CASE Administering
  BY <1>3, <1>a DEF Administering, adminAttaches, adminStarts, adminSettles, adminReads,
     adminWrites, runSportSettlement, Begins
<1>4. CASE \E s \in Sides : upsertOutcome(s)
  BY <1>4 DEF upsertOutcome
<1>5. ASSUME NEW r \in Runs, sweepSportSettlement(r) PROVE Goal
  BY <1>5, <1>a DEF sweepSportSettlement, Begins
<1>6. ASSUME NEW late, olderSettles(late) PROVE Goal
  BY <1>6 DEF olderSettles
<1>7. ASSUME NEW r \in Runs, Settling(r) \/ timeOut(r) PROVE Goal
  BY <1>7, <1>a DEF Settling, skipMatch, recordSupplied, forwardSportSettlement, answerRun,
     settleArenaMatch, writeSettlement, timeOut
<1>8. ASSUME NEW c \in Calls, Serving(c) PROVE Goal
  <2>1. CASE executeSportSettlement(c) \/ refuseExecution(c)
    BY <1>a, <2>1 DEF executeSportSettlement, refuseExecution
  <2>2. CASE executeOnChain(c) \/ executeUnseen(c)
    <3>1. /\ chain' = [chain EXCEPT ![call[c].ticket] = Becomes(call[c].action)]
          /\ UNCHANGED <<deal, elsewhere, ahead>>
      BY <2>2 DEF executeOnChain, executeUnseen, Executed
    <3>2. UNCHANGED bounds \/ Fault
      BY <2>2 DEF executeOnChain, executeUnseen
    <3>3. BoundType' /\ scene' = scene
      BY <1>1, <3>1, <3>2 DEF Fault
    <3> QED
      BY <3>1, <3>3 DEF ChainType, Becomes
  <2>3. CASE syncTerminalPhase(c)
    <3>1. deal' \in DealType
      BY <2>3 DEF syncTerminalPhase, DealType
    <3> QED
      BY <2>3, <3>1 DEF syncTerminalPhase
  <2> QED
    BY <1>8, <2>1, <2>2, <2>3 DEF Serving
<1>9. ASSUME NEW t \in AllTickets, Trading(t) PROVE Goal
  <2>1. UNCHANGED <<ahead, bounds>>
    BY <1>9 DEF Trading, Chain, createEscrow, lockCollaterals, lockPayment, recordDeposits,
       disputeDeal, buyerReleases, cancelDeal, refundOnTimeout
  <2>2. chain' \in ChainType
    BY <1>9 DEF Trading, Chain, createEscrow, lockCollaterals, lockPayment, recordDeposits,
       disputeDeal, buyerReleases, cancelDeal, refundOnTimeout, ChainType
  <2>3. deal' \in DealType
    BY <1>9 DEF Trading, Chain, createEscrow, lockCollaterals, lockPayment, recordDeposits,
       disputeDeal, buyerReleases, cancelDeal, refundOnTimeout, DealType
  <2>4. elsewhere' \subseteq scene.others
    BY <1>9 DEF Trading, Chain, createEscrow, lockCollaterals, lockPayment, recordDeposits,
       disputeDeal, buyerReleases, cancelDeal, refundOnTimeout, Elsewhere
  <2> QED
    BY <2>1, <2>2, <2>3, <2>4
<1>10. CASE restartApi
  BY <1>10, <1>a DEF restartApi
<1>11. ASSUME NEW closed, restartMiddleman(closed) PROVE Goal
  <2>1. deal' \in DealType
    BY <1>11 DEF restartMiddleman, Reconciled, DealType, ChainType
  <2>2. UNCHANGED <<chain, elsewhere, ahead>> /\ Fault
    BY <1>11 DEF restartMiddleman
  <2> QED
    BY <1>1, <2>1, <2>2 DEF Fault
<1> QED
  BY <1>2, <1>3, <1>4, <1>5, <1>6, <1>7, <1>8, <1>9, <1>10, <1>11 DEF Next, Runs

\* A step keeps the types.
LEMMA TypeStep ==
  ASSUME IInv, Next
  PROVE  TypeOK'
BY ApiTypeStep, MatchTypeStep, RunTypeStep, EscrowTypeStep DEF TypeOK, ApiType, MatchType,
   RunType, EscrowType, BoundType, DealType, ChainType

-----------------------------------------------------------------------------
\* Most steps leave runs, calls, the escrows' status and what is written as it is.
Quiet ==
    /\ UNCHANGED <<run, call, chain, written, match>>
    /\ \A a \in Actions : admin'.seen[a] \in {admin.seen[a], match.tx[a], None}

\* A write by hand, or of an attached ticket: the transactions stay, or are named by hand, or
\* are those that were read.
Rewritten ==
    /\ UNCHANGED <<run, call, chain, written>>
    /\ \A a \in Actions : match'.tx[a] \in {match.tx[a], admin.seen[a], Supplied}
    /\ admin' \in {admin, NoRequest}

\* An escrow that is not executed is traded on.
Traded(t) ==
    /\ UNCHANGED <<admin, run, call, written, match>>
    /\ chain[t] \notin {"Completed", "Cancelled"}
    /\ \E s \in {"Created", "CollateralLocked", "PaymentLocked", "Completed", "Refunded",
                 "Cancelled"} : chain' = [chain EXCEPT ![t] = s]

LEMMA Quietly ==
  ASSUME TypeOK,
         \/ Offering /\ ~attachArenaTicket
         \/ (\E t \in AllTickets : adminAttaches(t)) \/ adminStarts \/ adminSettles
         \/ \E s \in Sides : upsertOutcome(s)
         \/ \E t \in AllTickets : recordDeposits(t) \/ disputeDeal(t)
  PROVE  Quiet
<1> USE DEF Quiet, apiVars, matchVars, settling, escrows
<1>1. CASE Offering /\ ~attachArenaTicket
  BY <1>1 DEF Offering, acceptOffer, Answered, createMatched, refuseMatched, loseAnswer,
     rollBack, readOffer, cancelOffer, attachSportTicketByOffer, attachFails
<1>2. CASE (\E t \in AllTickets : adminAttaches(t)) \/ adminStarts \/ adminSettles
  <2>1. \A a \in Actions : admin'.seen[a] \in {match.tx[a], None}
    <3>1. CASE adminStarts \/ \E t \in AllTickets : adminAttaches(t)
      <4>1. admin'.seen = NoRequest.seen
        BY <3>1 DEF adminAttaches, adminStarts, adminReads, NoRequest
      <4>2. \A a \in Actions : NoRequest.seen[a] = None
        BY DEF NoRequest
      <4> QED
        BY <4>1, <4>2
    <3>2. CASE adminSettles
      <4>1. admin'.seen = match.tx
        BY <3>2 DEF adminSettles, adminReads, NoRequest
      <4> QED
        BY <4>1
    <3> QED
      BY <1>2, <3>1, <3>2
  <2> QED
    BY <1>2, <2>1 DEF adminAttaches, adminStarts, adminSettles, adminReads
<1>3. CASE \/ \E s \in Sides : upsertOutcome(s)
           \/ \E t \in AllTickets : recordDeposits(t) \/ disputeDeal(t)
  BY <1>3 DEF upsertOutcome, recordDeposits, disputeDeal
<1> QED
  BY <1>1, <1>2, <1>3

LEMMA ByAttaching ==
  ASSUME TypeOK, attachArenaTicket \/ adminWrites
  PROVE  Rewritten
<1> USE DEF Rewritten, matchVars, settling, escrows
<1>1. match \in MatchRec
  BY DEF TypeOK
<1>2. CASE attachArenaTicket
  BY <1>1, <1>2 DEF attachArenaTicket, Attached, MatchRec
<1>3. CASE adminWrites
  <2>1. CASE admin.at \in {"attach", "start"}
    BY <1>1, <1>3, <2>1 DEF adminWrites, Attached, MatchRec
  <2>2. CASE admin.at = "settle"
    <3>1. PICK s \in Terminal, w \in Sides, as \in SUBSET Actions :
             match' = [match EXCEPT !.status = s, !.winner = w,
                             !.tx = [a \in Actions |-> IF a \in as THEN Supplied
                                                   ELSE admin.seen[a]]]
      BY <1>3, <2>2 DEF adminWrites
    <3>2. match'.tx = [a \in Actions |-> IF a \in as THEN Supplied ELSE admin.seen[a]]
      BY <1>1, <3>1 DEF MatchRec
    <3> QED
      BY <1>3, <3>2 DEF adminWrites
  <2> QED
    BY <1>3, <2>1, <2>2 DEF adminWrites
<1> QED
  BY <1>2, <1>3

LEMMA ByTrading ==
  ASSUME NEW t \in AllTickets,
         \/ createEscrow(t) \/ lockCollaterals(t) \/ lockPayment(t)
         \/ buyerReleases(t) \/ cancelDeal(t) \/ refundOnTimeout(t)
  PROVE  Traded(t)
BY DEF apiVars, Traded, Chain, createEscrow, lockCollaterals, lockPayment, buyerReleases, cancelDeal,
   refundOnTimeout, matchVars, settling

\* The kinds of step, for what follows.
LEMMA Kinds ==
  ASSUME TypeOK, Next
  PROVE  \/ Quiet
         \/ Rewritten
         \/ \E t \in AllTickets : Traded(t)
         \/ \E r \in Runs, supplied \in SUBSET Actions : Begins(r, supplied)
         \/ \E late \in SUBSET Runs : olderSettles(late)
         \/ \E r \in Runs : Settling(r) \/ timeOut(r)
         \/ \E c \in Calls : Serving(c)
         \/ restartApi
         \/ \E closed \in SUBSET AllTickets : restartMiddleman(closed)
<1>1. CASE Offering \/ Administering
  BY <1>1, Quietly, ByAttaching DEF Offering, Administering, runSportSettlement, Runs
<1>2. CASE \E t \in AllTickets : Trading(t)
  <2>1. PICK t \in AllTickets : Trading(t)
    BY <1>2
  <2>2. CASE recordDeposits(t) \/ disputeDeal(t)
    BY <2>2, Quietly
  <2> QED
    BY <2>1, <2>2, ByTrading DEF Trading
<1>3. CASE \E s \in Sides : upsertOutcome(s)
  BY <1>3, Quietly
<1>4. CASE \E r \in Timers : sweepSportSettlement(r)
  BY <1>4 DEF sweepSportSettlement, Runs
<1> QED
  BY <1>1, <1>2, <1>3, <1>4 DEF Next

\* A settled escrow stays as it is.
LEMMA ChainStays ==
  ASSUME TypeOK, Next, NEW t \in AllTickets, chain[t] \in {"Completed", "Cancelled"}
  PROVE  chain'[t] = chain[t]
<1>1. ASSUME NEW u \in AllTickets, Traded(u) PROVE chain'[t] = chain[t]
  BY <1>1 DEF Traded, TypeOK
<1>2. ASSUME NEW c \in Calls, Serving(c) PROVE chain'[t] = chain[t]
  <2>1. CASE executeOnChain(c) \/ executeUnseen(c)
    BY <2>1 DEF executeOnChain, executeUnseen, Executed, Allows, TypeOK
  <2> QED
    BY <1>2, <2>1 DEF Serving, executeSportSettlement, refuseExecution, syncTerminalPhase,
       escrows
<1> QED
  BY <1>1, <1>2, Kinds DEF Quiet, Rewritten, Begins, olderSettles, Settling, timeOut, skipMatch,
     recordSupplied, forwardSportSettlement, answerRun, settleArenaMatch, writeSettlement,
     restartApi, restartMiddleman, escrows

-----------------------------------------------------------------------------
\* A call that ends keeps its ticket and action, and is there while it is awaited.
LEMMA CallsLast ==
  ASSUME TypeOK, LinkInv, NEW c \in Calls, NEW s \in {"failed", "done"}, Ends(c, s)
  PROVE  /\ \A d \in Calls : call'[d].at # "idle" => /\ call[d].at # "idle" \/ d = c
                                                     /\ call'[d].ticket = call[d].ticket
                                                     /\ call'[d].action = call[d].action
         /\ \A r \in Runs : run[r].at = "called" => call'[run[r].call].at # "idle"
         /\ \A d \in Calls : d # c => call'[d] = call[d]
         /\ call'[c].at \in {s, "idle"}
<1>1. call \in [Calls -> CallRec]
  BY DEF TypeOK
<1>2. call' = [call EXCEPT ![c] = IF Awaited(c) THEN [call[c] EXCEPT !.at = s] ELSE NoCall]
  BY DEF Ends
<1>3. \A r \in Runs : run[r].at = "called" => run[r].call \in Calls /\ call[run[r].call].at # "idle"
  BY DEF LinkInv
<1>4. ASSUME NEW r \in Runs, run[r].at = "called" PROVE call'[run[r].call].at # "idle"
  <2>1. CASE run[r].call = c
    <3>1. Awaited(c)
      BY <1>4, <2>1 DEF Awaited
    <3> QED
      BY <1>1, <1>2, <2>1, <3>1 DEF CallRec
  <2>2. CASE run[r].call # c
    BY <1>1, <1>2, <1>3, <1>4, <2>2
  <2> QED
    BY <2>1, <2>2
<1> QED
  BY <1>1, <1>2, <1>4 DEF NoCall, CallRec

\* A step keeps runs and calls together.
LEMMA LinkStep ==
  ASSUME IInv, Next
  PROVE  LinkInv'
<1> DEFINE Goal == LinkInv'
<1>0. TypeOK /\ LinkInv
  BY DEF IInv
<1>a. run \in [Runs -> RunRec] /\ call \in [Calls -> CallRec]
  BY <1>0 DEF TypeOK
<1>b. settlementAction \in Actions
  BY DEF settlementAction, Actions
<1> USE SportAssumption, <1>0, <1>a DEF LinkInv, Busy, ByHand
\* Runs that stay, and calls that keep what they are.
<1>c. ASSUME run' = run,
             \A d \in Calls : call'[d].at # "idle" => /\ call[d].at # "idle"
                                                      /\ call'[d].ticket = call[d].ticket
                                                      /\ call'[d].action = call[d].action,
             \A r \in Runs : run[r].at = "called" => call'[run[r].call].at # "idle"
      PROVE  Goal
  BY <1>c
\* A run that starts again lets go of its call, if it has one.
<1>d. ASSUME NEW r \in Runs, Skip(r),
             \A d \in Calls : call'[d] = call[d] \/ (call'[d] = NoCall /\
                                                     (run[r].at = "called" => run[r].call = d)
                                                     /\ run[r].at = "called")
      PROVE  Goal
  BY <1>d DEF Skip, NoRun, NoCall
<1>e. ASSUME UNCHANGED <<run, call>> PROVE Goal
  BY <1>e, <1>c
<1>1. CASE Quiet \/ Rewritten \/ \E t \in AllTickets : Traded(t)
  BY <1>1, <1>e DEF Quiet, Rewritten, Traded
<1>2. ASSUME NEW r \in Runs, NEW supplied \in SUBSET Actions, Begins(r, supplied) PROVE Goal
  BY <1>2 DEF Begins, NoRun
<1>3. ASSUME NEW late, olderSettles(late) PROVE Goal
  BY <1>3 DEF olderSettles, NoRun
<1>4. ASSUME NEW r \in Runs, skipMatch(r) PROVE Goal
  BY <1>4, <1>d DEF skipMatch
<1>5. ASSUME NEW r \in Runs, recordSupplied(r) PROVE Goal
  <2>1. /\ run' = [run EXCEPT ![r] = [run[r] EXCEPT !.at = "settle", !.action = settlementAction]]
        /\ call' = call
    BY <1>5 DEF recordSupplied
  <2> QED
    BY <2>1, <1>b DEF RunRec
<1>6. ASSUME NEW r \in Runs, NEW c \in Calls, forwardSportSettlement(r, c) PROVE Goal
  <2>1. run' = [run EXCEPT ![r] = [run[r] EXCEPT !.at = "called",
                                     !.action = settlementAction, !.call = c]]
    BY <1>6 DEF forwardSportSettlement
  <2>2. call' = [call EXCEPT ![c] = [at |-> "check", ticket |-> run[r].ticket,
                                    action |-> settlementAction]]
    BY <1>6 DEF forwardSportSettlement
  <2>3. /\ call[c].at = "idle" /\ settlementAction \notin run[r].supplied
        /\ run[r].ticket \in AllTickets
    BY <1>6 DEF forwardSportSettlement, RunRec
  <2>4. run'[r].at = "called" /\ run'[r].call = c /\ run'[r].action = settlementAction
           /\ run'[r].ticket = run[r].ticket /\ run'[r].supplied = run[r].supplied
    BY <2>1 DEF RunRec
  <2>5. \A s \in Runs : s # r => run'[s] = run[s] /\ (run[s].at = "called" => run[s].call # c)
    BY <2>1, <2>3
  <2>6. call'[c] = [at |-> "check", ticket |-> run[r].ticket, action |-> settlementAction]
          /\ \A d \in Calls : d # c => call'[d] = call[d]
    BY <2>2
  <2> QED
    BY <1>b, <2>3, <2>4, <2>5, <2>6
<1>7. ASSUME NEW r \in Runs, answerRun(r) PROVE Goal
  <2>1. CASE Skip(r)
    BY <1>7, <2>1, <1>d DEF answerRun
  <2>2. CASE run' = [run EXCEPT ![r] = [run[r] EXCEPT !.at = "settle"]]
    <3>1. \A s \in Runs : s # r => run'[s] = run[s] /\ (run[s].at = "called" => run[s].call # run[r].call)
      BY <1>7, <2>2 DEF answerRun
    <3>2. run'[r].at = "settle" /\ run'[r].action = run[r].action /\ run[r].action \in Actions
      BY <1>7, <2>2 DEF answerRun, RunRec
    <3>3. call' = [call EXCEPT ![run[r].call] = NoCall] /\ NoCall.at = "idle"
      BY <1>7 DEF answerRun, NoCall
    <3> QED
      BY <3>1, <3>2, <3>3
  <2> QED
    BY <1>7, <2>1, <2>2 DEF answerRun
<1>8. ASSUME NEW r \in Runs, timeOut(r) PROVE Goal
  BY <1>8, <1>d DEF timeOut, Unawaited
<1>9. ASSUME NEW r \in Runs, settleArenaMatch(r) PROVE Goal
  <2>1. CASE Skip(r)
    BY <1>9, <2>1, <1>d DEF settleArenaMatch
  <2>2. CASE run' = [run EXCEPT ![r] = [run[r] EXCEPT !.at = "write",
                                          !.seen = match.tx[Other(run[r].action)]]]
    <3>1. run[r].at = "settle" /\ call' = call
      BY <1>9 DEF settleArenaMatch
    <3>2. run'[r].at = "write" /\ run'[r].action = run[r].action
      BY <2>2 DEF RunRec
    <3> QED
      BY <2>2, <3>1, <3>2
  <2> QED
    BY <1>9, <2>1, <2>2 DEF settleArenaMatch
<1>10. ASSUME NEW r \in Runs, writeSettlement(r) PROVE Goal
  BY <1>10, <1>d DEF writeSettlement
<1>11. ASSUME NEW c \in Calls, Serving(c) PROVE Goal
  <2>1. call[c].at # "idle" /\ run' = run
    BY <1>11 DEF Serving, executeSportSettlement, executeOnChain, executeUnseen, Executed,
       refuseExecution, syncTerminalPhase
  <2>2. \/ \E s \in {"failed", "done"} : Ends(c, s)
        \/ \E s \in {"execute", "record"} : call' = [call EXCEPT ![c] = [call[c] EXCEPT !.at = s]]
    BY <1>11 DEF Serving, executeSportSettlement, executeOnChain, executeUnseen,
       refuseExecution, syncTerminalPhase
  <2>3. ASSUME NEW s \in {"failed", "done"}, Ends(c, s) PROVE Goal
    BY <1>c, <2>1, <2>3, CallsLast
  <2>4. ASSUME NEW s \in {"execute", "record"}, call' = [call EXCEPT ![c] = [call[c] EXCEPT !.at = s]]
        PROVE  Goal
    BY <1>c, <2>1, <2>4 DEF CallRec
  <2> QED
    BY <2>2, <2>3, <2>4
<1>12. CASE restartApi
  BY <1>12 DEF restartApi, Unawaited, NoRun, NoCall
<1>13. ASSUME NEW closed, restartMiddleman(closed) PROVE Goal
  <2>1. \A d \in Calls : call'[d].at # "idle" => /\ call[d].at # "idle" \/ Awaited(d)
                                                 /\ call'[d].ticket = call[d].ticket
                                                 /\ call'[d].action = call[d].action
    BY <1>13 DEF restartMiddleman, NoCall, CallRec
  <2>2. \A d \in Calls : Awaited(d) => call[d].at # "idle"
    BY DEF Awaited
  <2>3. \A d \in Calls : Awaited(d) => call'[d].at # "idle"
    BY <1>13, <2>2 DEF restartMiddleman, CallRec
  <2>4. \A r \in Runs : run[r].at = "called" => call'[run[r].call].at # "idle"
    BY <2>3 DEF Awaited
  <2> QED
    BY <1>13, <1>c, <2>1, <2>2, <2>4 DEF restartMiddleman
<1> QED
  BY <1>1, <1>2, <1>3, <1>4, <1>5, <1>6, <1>7, <1>8, <1>9, <1>10, <1>11, <1>12, <1>13, Kinds
     DEF Settling

\* A step keeps the success of a ticket the only one: another needs an escrow that can still
\* be executed.
LEMMA HeldStep ==
  ASSUME IInv, TypeOK', Next
  PROVE  HeldInv'
<1> DEFINE Goal == HeldInv'
<1>0. TypeOK /\ LinkInv /\ HeldInv
  BY DEF IInv
<1>a. /\ run \in [Runs -> RunRec] /\ call \in [Calls -> CallRec]
      /\ chain \in ChainType /\ written \in [AllTickets -> Nat]
  BY <1>0 DEF TypeOK, ChainType
<1>b. \A t \in AllTickets : chain[t] \in {"Completed", "Cancelled"} => chain'[t] = chain[t]
  BY <1>0, ChainStays
<1>c. \A a : Becomes(a) \in {"Completed", "Cancelled"}
  BY DEF Becomes
<1>d. \A c \in Calls : CallHolds(c) => call[c].ticket \in AllTickets
  BY <1>0 DEF LinkInv, CallHolds
<1> USE SportAssumption, <1>a DEF HeldInv, CallHolds, RunHolds, ByHand
\* Nobody holds a new success, and nothing is written down.
<1>e. ASSUME written' = written,
             \A c \in Calls : CallHolds(c)' => /\ CallHolds(c)
                                               /\ call'[c].ticket = call[c].ticket
                                               /\ call'[c].action = call[c].action,
             \A r \in Runs : RunHolds(r)' => /\ RunHolds(r)
                                             /\ run'[r].ticket = run[r].ticket
                                             /\ run'[r].action = run[r].action
      PROVE  Goal
  BY <1>0, <1>b, <1>c, <1>d, <1>e
<1>1. CASE Quiet \/ Rewritten \/ \E t \in AllTickets : Traded(t)
  BY <1>1, <1>e DEF Quiet, Rewritten, Traded
<1>2. ASSUME NEW r \in Runs, NEW supplied \in SUBSET Actions, Begins(r, supplied) PROVE Goal
  BY <1>2, <1>e DEF Begins, NoRun, matchVars
<1>3. ASSUME NEW late, olderSettles(late) PROVE Goal
  BY <1>3, <1>e DEF olderSettles, NoRun, matchVars
<1>4. ASSUME NEW r \in Runs, skipMatch(r) PROVE Goal
  BY <1>4, <1>e DEF skipMatch, Skip, NoRun, matchVars
<1>5. ASSUME NEW r \in Runs, recordSupplied(r) PROVE Goal
  <2>1. /\ run' = [run EXCEPT ![r] = [run[r] EXCEPT !.at = "settle", !.action = settlementAction]]
        /\ settlementAction \in run[r].supplied
        /\ UNCHANGED <<call, written>>
    BY <1>5 DEF recordSupplied, matchVars
  <2>2. ~RunHolds(r)'
    BY <2>1 DEF RunRec
  <2> QED
    BY <1>e, <2>1, <2>2
<1>6. ASSUME NEW r \in Runs, NEW c \in Calls, forwardSportSettlement(r, c) PROVE Goal
  <2>1. run' = [run EXCEPT ![r] = [run[r] EXCEPT !.at = "called",
                                     !.action = settlementAction, !.call = c]]
    BY <1>6 DEF forwardSportSettlement
  <2>2. /\ call' = [call EXCEPT ![c] = [at |-> "check", ticket |-> run[r].ticket,
                                    action |-> settlementAction]]
        /\ written' = written
    BY <1>6 DEF forwardSportSettlement, matchVars
  <2>3. ~RunHolds(r)' /\ ~CallHolds(c)'
    BY <2>1, <2>2 DEF RunRec
  <2> QED
    BY <1>e, <2>1, <2>2, <2>3
<1>7. ASSUME NEW r \in Runs, answerRun(r) PROVE Goal
  <2> DEFINE c == run[r].call
  <2>1. /\ c \in Calls
        /\ call[c].ticket = run[r].ticket
        /\ call[c].action = run[r].action
        /\ ~ByHand(r) /\ ~RunHolds(r)
    BY <1>7, <1>0 DEF answerRun, LinkInv
  <2>2. \A d \in Calls : CallHolds(d)' => CallHolds(d) /\ d # c /\ call'[d] = call[d]
    BY <1>7, <2>1 DEF answerRun, NoCall
  <2>3. \A s \in Runs : RunHolds(s)' => /\ RunHolds(s) \/ (s = r /\ CallHolds(c))
                                        /\ run'[s].ticket = run[s].ticket
                                        /\ run'[s].action = run[s].action
    BY <1>7, <2>1 DEF answerRun, Skip, NoRun, RunRec
  <2>4. UNCHANGED <<written, chain>>
    BY <1>7 DEF answerRun, matchVars, escrows
  <2> HIDE DEF c
  <2> QED
    BY <1>0, <1>d, <2>1, <2>2, <2>3, <2>4
<1>8. ASSUME NEW r \in Runs, timeOut(r) PROVE Goal
  BY <1>8, <1>e DEF timeOut, Skip, Unawaited, NoRun, NoCall, matchVars
<1>9. ASSUME NEW r \in Runs, settleArenaMatch(r) PROVE Goal
  <2>1. run[r].at = "settle" /\ UNCHANGED <<call, written>>
    BY <1>9 DEF settleArenaMatch, matchVars
  <2>2. \/ Skip(r)
        \/ run' = [run EXCEPT ![r] = [run[r] EXCEPT !.at = "write",
                                        !.seen = match.tx[Other(run[r].action)]]]
    BY <1>9 DEF settleArenaMatch
  <2>3. \A s \in Runs : RunHolds(s)' => /\ RunHolds(s)
                                        /\ run'[s].ticket = run[s].ticket
                                        /\ run'[s].action = run[s].action
    <3>1. CASE Skip(r)
      BY <3>1 DEF Skip, NoRun
    <3>2. CASE run' = [run EXCEPT ![r] = [run[r] EXCEPT !.at = "write",
                                            !.seen = match.tx[Other(run[r].action)]]]
      <4>1. /\ run'[r].supplied = run[r].supplied /\ run'[r].action = run[r].action
            /\ run'[r].ticket = run[r].ticket
        BY <3>2 DEF RunRec
      <4> QED
        BY <2>1, <3>2, <4>1
    <3> QED
      BY <2>2, <3>1, <3>2
  <2> QED
    BY <1>e, <2>1, <2>3
<1>10. ASSUME NEW r \in Runs, writeSettlement(r) PROVE Goal
  <2>1. run' = [run EXCEPT ![r] = NoRun] /\ UNCHANGED <<call, chain>>
    BY <1>10 DEF writeSettlement, Skip, escrows
  <2>2. \A s \in Runs : RunHolds(s)' => RunHolds(s) /\ s # r /\ run'[s] = run[s]
    BY <2>1 DEF NoRun
  <2>3. CASE ByHand(r)
    BY <1>10, <1>e, <2>1, <2>2, <2>3 DEF writeSettlement
  <2>4. CASE ~ByHand(r)
    <3>1. written' = [written EXCEPT ![run[r].ticket] = @ + 1]
      BY <1>10, <2>4 DEF writeSettlement
    <3>2. RunHolds(r)
      BY <1>10, <2>4 DEF writeSettlement
    <3>3. /\ run[r].ticket \in AllTickets /\ written[run[r].ticket] = 0
          /\ chain[run[r].ticket] \in {"Completed", "Cancelled"}
      BY <1>0, <1>c, <3>2
    <3>4. /\ written'[run[r].ticket] = 1
          /\ \A t \in AllTickets : t # run[r].ticket => written'[t] = written[t]
      BY <3>1, <3>3
    <3>5. \A s \in Runs : RunHolds(s)' => run[s].ticket # run[r].ticket
      BY <1>0, <2>2, <3>2
    <3>6. \A d \in Calls : CallHolds(d)' => call[d].ticket # run[r].ticket /\ CallHolds(d)
      BY <1>0, <2>1, <3>2
    <3> QED
      BY <1>0, <1>d, <2>1, <2>2, <3>3, <3>4, <3>5, <3>6
  <2> QED
    BY <2>3, <2>4
<1>11. ASSUME NEW c \in Calls, Serving(c) PROVE Goal
  <2>1. run' = run /\ written' = written
    BY <1>11 DEF Serving, executeSportSettlement, executeOnChain, executeUnseen, Executed,
       refuseExecution, syncTerminalPhase, matchVars
  <2>2. CASE executeOnChain(c)
    <3>1. /\ call' = [call EXCEPT ![c] = [call[c] EXCEPT !.at = "record"]]
          /\ chain' = [chain EXCEPT ![call[c].ticket] = Becomes(call[c].action)]
          /\ chain[call[c].ticket] \notin {"Completed", "Cancelled"}
          /\ call[c].at = "execute"
      BY <2>2 DEF executeOnChain, Executed, Allows
    <3>2. call[c].ticket \in AllTickets
      BY <1>0, <3>1 DEF LinkInv
    <3>3. call'[c].ticket = call[c].ticket /\ call'[c].action = call[c].action
             /\ \A d \in Calls : d # c => call'[d] = call[d]
      BY <3>1 DEF CallRec
    <3>4. written[call[c].ticket] = 0
      BY <1>0, <3>1, <3>2
    <3>5. \A d \in Calls : CallHolds(d)' => d = c \/ (CallHolds(d) /\ call[d].ticket # call[c].ticket)
      BY <1>0, <1>c, <3>1, <3>3
    <3>6. \A r \in Runs : RunHolds(r)' => RunHolds(r) /\ run[r].ticket # call[c].ticket
      BY <1>0, <1>c, <2>1, <3>1
    <3>7. ASSUME NEW d \in Calls, CallHolds(d)'
          PROVE  /\ call'[d].ticket = call[d].ticket /\ call'[d].action = call[d].action
                 /\ chain'[call[d].ticket] = Becomes(call[d].action)
                 /\ written[call[d].ticket] = 0
      <4>1. CASE d = c
        BY <3>1, <3>2, <3>3, <3>4, <4>1 DEF ChainType
      <4>2. CASE d # c
        BY <1>0, <1>d, <3>1, <3>3, <3>5, <3>7, <4>2
      <4> QED
        BY <4>1, <4>2
    <3>8. ASSUME NEW r \in Runs, RunHolds(r)'
          PROVE  /\ RunHolds(r) /\ run[r].ticket \in AllTickets
                 /\ chain'[run[r].ticket] = Becomes(run[r].action)
                 /\ written[run[r].ticket] = 0
      BY <1>0, <3>1, <3>6, <3>8
    <3>9. ASSUME NEW t \in AllTickets
          PROVE  written[t] <= 1 /\ (written[t] # 0 => chain'[t] \in {"Completed", "Cancelled"})
      BY <1>0, <1>b, <3>9
    <3>10. \A d, e \in Calls :
             CallHolds(d)' /\ CallHolds(e)' /\ call[d].ticket = call[e].ticket => d = e
      BY <1>0, <3>5
    <3>11. \A d \in Calls, r \in Runs :
             ~(CallHolds(d)' /\ RunHolds(r)' /\ call[d].ticket = run[r].ticket)
      BY <1>0, <3>5, <3>6
    <3> HIDE DEF CallHolds, RunHolds
    <3>12. \A r, s \in Runs :
             RunHolds(r)' /\ RunHolds(s)' /\ run[r].ticket = run[s].ticket => r = s
      BY <1>0, <3>8
    <3> QED
      BY <2>1, <3>7, <3>8, <3>9, <3>10, <3>11, <3>12 DEF Becomes
  <2>3. CASE executeSportSettlement(c) \/ executeUnseen(c) \/ refuseExecution(c)
    <3>1. \/ Ends(c, "failed")
          \/ call' = [call EXCEPT ![c] = [call[c] EXCEPT !.at = "execute"]]
      BY <2>3 DEF executeSportSettlement, executeUnseen, refuseExecution
    <3>2. CASE Ends(c, "failed")
      BY <1>0, <1>e, <2>1, <3>2, CallsLast
    <3>3. CASE call' = [call EXCEPT ![c] = [call[c] EXCEPT !.at = "execute"]]
      BY <1>e, <2>1, <3>3 DEF CallRec
    <3> QED
      BY <3>1, <3>2, <3>3
  <2>4. CASE syncTerminalPhase(c)
    BY <1>0, <1>e, <2>1, <2>4, CallsLast DEF syncTerminalPhase
  <2> QED
    BY <1>11, <2>2, <2>3, <2>4 DEF Serving
<1>12. CASE restartApi
  BY <1>12, <1>e DEF restartApi, Unawaited, NoRun, NoCall, matchVars
<1>13. ASSUME NEW closed, restartMiddleman(closed) PROVE Goal
  BY <1>13, <1>e DEF restartMiddleman, NoCall, matchVars, CallRec
<1> QED
  BY <1>0, <1>1, <1>2, <1>3, <1>4, <1>5, <1>6, <1>7, <1>8, <1>9, <1>10, <1>11, <1>12, <1>13,
     Kinds DEF Settling

\* A step keeps the transactions those of executed escrows.
LEMMA TxStep ==
  ASSUME IInv, TypeOK', Next
  PROVE  TxInv'
<1> DEFINE Goal == TxInv'
<1>0. TypeOK /\ LinkInv /\ HeldInv /\ TxInv
  BY DEF IInv
<1>a. /\ run \in [Runs -> RunRec] /\ match \in MatchRec
      /\ run' \in [Runs -> RunRec] /\ match' \in MatchRec
  BY <1>0 DEF TypeOK
<1>b. \A t \in AllTickets : \A a : chain[t] = Becomes(a) => chain'[t] = Becomes(a)
  BY <1>0, ChainStays DEF Becomes
<1>c. Supplied \notin AllTickets /\ None \notin AllTickets
  BY SportAssumption
<1> USE <1>a, <1>c DEF TxInv
\* No new transaction, and no run that newly writes.
<1>d. ASSUME \A a \in Actions : match'.tx[a] \in {match.tx[a], admin.seen[a], Supplied},
             \A a \in Actions : admin'.seen[a] \in {admin.seen[a], match.tx[a], None},
             \A r \in Runs : run'[r].at = "write" => run'[r] = run[r]
      PROVE  Goal
  BY <1>0, <1>b, <1>d
<1>1. CASE Quiet \/ Rewritten \/ \E t \in AllTickets : Traded(t)
  <2>1. CASE Quiet
    BY <1>d, <2>1 DEF Quiet
  <2>2. CASE Rewritten
    BY <1>d, <2>2 DEF Rewritten, NoRequest
  <2>3. CASE \E t \in AllTickets : Traded(t)
    BY <1>d, <2>3 DEF Traded
  <2> QED
    BY <1>1, <2>1, <2>2, <2>3
<1>2. ASSUME NEW r \in Runs, NEW supplied \in SUBSET Actions, Begins(r, supplied) PROVE Goal
  BY <1>2, <1>d DEF Begins, NoRun, matchVars, apiVars
<1>3. ASSUME NEW late, olderSettles(late) PROVE Goal
  BY <1>3, <1>d DEF olderSettles, NoRun, matchVars, apiVars
<1>4. ASSUME NEW r \in Runs, skipMatch(r) \/ answerRun(r) \/ timeOut(r) PROVE Goal
  <2>1. UNCHANGED <<match, admin>> /\ run[r].at # "write"
    BY <1>4 DEF skipMatch, answerRun, timeOut, matchVars, apiVars
  <2>2. Skip(r) \/ run' = [run EXCEPT ![r].at = "settle"]
    BY <1>4 DEF skipMatch, answerRun, timeOut
  <2>3. \A s \in Runs : run'[s].at = "write" => run'[s] = run[s]
    <3>1. CASE Skip(r)
      BY <3>1 DEF Skip, NoRun
    <3>2. CASE run' = [run EXCEPT ![r] = [run[r] EXCEPT !.at = "settle"]]
      <4>1. run'[r].at = "settle"
        BY <3>2 DEF RunRec
      <4> QED
        BY <3>2, <4>1
    <3> QED
      BY <2>2, <3>1, <3>2
  <2> QED
    BY <1>d, <2>1, <2>3
<1>5. ASSUME NEW r \in Runs, recordSupplied(r) PROVE Goal
  BY <1>5, <1>d DEF recordSupplied, matchVars, apiVars
<1>6. ASSUME NEW r \in Runs, NEW c \in Calls, forwardSportSettlement(r, c) PROVE Goal
  BY <1>6, <1>d DEF forwardSportSettlement, matchVars, apiVars
<1>7. ASSUME NEW r \in Runs, settleArenaMatch(r) PROVE Goal
  <2>1. UNCHANGED <<match, admin>>
    BY <1>7 DEF settleArenaMatch, matchVars, apiVars
  <2>2. CASE Skip(r)
    BY <1>d, <2>1, <2>2 DEF Skip, NoRun
  <2>3. CASE run' = [run EXCEPT ![r] = [run[r] EXCEPT !.at = "write",
                                          !.seen = match.tx[Other(run[r].action)]]]
    <3>1. /\ run'[r].action = run[r].action
          /\ run'[r].seen = match.tx[Other(run[r].action)]
          /\ \A s \in Runs : s # r => run'[s] = run[s]
      BY <2>3 DEF RunRec
    <3>2. Other(run[r].action) \in Actions
      BY DEF Other, Actions
    <3> QED
      BY <1>0, <1>b, <2>1, <3>1, <3>2
  <2> QED
    BY <1>7, <2>2, <2>3 DEF settleArenaMatch
<1>8. ASSUME NEW r \in Runs, writeSettlement(r) PROVE Goal
  <2>1. \A a \in Actions : match'.tx[a] = IF a # run[r].action THEN run[r].seen
                                          ELSE IF ByHand(r) THEN Supplied ELSE run[r].ticket
    BY <1>8 DEF writeSettlement, MatchRec
  <2>2. run[r].at = "write" /\ run' = [run EXCEPT ![r] = NoRun] 
          /\ UNCHANGED <<chain, admin>>
    BY <1>8 DEF writeSettlement, Skip, escrows, apiVars
  <2>3. ~ByHand(r) => chain[run[r].ticket] = Becomes(run[r].action)
    BY <1>0, <2>2 DEF HeldInv, RunHolds
  <2>4. run[r].action \in Actions
    BY <1>0, <2>2 DEF LinkInv, Busy
  <2>5. \A a \in Actions : a # run[r].action => a = Other(run[r].action)
    BY <2>4 DEF Actions, Other
  <2>6. \A a \in Actions : match'.tx[a] \in AllTickets => chain'[match'.tx[a]] = Becomes(a)
    BY <1>0, <2>1, <2>2, <2>3, <2>5
  <2>7. \A s \in Runs : run'[s].at = "write" => run'[s] = run[s]
    BY <2>2 DEF NoRun
  <2> QED
    BY <1>0, <2>2, <2>6, <2>7
<1>9. ASSUME NEW c \in Calls, Serving(c) PROVE Goal
  BY <1>9, <1>d DEF Serving, executeSportSettlement, executeOnChain, executeUnseen, Executed,
     refuseExecution, syncTerminalPhase, matchVars, apiVars
<1>10. CASE restartApi \/ \E closed \in SUBSET AllTickets : restartMiddleman(closed)
  BY <1>10, <1>d DEF restartApi, restartMiddleman, NoRun, NoRequest, matchVars, apiVars
<1> QED
  BY <1>0, <1>1, <1>2, <1>3, <1>4, <1>5, <1>6, <1>7, <1>8, <1>9, <1>10, Kinds DEF Settling

-----------------------------------------------------------------------------
\* A step keeps one ticket of the offer open.
LEMMA OfferStep ==
  ASSUME IInv, Next
  PROVE  OfferInv'
<1>0. TypeOK /\ OfferInv
  BY DEF IInv
<1>a. /\ row \in [AllTickets -> {"None", "Open", "Deleted"}] /\ Tickets \subseteq AllTickets
      /\ accept \in [at : {"idle", "forward", "rollback", "attach", "attaching"},
                     ticket : Tickets \cup {None}]
  BY <1>0 DEF TypeOK, AllTickets
<1> USE <1>0, <1>a DEF OfferInv
<1>1. ASSUME NEW t \in Tickets, acceptOffer(t) PROVE OfferInv'
  BY <1>1 DEF acceptOffer
<1>2. CASE createMatched \/ refuseMatched \/ loseAnswer
  BY <1>2 DEF createMatched, refuseMatched, loseAnswer, Answered
<1>3. CASE rollBack
  BY <1>3 DEF rollBack, NoAccept
<1>4. CASE attachSportTicketByOffer \/ attachFails \/ attachArenaTicket \/ restartApi
  BY <1>4 DEF attachSportTicketByOffer, attachFails, attachArenaTicket, restartApi, NoAccept
<1>5. CASE UNCHANGED <<row, accept>>
  BY <1>5
<1>6. CASE Administering
  BY <1>5, <1>6 DEF Administering, adminAttaches, adminStarts, adminSettles, adminReads,
     adminWrites, runSportSettlement, Begins, apiVars
<1>7. CASE \/ readOffer \/ cancelOffer
           \/ (\E s \in Sides : upsertOutcome(s)) \/ (\E t \in AllTickets : Trading(t))
           \/ (\E r \in Timers : sweepSportSettlement(r))
           \/ (\E late \in SUBSET Runs : olderSettles(late))
           \/ (\E closed \in SUBSET AllTickets : restartMiddleman(closed))
  BY <1>5, <1>7 DEF readOffer, cancelOffer, upsertOutcome, Trading, Chain, createEscrow,
     lockCollaterals, lockPayment, recordDeposits, disputeDeal, buyerReleases, cancelDeal,
     refundOnTimeout, sweepSportSettlement, Begins, olderSettles, restartMiddleman, apiVars
<1>8. CASE (\E r \in Runs : Settling(r) \/ timeOut(r)) \/ (\E c \in Calls : Serving(c))
  BY <1>5, <1>8 DEF Settling, skipMatch, recordSupplied, forwardSportSettlement, answerRun,
     settleArenaMatch, writeSettlement, timeOut, Serving, executeSportSettlement,
     executeOnChain, executeUnseen, Executed, refuseExecution, syncTerminalPhase, apiVars
<1> QED
  BY <1>1, <1>2, <1>3, <1>4, <1>6, <1>7, <1>8 DEF Next, Offering

\* A step that nobody takes by hand keeps the offer's one ticket the one of its match, its runs
\* and its calls, and the match true to its settlement.
LEMMA PlainStep ==
  ASSUME IInv, TypeOK', Next, hands' = 0
  PROVE  PlainInv'
<1>0. TypeOK /\ LinkInv /\ HeldInv /\ TxInv /\ OfferInv /\ PlainInv
  BY DEF IInv
<1>a. /\ run \in [Runs -> RunRec] /\ call \in [Calls -> CallRec] /\ match \in MatchRec
      /\ row \in [AllTickets -> {"None", "Open", "Deleted"}] /\ Tickets \subseteq AllTickets
      /\ accept \in [at : {"idle", "forward", "rollback", "attach", "attaching"},
                     ticket : Tickets \cup {None}]
      /\ (accept.at = "idle") <=> (accept.ticket = None)
      /\ None \notin AllTickets /\ outcome \in Sides \cup {"None"}
  BY <1>0, SportAssumption DEF TypeOK, AllTickets
<1>b. hands \in Nat
  BY <1>0, SportAssumption DEF TypeOK
<1>c. hands = 0 /\ ~Hand
  <2>1. hands' = hands \/ hands' = hands + 1
    BY DEF Next, Offering, Administering, Settling, Serving, Trading, Hand, Fault, bounds,
       acceptOffer, Answered, createMatched, refuseMatched, loseAnswer, rollBack, readOffer,
       cancelOffer, attachSportTicketByOffer, attachFails, attachArenaTicket, adminAttaches,
       adminStarts, adminSettles, adminReads, adminWrites, upsertOutcome,
       sweepSportSettlement, runSportSettlement, Begins, olderSettles, skipMatch,
       recordSupplied, forwardSportSettlement, answerRun, settleArenaMatch, writeSettlement,
       timeOut, executeSportSettlement, executeOnChain, executeUnseen, Executed,
       refuseExecution, syncTerminalPhase, Chain, createEscrow, lockCollaterals, lockPayment,
       recordDeposits, disputeDeal, buyerReleases, cancelDeal, refundOnTimeout, restartApi,
       restartMiddleman
  <2> QED
    BY <1>b, <2>1 DEF Hand
<1>d. /\ admin = NoRequest
      /\ \A r \in Runs : /\ run[r].supplied = {}
                         /\ run[r].ticket # None => run[r].ticket = match.ticket
                         /\ RunHolds(r) => match.status \notin Terminal
                         /\ Busy(r) /\ revisions = 0 => /\ outcome # "None"
                                                        /\ run[r].action = settlementAction
      /\ \A c \in Calls : /\ call[c].at # "idle" => call[c].ticket = match.ticket
                          /\ CallHolds(c) => match.status \notin Terminal
      /\ Lasting(match.ticket)
      /\ RowSays
  BY <1>0, <1>c DEF PlainInv
<1> DEFINE Runs0 == \A r \in Runs :
             /\ run[r].supplied = {}
             /\ run[r].ticket # None => run[r].ticket = match.ticket
             /\ RunHolds(r) => match.status \notin Terminal
             /\ Busy(r) /\ revisions = 0 => /\ outcome # "None"
                                            /\ run[r].action = settlementAction
           Calls0 == \A c \in Calls :
             /\ call[c].at # "idle" => call[c].ticket = match.ticket
             /\ CallHolds(c) => match.status \notin Terminal
<1>e. ASSUME admin' = NoRequest, Runs0', Calls0', Lasting(match.ticket)', RowSays'
      PROVE  PlainInv'
  BY <1>e DEF PlainInv
<1>f. (admin.at = "idle") /\ Runs0 /\ Calls0
  BY <1>d DEF NoRequest
<1> USE <1>a, <1>d, <1>f DEF Busy, RunHolds, CallHolds, ByHand, settlementAction
\* What the offer does while the match is left alone.
<1>1. ASSUME UNCHANGED <<admin, match, written, outcome, revisions, run, call>>,
             Lasting(match.ticket)'
      PROVE  PlainInv'
  <2>1. Runs0' /\ Calls0'
    BY <1>1
  <2>2. RowSays'
    BY <1>1 DEF RowSays
  <2> QED
    BY <1>1, <1>e, <2>1, <2>2
<1>2. ASSUME NEW t \in Tickets, acceptOffer(t) PROVE PlainInv'
  <2>1. Lasting(match.ticket)'
    BY <1>2 DEF acceptOffer, Lasting, matchVars
  <2> QED
    BY <1>1, <1>2, <2>1 DEF acceptOffer, matchVars, settling, bounds
<1>3. CASE createMatched \/ refuseMatched \/ loseAnswer
  <2>1. Answered("attach") \/ Answered("rollback")
    BY <1>3 DEF createMatched, refuseMatched, loseAnswer
  <2>2. UNCHANGED <<row, match, written, admin, outcome, run, call>>
    BY <2>1 DEF Answered, matchVars, settling
  <2>3. revisions' = revisions
    BY <1>3 DEF createMatched, refuseMatched, loseAnswer, Fault, bounds
  <2>4. Lasting(match.ticket)'
    BY <2>1, <2>2 DEF Answered, Lasting
  <2> QED
    BY <1>1, <2>2, <2>3, <2>4
<1>4. CASE rollBack
  <2>1. Lasting(match.ticket)'
    BY <1>4 DEF rollBack, Lasting, NoAccept, matchVars
  <2> QED
    BY <1>1, <1>4, <2>1 DEF rollBack, matchVars, settling, bounds
<1>5. CASE readOffer \/ cancelOffer
  <2>1. Lasting(match.ticket)'
    BY <1>5 DEF readOffer, cancelOffer, Lasting, matchVars
  <2> QED
    BY <1>1, <1>5, <2>1 DEF readOffer, cancelOffer, matchVars, settling, bounds
<1>6. CASE attachSportTicketByOffer \/ attachFails
  <2>1. Lasting(match.ticket)'
    BY <1>6 DEF attachSportTicketByOffer, attachFails, Lasting, NoAccept, matchVars
  <2> QED
    BY <1>1, <1>6, <2>1 DEF attachSportTicketByOffer, attachFails, Fault, matchVars, settling,
       bounds
<1>7. CASE attachArenaTicket
  <2>1. /\ match'.ticket = accept.ticket /\ match'.status = "ticket_attached"
        /\ accept' = NoAccept
        /\ UNCHANGED <<row, admin, outcome, revisions, run, call>>
    BY <1>7 DEF attachArenaTicket, Attached, MatchRec, settling, bounds
  <2>2. accept.ticket \in Tickets /\ row[accept.ticket] = "Open"
    BY <1>7, <1>0 DEF attachArenaTicket, OfferInv
  <2>3. match.ticket # None => match.ticket = accept.ticket
    BY <1>0, <2>2 DEF Lasting, OfferInv
  <2>4. Lasting(match.ticket)'
    BY <2>1, <2>2 DEF Lasting, NoAccept
  <2>5. Runs0'
    BY <2>1, <2>3 DEF Terminal
  <2>6. \A c \in Calls : call[c].at # "idle" => call[c].ticket # None
    BY <1>0 DEF LinkInv
  <2>7. Calls0'
    BY <2>1, <2>3, <2>6 DEF Terminal
  <2>8. RowSays'
    BY <2>1 DEF RowSays
  <2> QED
    BY <1>e, <2>1, <2>4, <2>5, <2>7, <2>8
<1>8. CASE adminWrites \/ adminStarts \/ adminSettles \/ \E t \in AllTickets : adminAttaches(t)
  BY <1>8, <1>c DEF adminWrites, adminStarts, adminSettles, adminAttaches, adminReads
<1>9. ASSUME NEW s \in Sides, upsertOutcome(s) PROVE PlainInv'
  <2>1. /\ UNCHANGED <<row, accept, admin, match, run, call>>
        /\ revisions' = 0 => outcome = "None" /\ revisions = 0
    <3>1. revisions \in Nat
      BY <1>0, SportAssumption DEF TypeOK
    <3> QED
      BY <1>9, <3>1 DEF upsertOutcome, apiVars, matchVars, settling, bounds
  <2>2. Lasting(match.ticket)' /\ Calls0'
    BY <2>1 DEF Lasting
  <2>3. RowSays'
    BY <2>1 DEF RowSays
  <2>4. Runs0'
    BY <2>1
  <2> QED
    BY <1>e, <2>1, <2>2, <2>3, <2>4
<1>10. ASSUME NEW r \in Runs, NEW supplied \in SUBSET Actions, Begins(r, supplied),
              supplied = {}, revisions' = revisions
       PROVE  PlainInv'
  <2>1. /\ run' = [run EXCEPT ![r] = [NoRun EXCEPT !.at = "read", !.ticket = match.ticket,
                                               !.supplied = supplied]]
        /\ UNCHANGED <<row, accept, admin, match, outcome, call>>
    BY <1>10 DEF Begins, apiVars, matchVars
  <2>2. Runs0'
    BY <1>10, <2>1 DEF NoRun
  <2>3. Lasting(match.ticket)' /\ Calls0' /\ RowSays'
    BY <1>10, <2>1 DEF Lasting, RowSays
  <2> QED
    BY <1>e, <2>1, <2>2, <2>3
<1>11. CASE Administering
  <2>1. ASSUME NEW r \in Admins, NEW supplied \in SUBSET Actions, runSportSettlement(r, supplied)
        PROVE  PlainInv'
    <3>1. supplied = {} /\ UNCHANGED bounds /\ Begins(r, supplied)
      BY <1>c, <2>1 DEF runSportSettlement
    <3> QED
      BY <1>10, <2>1, <3>1 DEF bounds, Runs
  <2> QED
    BY <1>8, <1>11, <2>1 DEF Administering
<1>12. ASSUME NEW r \in Timers, sweepSportSettlement(r) PROVE PlainInv'
  BY <1>10, <1>12 DEF sweepSportSettlement, Runs, bounds
\* Runs and calls that hold no more than they did.
<1>13. ASSUME UNCHANGED <<row, admin, match, outcome, revisions>>,
              accept' \in {accept, NoAccept},
              \A r \in Runs : run'[r] \in {run[r], NoRun},
              \A c \in Calls : /\ call'[c].at # "idle" => call[c].at # "idle"
                               /\ call'[c].ticket = call[c].ticket \/ call'[c].at = "idle"
                               /\ CallHolds(c)' => match.status \notin Terminal
       PROVE  PlainInv'
  <2>1. Runs0'
    BY <1>13 DEF NoRun
  <2>2. Calls0'
    BY <1>13
  <2>3. Lasting(match.ticket)' /\ RowSays'
    BY <1>13 DEF Lasting, RowSays, NoAccept
  <2> QED
    BY <1>13, <1>e, <2>1, <2>2, <2>3
<1>14. ASSUME NEW late, olderSettles(late) PROVE PlainInv'
  BY <1>13, <1>14 DEF olderSettles, apiVars, matchVars, bounds
<1>15. ASSUME NEW r \in Runs, skipMatch(r) \/ timeOut(r) PROVE PlainInv'
  BY <1>13, <1>15 DEF skipMatch, timeOut, Skip, Unawaited, NoCall, Fault, apiVars, matchVars,
     bounds
<1>16. ASSUME NEW r \in Runs, recordSupplied(r) PROVE PlainInv'
  BY <1>16 DEF recordSupplied
<1>17. ASSUME NEW r \in Runs, NEW c \in Calls, forwardSportSettlement(r, c) PROVE PlainInv'
  <2>1. /\ run' = [run EXCEPT ![r] = [run[r] EXCEPT !.at = "called",
                                     !.action = settlementAction, !.call = c]]
        /\ call' = [call EXCEPT ![c] = [at |-> "check", ticket |-> run[r].ticket,
                                    action |-> settlementAction]]
        /\ outcome # "None" /\ run[r].ticket # None
        /\ UNCHANGED <<row, accept, admin, match, outcome, revisions>>
    BY <1>17 DEF forwardSportSettlement, apiVars, matchVars, bounds
  <2>2. /\ run'[r].supplied = run[r].supplied /\ run'[r].ticket = run[r].ticket
        /\ run'[r].at = "called" /\ run'[r].action = settlementAction
    BY <2>1 DEF RunRec
  <2>3. Runs0'
    BY <2>1, <2>2
  <2>4. Calls0'
    BY <2>1
  <2>5. Lasting(match.ticket)' /\ RowSays'
    BY <2>1 DEF Lasting, RowSays
  <2> QED
    BY <1>e, <2>1, <2>3, <2>4, <2>5
<1>18. ASSUME NEW r \in Runs, answerRun(r) PROVE PlainInv'
  <2>1. /\ call' = [call EXCEPT ![run[r].call] = NoCall] /\ run[r].at = "called"
        /\ UNCHANGED <<row, accept, admin, match, outcome, revisions>>
    BY <1>18 DEF answerRun, apiVars, matchVars, bounds
  <2>2. CASE Skip(r)
    BY <1>13, <2>1, <2>2 DEF Skip, NoCall
  <2>3. CASE run' = [run EXCEPT ![r] = [run[r] EXCEPT !.at = "settle"]] /\ call[run[r].call].at = "done"
    <3>1. run[r].call \in Calls
      BY <1>0, <2>1 DEF LinkInv
    <3>2. match.status \notin Terminal
      BY <2>3, <3>1
    <3>3. /\ run'[r].supplied = run[r].supplied /\ run'[r].ticket = run[r].ticket
          /\ run'[r].action = run[r].action
      BY <2>3 DEF RunRec
    <3>4. Runs0'
      BY <2>1, <2>3, <3>2, <3>3
    <3>5. Calls0' /\ Lasting(match.ticket)' /\ RowSays'
      BY <2>1 DEF Lasting, RowSays, NoCall
    <3> QED
      BY <1>e, <2>1, <3>4, <3>5
  <2> QED
    BY <1>18, <2>2, <2>3 DEF answerRun
<1>19. ASSUME NEW r \in Runs, settleArenaMatch(r) PROVE PlainInv'
  <2>1. /\ run[r].at = "settle"
        /\ UNCHANGED <<row, accept, admin, match, outcome, revisions, call>>
    BY <1>19 DEF settleArenaMatch, apiVars, matchVars, bounds
  <2>2. CASE Skip(r)
    BY <1>13, <2>1, <2>2 DEF Skip
  <2>3. CASE run' = [run EXCEPT ![r] = [run[r] EXCEPT !.at = "write",
                                          !.seen = match.tx[Other(run[r].action)]]]
    <3>1. /\ run'[r].supplied = run[r].supplied /\ run'[r].ticket = run[r].ticket
          /\ run'[r].action = run[r].action
      BY <2>3 DEF RunRec
    <3>2. Runs0'
      BY <2>1, <2>3, <3>1
    <3>3. Calls0' /\ Lasting(match.ticket)' /\ RowSays'
      BY <2>1 DEF Lasting, RowSays
    <3> QED
      BY <1>e, <2>1, <3>2, <3>3
  <2> QED
    BY <1>19, <2>2, <2>3 DEF settleArenaMatch
<1>20. ASSUME NEW r \in Runs, writeSettlement(r) PROVE PlainInv'
  <2>1. /\ run[r].at = "write" /\ run' = [run EXCEPT ![r] = NoRun]
        /\ UNCHANGED <<row, accept, admin, outcome, revisions, call>>
    BY <1>20 DEF writeSettlement, Skip, apiVars, bounds
  <2>2. RunHolds(r)
    BY <2>1
  <2>3. run[r].ticket = match.ticket /\ match.ticket \in Tickets
    BY <1>0, <2>2 DEF HeldInv, Lasting
  <2>4. /\ match'.ticket = match.ticket /\ match'.winner = outcome
        /\ match'.status = IF run[r].action = "release_to_maker" THEN "released" ELSE "refunded"
    BY <1>20 DEF writeSettlement, MatchRec
  <2>5. run[r].action \in Actions => match'.tx[run[r].action] = match.ticket
    BY <1>20, <2>3 DEF writeSettlement, MatchRec
  <2>6. /\ run[r].action \in Actions
        /\ revisions = 0 => outcome # "None" /\ run[r].action = settlementAction
    BY <1>0, <2>1 DEF LinkInv
  <2>7. RowSays'
    BY <2>1, <2>3, <2>4, <2>5, <2>6 DEF RowSays, Actions, Sides
  <2>8. \A s \in Runs : ~RunHolds(s)'
    BY <1>0, <2>1, <2>2, <2>3 DEF HeldInv, NoRun
  <2>9. Runs0'
    BY <2>1, <2>4, <2>8 DEF NoRun
  <2>10. \A c \in Calls : ~CallHolds(c)
    BY <1>0, <2>2, <2>3 DEF HeldInv
  <2>11. Calls0' /\ Lasting(match.ticket)'
    BY <2>1, <2>4, <2>10 DEF Lasting
  <2> QED
    BY <1>e, <2>1, <2>7, <2>9, <2>11
<1>21. ASSUME NEW c \in Calls, Serving(c) PROVE PlainInv'
  <2>1. /\ call[c].at # "idle"
        /\ UNCHANGED <<row, accept, admin, match, outcome, revisions, run>>
    BY <1>21 DEF Serving, executeSportSettlement, executeOnChain, executeUnseen, Executed,
       refuseExecution, syncTerminalPhase, Fault, apiVars, matchVars, bounds
  <2>2. CASE executeOnChain(c)
    <3>1. /\ call' = [call EXCEPT ![c] = [call[c] EXCEPT !.at = "record"]]
          /\ chain[call[c].ticket] \notin {"Completed", "Cancelled"}
      BY <2>2 DEF executeOnChain, Executed, Allows
    <3>2. call[c].ticket = match.ticket
      BY <2>1
    <3>3. match.status \notin Terminal
      BY <1>0, <3>1, <3>2 DEF RowSays, TxInv, Terminal, Becomes, Actions
    <3> QED
      BY <1>13, <2>1, <3>1, <3>3 DEF CallRec
  <2>3. CASE \E s \in {"failed", "done"} : Ends(c, s) /\ (s = "done" => call[c].at = "record")
    <3>1. PICK s \in {"failed", "done"} : Ends(c, s) /\ (s = "done" => call[c].at = "record")
      BY <2>3
    <3> QED
      BY <1>0, <1>13, <2>1, <3>1, CallsLast
  <2>4. CASE call' = [call EXCEPT ![c] = [call[c] EXCEPT !.at = "execute"]]
    BY <1>13, <2>1, <2>4 DEF CallRec
  <2> QED
    BY <1>21, <2>2, <2>3, <2>4 DEF Serving, executeSportSettlement, executeUnseen,
       refuseExecution, syncTerminalPhase
<1>22. ASSUME NEW t \in AllTickets, Trading(t) PROVE PlainInv'
  <2>1. UNCHANGED <<row, accept, admin, match, written, outcome, revisions, run, call>>
    BY <1>22 DEF Trading, Chain, createEscrow, lockCollaterals, lockPayment, recordDeposits,
       disputeDeal, buyerReleases, cancelDeal, refundOnTimeout, apiVars, matchVars, settling,
       bounds
  <2> QED
    BY <1>1, <2>1 DEF Lasting
<1>23. CASE restartApi
  <2>1. \A c \in Calls : call'[c] \in {call[c], NoCall}
    BY <1>23 DEF restartApi, Unawaited
  <2>2. \A r \in Runs : run'[r] = NoRun
    BY <1>23 DEF restartApi
  <2>3. admin' = admin /\ accept' = NoAccept /\ UNCHANGED <<row, match, outcome, revisions>>
    BY <1>23 DEF restartApi, Fault, matchVars
  <2> QED
    BY <1>13, <2>1, <2>2, <2>3 DEF NoCall
<1>24. ASSUME NEW closed, restartMiddleman(closed) PROVE PlainInv'
  <2>1. UNCHANGED <<row, accept, admin, match, outcome, revisions, run>>
    BY <1>24 DEF restartMiddleman, Fault, apiVars, matchVars
  <2>2. \A c \in Calls : Awaited(c) => call[c].at # "idle"
    BY <1>0 DEF Awaited, LinkInv
  <2>3. \A c \in Calls : /\ call'[c].at # "idle" => call[c].at # "idle"
                         /\ call'[c].ticket = call[c].ticket \/ call'[c].at = "idle"
                         /\ CallHolds(c)' => CallHolds(c)
    BY <1>24, <2>2 DEF restartMiddleman, NoCall, CallRec
  <2> QED
    BY <1>13, <2>1, <2>3
<1> HIDE DEF Runs0, Calls0
<1> QED
  BY <1>2, <1>3, <1>4, <1>5, <1>6, <1>7, <1>9, <1>11, <1>12, <1>14, <1>15, <1>16, <1>17,
     <1>18, <1>19, <1>20, <1>21, <1>22, <1>23, <1>24 DEF Next, Offering, Settling

-----------------------------------------------------------------------------
LEMMA InitInv == Init => IInv
<1> SUFFICES ASSUME Init PROVE IInv
  OBVIOUS
<1> USE SportAssumption
<1>1. TypeOK
  <2>1. NoRun \in RunRec /\ NoCall \in CallRec
    BY DEF NoRun, RunRec, NoCall, CallRec, CallStates, Transactions
  <2>2. RunType
    BY <2>1 DEF Init, RunType
  <2>3. ApiType
    BY DEF Init, ApiType, NoAccept, NoRequest, AllTickets, Transactions
  <2>4. MatchType
    BY DEF Init, MatchType, MatchRec, Transactions
  <2>5. EscrowType
    BY DEF Init, EscrowType, DealType, ChainType
  <2>6. BoundType
    BY DEF Init, BoundType
  <2> QED
    BY <2>2, <2>3, <2>4, <2>5, <2>6, TypeParts
<1>2. LinkInv /\ HeldInv
  BY DEF Init, LinkInv, Busy, HeldInv, CallHolds, RunHolds, NoCall, NoRun
<1>3. TxInv
  <2>1. None \notin AllTickets
    OBVIOUS
  <2> QED
    BY <2>1 DEF Init, TxInv, NoRun, NoRequest
<1>4. OfferInv /\ PlainInv
  <2>1. \A t \in Tickets : row[t] = "None"
    BY DEF Init, AllTickets
  <2>2. OfferInv
    BY <2>1 DEF Init, OfferInv, NoAccept
  <2>3. PlainInv
    BY DEF Init, PlainInv, RowSays, Lasting, RunHolds, CallHolds, Busy, NoRun, NoCall
  <2> QED
    BY <2>2, <2>3
<1> QED
  BY <1>1, <1>2, <1>3, <1>4 DEF IInv

LEMMA StutterInv == IInv /\ UNCHANGED vars => IInv'
<1> SUFFICES ASSUME IInv, UNCHANGED vars PROVE IInv'
  OBVIOUS
<1> USE DEF vars, apiVars, matchVars, settling, escrows, bounds
<1>1. TypeOK'
  BY DEF IInv, TypeOK
<1>2. LinkInv' /\ HeldInv' /\ TxInv'
  BY DEF IInv, LinkInv, Busy, ByHand, HeldInv, CallHolds, RunHolds, TxInv, Becomes, Other
<1>3. OfferInv' /\ PlainInv'
  BY DEF IInv, OfferInv, PlainInv, RowSays, Lasting, RunHolds, CallHolds, Busy, ByHand,
     settlementAction
<1> QED
  BY <1>1, <1>2, <1>3 DEF IInv

LEMMA StepInv == IInv /\ [Next]_vars => IInv'
<1>1. ASSUME IInv, Next PROVE IInv'
  <2>1. TypeOK'
    BY <1>1, TypeStep
  <2>2. LinkInv' /\ HeldInv' /\ TxInv' /\ OfferInv'
    BY <1>1, <2>1, LinkStep, HeldStep, TxStep, OfferStep
  <2>3. PlainInv'
    BY <1>1, <2>1, PlainStep DEF PlainInv
  <2> QED
    BY <2>1, <2>2, <2>3 DEF IInv
<1> QED
  BY <1>1, StutterInv

LEMMA Invariance == Spec => []IInv
<1>1. Init => IInv
  BY InitInv
<1>2. IInv /\ [Next]_vars => IInv'
  BY StepInv
<1> QED
  BY <1>1, <1>2, PTL DEF Spec

\* Every variable of the two servers keeps its type, whatever is lost or restarted.
THEOREM TypeCorrect == Spec => []TypeOK
<1>1. IInv => TypeOK
  BY DEF IInv
<1> QED
  BY <1>1, Invariance, PTL

\* A transaction of a run's own in the match is that of an escrow the program settled that way,
\* whatever is written by hand; and without that the match says of its ticket, and of the
\* winner, what happened on chain (sportSettlementEngine.ts:250, arenaMatch.service.ts:289).
THEOREM RowsMatchTheChain == Spec => []RowMatchesChain
<1>1. IInv => RowMatchesChain
  BY DEF IInv, TxInv, PlainInv, RowSays, RowMatchesChain
<1> QED
  BY <1>1, Invariance, PTL

\* However many runs overlap, and however often a ticket is attached or a match opened again,
\* the settlement of an escrow is written down at most once (transactionMonitor.ts:273).
THEOREM SettlementsAreWrittenOnce == Spec => []SettledOnce
<1>1. IInv => SettledOnce
  BY DEF IInv, HeldInv, SettledOnce
<1> QED
  BY <1>1, Invariance, PTL
=============================================================================
