---------------------------- MODULE TimeoutProofs ----------------------------
(***************************************************************************)
(* Theorems about TimeoutWatch, for any breaker, number of calls, retries  *)
(* and scenes.  The argument for the probe: the mark of a probe is set     *)
(* exactly while the breaker is half open; it becomes half open only when  *)
(* it admits a call, and every end of a call takes it out of that state.   *)
(***************************************************************************)
EXTENDS TimeoutWatch, TLAPS

Marked(b) == b \in Breakers /\ (b.probing <=> b.state = "HALF_OPEN")

BreakerInv ==
    /\ breaker.probing <=> breaker.state = "HALF_OPEN"
    /\ breaker.state = "HALF_OPEN" => InFlight

\* What makes a refund of the agent's records real: the watcher holds one that landed.
RefundInv ==
    /\ status \notin {"None", "Completed"}
    /\ RefundedIsReal
    /\ watch.at \in {"landed", "done"} => status = "Refunded"

IInv == TypeOK /\ BreakerInv /\ RefundInv

-----------------------------------------------------------------------------
\* A transition leaves the mark only where the breaker is half open.
LEMMA Transition ==
  ASSUME NEW b, Marked(b), NEW s \in {"OPEN", "HALF_OPEN", "DEGRADED"}
  PROVE  /\ transitionTo(b, s) \in Breakers
         /\ transitionTo(b, s).state = s
         /\ transitionTo(b, s).resets = b.resets
         /\ transitionTo(b, s).probing <=> b.probing /\ s = "HALF_OPEN"
<1> DEFINE mark == b.probing /\ s = "HALF_OPEN"
<1>1. mark \in BOOLEAN
  OBVIOUS
<1>2. transitionTo(b, s) = [b EXCEPT !.state = s, !.cool = FALSE, !.successes = 0,
                                     !.failures = 0, !.probing = mark]
  <2> USE DEF Marked, Breakers
  <2> QED BY DEF transitionTo
<1>3. transitionTo(b, s) \in Breakers /\ transitionTo(b, s).state = s
      /\ transitionTo(b, s).resets = b.resets /\ transitionTo(b, s).probing = mark
  <2> HIDE DEF mark
  <2>1. b \in Breakers /\ 0 \in 0..MaxWindow
    BY BreakerAssumption DEF Marked
  <2> QED BY <1>1, <1>2, <2>1 DEF Breakers
<1> QED BY <1>3

\* Asking keeps the mark right, and leaves the breaker half open only by admitting the caller.
LEMMA Asking ==
  ASSUME NEW b, Marked(b)
  PROVE  /\ Marked(asked(b))
         /\ asked(b).state = "HALF_OPEN" /\ b.state # "HALF_OPEN" => canExecute(b)
<1>1. CASE b.state = "OPEN" /\ b.cool
  <2> DEFINE c == transitionTo(b, "HALF_OPEN")
  <2>1. c \in Breakers /\ c.state = "HALF_OPEN" /\ ~c.probing
    BY <1>1, Transition DEF Marked
  <2>2. Cooled(b) = c
    BY <1>1 DEF Cooled
  <2>3. asked(b) = [c EXCEPT !.probing = TRUE]
    BY <2>1, <2>2 DEF asked
  <2>4. asked(b) \in Breakers /\ asked(b).state = "HALF_OPEN" /\ asked(b).probing
    <3> HIDE DEF c
    <3> QED BY <2>1, <2>3 DEF Breakers
  <2>5. canExecute(b)
    BY <2>1, <2>2 DEF canExecute
  <2> QED BY <2>4, <2>5 DEF Marked
<1>2. CASE ~(b.state = "OPEN" /\ b.cool) /\ b.state = "HALF_OPEN"
  <2>1. asked(b) = [b EXCEPT !.probing = TRUE]
    BY <1>2 DEF asked, Cooled
  <2> QED BY <2>1, <1>2 DEF Marked, Breakers
<1>3. CASE ~(b.state = "OPEN" /\ b.cool) /\ b.state # "HALF_OPEN"
  BY <1>3 DEF asked, Cooled, Marked
<1> QED BY <1>1, <1>2, <1>3

LEMMA FreshMarked == Marked(FreshBreaker) /\ FreshBreaker.state = "CLOSED"
  BY BreakerAssumption DEF Marked, Breakers, FreshBreaker

\* However a call ends, the breaker is not half open after it.
LEMMA RecordingFailure ==
  ASSUME NEW b, Marked(b)
  PROVE  Marked(recordFailure(b)) /\ recordFailure(b).state # "HALF_OPEN"
<1> DEFINE counted == [b EXCEPT !.failures = More(@)]
<1>1. CASE b.state = "HALF_OPEN"
  BY <1>1, Transition DEF recordFailure, Marked
<1>2. CASE b.state = "CLOSED"
  <2>1. Marked(counted) /\ counted.state = "CLOSED"
    BY <1>2, BreakerAssumption DEF Marked, Breakers, More
  <2>2. recordFailure(b) \in {counted, transitionTo(counted, "OPEN")}
    BY <1>2 DEF recordFailure
  <2> HIDE DEF counted
  <2> QED BY <2>1, <2>2, Transition DEF Marked
<1>3. CASE b.state \notin {"HALF_OPEN", "CLOSED"}
  BY <1>3 DEF recordFailure
<1> QED BY <1>1, <1>2, <1>3

LEMMA RecordingSuccess ==
  ASSUME NEW b, Marked(b)
  PROVE  Marked(recordSuccess(b)) /\ recordSuccess(b).state # "HALF_OPEN"
<1>1. CASE b.state = "HALF_OPEN" /\ b.resets + 1 >= MAX_RESETS
  <2> DEFINE c == transitionTo(b, "DEGRADED")
  <2>1. c \in Breakers /\ c.state = "DEGRADED" /\ ~c.probing
    BY Transition
  <2>2. recordSuccess(b) = [c EXCEPT !.resets = MAX_RESETS]
    BY <1>1 DEF recordSuccess
  <2> HIDE DEF c
  <2> QED BY <2>1, <2>2, BreakerAssumption DEF Marked, Breakers
<1>2. CASE b.state = "HALF_OPEN" /\ ~(b.resets + 1 >= MAX_RESETS)
  <2>1. recordSuccess(b) = [FreshBreaker EXCEPT !.resets = b.resets + 1]
    BY <1>2 DEF recordSuccess
  <2>2. b.resets + 1 \in 0..MAX_RESETS
    BY <1>2, BreakerAssumption DEF Marked, Breakers
  <2> QED BY <2>1, <2>2, FreshMarked DEF Marked, Breakers
<1>3. CASE b.state = "CLOSED"
  <2> DEFINE counted == [b EXCEPT !.successes = More(@)]
  <2>1. Marked(counted) /\ counted.state = "CLOSED"
    BY <1>3, BreakerAssumption DEF Marked, Breakers, More
  <2>2. recordSuccess(b) = counted
    BY <1>3 DEF recordSuccess
  <2> HIDE DEF counted
  <2> QED BY <2>1, <2>2 DEF Marked
<1>4. CASE b.state \notin {"HALF_OPEN", "CLOSED"}
  BY <1>4 DEF recordSuccess
<1> QED BY <1>1, <1>2, <1>3, <1>4

LEMMA Recording ==
  ASSUME NEW b, Marked(b), NEW c \in Succeeded(b)
  PROVE  Marked(c) /\ c.state # "HALF_OPEN"
  BY RecordingFailure, RecordingSuccess DEF Succeeded

\* A failure is one of the ends of a call that succeeds slowly.
LEMMA Failing ==
  ASSUME NEW b
  PROVE  recordFailure(b) \in Succeeded(b)
  BY DEF Succeeded

\* Events that leave the window change neither state nor mark.
LEMMA Pruning ==
  ASSUME NEW b, Marked(b), NEW g \in 0..b.successes, NEW f \in 0..b.failures
  PROVE  Marked(Pruned(b, g, f)) /\ Pruned(b, g, f).state = b.state
<1>1. g \in 0..MaxWindow /\ f \in 0..MaxWindow
  BY BreakerAssumption DEF Marked, Breakers
<1> QED BY <1>1 DEF Marked, Breakers, Pruned

-----------------------------------------------------------------------------
\* The actions that leave the breaker alone, and every call in flight where it is.
LEMMA BreakerKept ==
  ASSUME IInv, UNCHANGED breaker, InFlight => InFlight'
  PROVE  Marked(breaker)' /\ BreakerInv'
  BY DEF IInv, TypeOK, BreakerInv, Marked

\* A call asks: it is in flight if it is admitted.
LEMMA BreakerAsked ==
  ASSUME IInv, breaker' = Asked, Admitted \/ InFlight => InFlight'
  PROVE  Marked(breaker)' /\ BreakerInv'
<1>1. Marked(breaker)
  BY DEF IInv, TypeOK, BreakerInv, Marked
<1>2. CASE up = "up"
  <2>1. breaker' = asked(breaker)
    BY <1>2 DEF Asked
  <2>2. Marked(breaker)'
    BY <1>1, <2>1, Asking DEF Marked
  <2>3. ASSUME breaker'.state = "HALF_OPEN" PROVE InFlight'
    <3>1. CASE breaker.state = "HALF_OPEN"
      BY <3>1 DEF IInv, BreakerInv
    <3>2. CASE breaker.state # "HALF_OPEN"
      BY <3>2, <1>1, <1>2, <2>1, <2>3, Asking DEF Admitted
    <3> QED BY <3>1, <3>2
  <2> QED BY <2>2, <2>3 DEF BreakerInv, Marked
<1>3. CASE up # "up"
  BY <1>3, BreakerKept DEF Asked
<1> QED BY <1>2, <1>3

\* A call ends.
LEMMA BreakerTold ==
  ASSUME IInv, breaker' \in Succeeded(breaker)
  PROVE  Marked(breaker)' /\ BreakerInv'
<1>1. Marked(breaker)
  BY DEF IInv, TypeOK, BreakerInv, Marked
<1>2. Marked(breaker') /\ breaker'.state # "HALF_OPEN"
  BY <1>1, Recording
<1> QED BY <1>2 DEF BreakerInv, Marked

\* A step keeps the mark of the breaker right, and a call in flight for it.
LEMMA BreakerStep ==
  ASSUME IInv, Next
  PROVE  Marked(breaker)' /\ BreakerInv'
<1> DEFINE Goal == Marked(breaker)' /\ BreakerInv'
<1>t. TypeOK
  BY DEF IInv
<1>1. CASE UNCHANGED <<breaker, watch, confirm, busy>>
  BY <1>1, BreakerKept DEF InFlight
<1>2. ASSUME NEW t \in Deposits, ConfirmBegins(t) PROVE Goal
  <2>1. Admitted \/ InFlight => InFlight'
    BY <1>t, <1>2 DEF ConfirmBegins, InFlight, TypeOK, Watches, Confirms
  <2> QED BY <1>2, <2>1, BreakerAsked DEF ConfirmBegins
<1>3. CASE ConfirmLands
  BY <1>3, BreakerTold DEF ConfirmLands
<1>4. CASE ConfirmFails
  BY <1>4, BreakerTold, Failing DEF ConfirmFails
<1>5. CASE ConfirmReads \/ ConfirmWrites \/ ConfirmRecords
  BY <1>5, <1>t, BreakerKept
  DEF ConfirmReads, ConfirmWrites, ConfirmRecords, InFlight, TypeOK, Watches, Confirms, Waiting
<1>6. CASE Scan \/ Claim \/ Conclude
  BY <1>6, <1>t, BreakerKept DEF Scan, Claim, Conclude, InFlight, TypeOK, Watches, Confirms, Resting,
     depositing
<1>7. CASE Handle
  <2>1. CASE watch.seen = "created"
    BY <2>1, <1>7, <1>t, BreakerKept DEF Handle, InFlight, TypeOK, Watches, Confirms, Resting, depositing
  <2>2. CASE watch.seen # "created"
    <3>1. Admitted \/ InFlight => InFlight'
      BY <2>2, <1>7, <1>t DEF Handle, InFlight, TypeOK, Watches, Confirms, depositing
    <3> QED BY <2>2, <1>7, <3>1, BreakerAsked DEF Handle
  <2> QED BY <2>1, <2>2
<1>8. CASE Attempt
  <2>1. Admitted \/ InFlight => InFlight'
    BY <1>8, <1>t DEF Attempt, InFlight, TypeOK, Watches, Confirms
  <2> QED BY <1>8, <2>1, BreakerAsked DEF Attempt
<1>9. CASE RefundLands \/ RefundRefused \/ RefundStored
  BY <1>9, BreakerTold, Failing DEF RefundLands, RefundRefused, RefundStored
<1>10. CASE RefundUnconfirmed
  <2>1. CASE UNCHANGED breaker /\ watch' = [watch EXCEPT !.sends = @ + 1]
    BY <2>1, <1>10, <1>t, BreakerKept DEF RefundUnconfirmed, InFlight, TypeOK, Watches, Confirms
  <2>2. CASE breaker' = recordFailure(breaker)
    BY <2>2, BreakerTold, Failing
  <2> QED BY <1>10, <2>1, <2>2 DEF RefundUnconfirmed
<1>11. CASE RefundFailed
  <2>1. CASE UNCHANGED breaker /\ watch' = [watch EXCEPT !.at = "attempt", !.tries = @ + 1]
    BY <2>1, <1>11, <1>t, BreakerKept DEF RefundFailed, InFlight, TypeOK, Watches, Confirms
  <2>2. CASE breaker' = recordFailure(breaker)
    BY <2>2, BreakerTold, Failing
  <2> QED BY <1>11, <2>1, <2>2 DEF RefundFailed
<1>12. ASSUME NEW c \in Calls, CallBegins(c) PROVE Goal
  <2>1. Admitted \/ InFlight => InFlight'
    BY <1>12, <1>t DEF CallBegins, InFlight, TypeOK, Watches, Confirms, depositing
  <2> QED BY <1>12, <2>1, BreakerAsked DEF CallBegins
<1>13. ASSUME NEW c \in Calls, CallEnds(c) PROVE Goal
  BY <1>13, BreakerTold DEF CallEnds
<1>14. CASE TimePasses
  <2>0. Marked(breaker)
    BY DEF IInv, TypeOK, BreakerInv, Marked
  <2>1. CASE breaker.state = "OPEN" /\ breaker' = [breaker EXCEPT !.cool = TRUE]
    BY <2>0, <2>1 DEF Marked, Breakers, BreakerInv
  <2>2. ASSUME breaker.state = "CLOSED", NEW g \in 0..breaker.successes,
               NEW f \in 0..breaker.failures, breaker' = Pruned(breaker, g, f)
        PROVE  Goal
    BY <2>0, <2>2, Pruning DEF Marked, BreakerInv
  <2> QED BY <1>14, <2>1, <2>2 DEF TimePasses
<1>15. CASE Stop
  BY <1>15, FreshMarked DEF Stop, Marked, BreakerInv
<1>16. CASE beginShutdown \/ Restart \/ PartySettles \/ Due \/ Expire \/ NetFails \/ NetReturns
            \/ advanceToAwaitingDeposits
  BY <1>16, <1>1 DEF beginShutdown, Restart, PartySettles, Due, Expire, NetFails, NetReturns,
     advanceToAwaitingDeposits, depositing
<1>17. ASSUME NEW t \in Deposits, PartyDeposits(t) \/ Poll(t) PROVE Goal
  BY <1>17, <1>1 DEF PartyDeposits, Poll, depositing
<1> QED BY <1>2, <1>3, <1>4, <1>5, <1>6, <1>7, <1>8, <1>9, <1>10, <1>11, <1>12, <1>13, <1>14,
           <1>15, <1>16, <1>17 DEF Next, Watching

-----------------------------------------------------------------------------
LEMMA ChainTypes ==
  ASSUME Chain!TypeOK,
         \/ \E t \in Deposits : Chain!Deposit(t)
         \/ Chain!Refund \/ Chain!Cancel \/ Chain!Expire
         \/ UNCHANGED <<status, locked, late>>
  PROVE  Chain!TypeOK'
<1> USE DEF Chain!TypeOK
<1>1. ASSUME NEW t \in Deposits, Chain!Deposit(t) PROVE Chain!TypeOK'
  <2>1. locked' \in SUBSET Deposits
    BY <1>1 DEF Chain!Deposit, Deposits, Chain!Deposits
  <2>2. status' \in {"PaymentLocked", "CollateralLocked", "Created"}
    BY <1>1 DEF Chain!Deposit
  <2> QED BY <1>1, <2>1, <2>2 DEF Chain!Deposit, Deposits, Chain!Deposits
<1>2. CASE Chain!Refund \/ Chain!Cancel \/ Chain!Expire
  BY <1>2 DEF Chain!Refund, Chain!Cancel, Chain!Expire
<1>3. CASE UNCHANGED <<status, locked, late>>
  BY <1>3
<1> QED BY <1>1, <1>2, <1>3

LEMMA RowTypes ==
  ASSUME row \in Rows, NEW s \in Statuses, Write(s) \/ Settle(s)
  PROVE  row' \in Rows
<1>1. CASE Write(s)
  BY <1>1 DEF Rows, Write
<1>2. CASE Settle(s)
  BY <1>2 DEF Rows, Settle
<1> QED BY <1>1, <1>2

\* Every phase of the deal has a status of its own.
LEMMA PhaseStatus ==
  ASSUME NEW p \in {"escrow_created", "awaiting_deposits", "delivery", "refunded", "cancelled"}
  PROVE  phaseToStatus[p] \in Statuses /\ (phaseToStatus[p] = "refunded" <=> p = "refunded")
  BY DEF phaseToStatus, Statuses, Scanned

\* A step keeps the types.
LEMMA TypeStep ==
  ASSUME IInv, Next
  PROVE  TypeOK'
<1> DEFINE Goal == TypeOK'
<1>b. breaker' \in Breakers
  BY BreakerStep DEF Marked
<1>c. row \in Rows /\ watch \in Watches /\ confirm \in Confirms
  BY DEF IInv, TypeOK
<1>s. scene.outages \in Nat /\ scene.stops \in Nat
  BY WatchAssumption DEF IInv, TypeOK
<1> USE <1>b, <1>s DEF IInv, TypeOK, chain, manager, depositing, world, process
<1>1. ASSUME NEW t \in Deposits, PartyDeposits(t) PROVE Goal
  BY <1>1, ChainTypes DEF PartyDeposits
<1>2. ASSUME NEW t \in Chain!Collaterals, recordDeposit(t)
      PROVE  row' \in Rows /\ deposited' \in SUBSET Chain!Collaterals /\ phase' \in {phase, "delivery"}
  <2>1. CASE UNCHANGED row
    BY <1>2, <2>1 DEF recordDeposit, transition
  <2>2. CASE transition("delivery") /\ deposited' = deposited \cup {t}
    BY <2>2, PhaseStatus, RowTypes DEF transition
  <2> QED BY <1>2, <2>1, <2>2 DEF recordDeposit
<1>3. ASSUME NEW t \in Deposits, ConfirmBegins(t) PROVE Goal
  BY <1>3, ChainTypes DEF ConfirmBegins, Confirms
<1>4. CASE PartySettles
  BY <1>4, ChainTypes DEF PartySettles
<1>5. CASE Due \/ Expire
  BY <1>5, ChainTypes DEF Due, Expire
<1>6. CASE NetFails \/ NetReturns
  <2>1. outages' \in 0..scene.outages
    BY <1>6 DEF NetFails, NetReturns
  <2> QED BY <1>6, <2>1, ChainTypes DEF NetFails, NetReturns
<1>7. CASE advanceToAwaitingDeposits
  BY <1>7, ChainTypes, PhaseStatus, RowTypes DEF advanceToAwaitingDeposits, transition
<1>8. CASE ConfirmLands \/ ConfirmFails
  <2>1. confirm.type \in Deposits /\ confirm' \in Confirms
    BY <1>8, <1>c DEF ConfirmLands, ConfirmFails, Confirms
  <2> QED BY <1>8, <2>1, ChainTypes DEF ConfirmLands, ConfirmFails
<1>10. CASE ConfirmReads
  <2>1. confirm' \in Confirms
    <3>1. Partial[confirm.type] \in {"collateral_buyer", "collateral_seller", "payment_locked"}
      BY <1>c DEF Partial, Confirms, Deposits
    <3>2. PICK s \in {"collateral_buyer", "collateral_seller", "payment_locked",
                      "collateral_locked"} : confirm' = [confirm EXCEPT !.at = "write", !.to = s]
      BY <1>10, <3>1 DEF ConfirmReads
    <3> QED BY <3>2, <1>c DEF Confirms, Scanned
  <2> QED BY <1>10, <2>1, ChainTypes DEF ConfirmReads
<1>11. CASE ConfirmWrites
  <2>1. confirm' \in Confirms /\ {confirm.to, "failed"} \subseteq Statuses
    BY <1>11, <1>c DEF ConfirmWrites, Confirms, Waiting, Statuses, Scanned, Deposits
  <2>2. row' \in Rows
    BY <1>11, <2>1, RowTypes DEF ConfirmWrites
  <2> QED BY <1>11, <2>1, <2>2, ChainTypes DEF ConfirmWrites
<1>12. CASE ConfirmRecords
  <2>1. confirm' \in Confirms /\ confirm.type \in Deposits
    BY <1>12, <1>c DEF ConfirmRecords, Confirms, Waiting, Scanned, Deposits
  <2>2. CASE confirm.type \in Chain!Collaterals
    BY <1>12, <2>1, <2>2, <1>2, ChainTypes DEF ConfirmRecords
  <2>3. CASE confirm.type \notin Chain!Collaterals
    BY <1>12, <2>1, <2>3, PhaseStatus, RowTypes, ChainTypes DEF ConfirmRecords, transition
  <2> QED BY <2>2, <2>3
<1>13. CASE Scan
  <2>1. Resting \in Watches /\ row.status \in Scanned
    BY <1>13, WatchAssumption DEF Scan, Watches, Resting, Scanned
  <2>2. watch' \in Watches
    BY <1>13, <2>1 DEF Scan, Watches
  <2> QED BY <1>13, <2>2, ChainTypes DEF Scan
<1>23. CASE Claim
  <2>1. watch' \in Watches
    BY <1>23, <1>c DEF Claim, Watches
  <2>2. row' \in Rows
    BY <1>23, <1>c DEF Claim, Rows
  <2> QED BY <1>23, <2>1, <2>2, ChainTypes DEF Claim
<1>14. CASE Conclude
  <2>1. watch' \in Watches
    BY <1>14, WatchAssumption DEF Conclude, Watches, Resting, Scanned
  <2>2. row' \in Rows
    BY <1>14, RowTypes DEF Conclude, Statuses
  <2> QED BY <1>14, <2>1, <2>2, ChainTypes DEF Conclude
<1>15. CASE Handle
  <2>1. watch' \in Watches
    <3>1. Resting \in Watches
      BY WatchAssumption DEF Watches, Resting, Scanned
    <3>2. PICK a \in {"attempt", "giveUp"} : watch' \in {Resting, [watch EXCEPT !.at = a]}
      BY <1>15 DEF Handle
    <3> QED BY <3>1, <3>2, <1>c DEF Watches
  <2>2. row' \in Rows
    BY <1>15, RowTypes DEF Handle, Statuses
  <2> QED BY <1>15, <2>1, <2>2, ChainTypes DEF Handle
<1>16. CASE Attempt \/ RefundLands \/ RefundRefused \/ RefundUnconfirmed
  <2>1. watch' \in Watches
    <3>1. CASE Attempt
      <4>1. PICK a \in {"send", "failing"} :
              watch' = [watch EXCEPT !.at = a, !.sends = 0, !.again = FALSE]
        BY <3>1 DEF Attempt
      <4>2. 0 \in 0..MaxRetries
        BY WatchAssumption
      <4> QED BY <4>1, <4>2, <1>c DEF Watches
    <3>2. CASE RefundLands \/ RefundRefused
      <4>1. PICK a \in {"landed", "failing"} : watch' = [watch EXCEPT !.at = a]
        BY <3>2 DEF RefundLands, RefundRefused
      <4> QED BY <4>1, <1>c DEF Watches
    <3>3. CASE RefundUnconfirmed /\ watch' = [watch EXCEPT !.sends = @ + 1]
                                /\ watch.sends < MaxRetries
      BY <3>3, <1>c, WatchAssumption DEF Watches
    <3>4. CASE watch' = [watch EXCEPT !.at = "failing", !.again = watch.sends = MaxRetries]
      <4>1. PICK again \in BOOLEAN : watch' = [watch EXCEPT !.at = "failing", !.again = again]
        BY <3>4
      <4> QED BY <4>1, <1>c DEF Watches
    <3> QED BY <1>16, <3>1, <3>2, <3>3, <3>4 DEF RefundUnconfirmed
  <2> QED BY <1>16, <2>1, ChainTypes DEF Attempt, RefundLands, RefundRefused, RefundUnconfirmed
<1>17. CASE RefundStored \/ RefundFailed
  <2>1. watch' \in Watches
    <3>1. ASSUME NEW a \in {"done", "giveUp"}, watch' = [watch EXCEPT !.at = a]
          PROVE  watch' \in Watches
      BY <3>1, <1>c DEF Watches
    <3>2. ASSUME watch' = [watch EXCEPT !.at = "attempt", !.tries = @ + 1],
                 watch.tries < MaxRetries
          PROVE  watch' \in Watches
      <4>1. watch.tries + 1 \in 0..MaxRetries
        BY <3>2, <1>c, WatchAssumption DEF Watches
      <4> QED BY <3>2, <4>1, <1>c DEF Watches
    <3> QED BY <1>17, <3>1, <3>2 DEF RefundStored, RefundFailed
  <2>2. row' \in Rows
    BY <1>17, RowTypes DEF RefundStored, RefundFailed, Statuses
  <2> QED BY <1>17, <2>1, <2>2, ChainTypes DEF RefundStored, RefundFailed
<1>18. ASSUME NEW c \in Calls, CallBegins(c) \/ CallEnds(c) PROVE Goal
  BY <1>18, ChainTypes DEF CallBegins, CallEnds
<1>19. CASE TimePasses \/ beginShutdown
  BY <1>19, ChainTypes DEF TimePasses, beginShutdown
<1>20. CASE Stop
  <2>1. watch' \in Watches /\ confirm' \in Confirms
    BY <1>20, WatchAssumption DEF Stop, Watches, Confirms, Resting, Waiting, Scanned, Deposits
  <2>2. orphaned' \in BOOLEAN
    BY <1>20, <1>c DEF Stop, Rows
  <2> QED BY <1>20, <2>1, <2>2, ChainTypes DEF Stop
<1>21. CASE Restart
  <2> DEFINE Phases == {"escrow_created", "awaiting_deposits", "delivery", "refunded", "cancelled"}
  <2>1. PhaseOnChain[status] \in Phases
    BY DEF PhaseOnChain, RefundInv, Chain!TypeOK
  <2> DEFINE healed == IF phase \notin Ended /\ row.status \in Ended THEN row.status ELSE phase
  <2>2. healed \in Phases
    BY DEF Ended
  <2>3. CASE healed \in Ended /\ phase' = healed /\ UNCHANGED <<deposited, row>>
    BY <1>21, <2>2, <2>3, ChainTypes DEF Restart
  <2>4. ASSUME NEW read \in {healed, PhaseOnChain[status]},
               phase' = IF read = "escrow_created" THEN "awaiting_deposits" ELSE read,
               deposited' \in {locked \cap Chain!Collaterals} \cup
                             (IF read = healed THEN {deposited} ELSE {}),
               UNCHANGED row \/ \E p \in {read, phase'} : Write(phaseToStatus[p])
        PROVE  Goal
    <3>1. read \in Phases /\ phase' \in Phases
      BY <2>1, <2>2, <2>4
    <3>2. row' \in Rows
      BY <2>4, <3>1, PhaseStatus, RowTypes
    <3>3. deposited' \in SUBSET Chain!Collaterals
      BY <2>4
    <3> QED BY <1>21, <3>1, <3>2, <3>3, ChainTypes DEF Restart
  <2>5. ASSUME NEW read \in {healed, PhaseOnChain[status]}
        PROVE  LET after == IF read = "escrow_created" THEN "awaiting_deposits" ELSE read
               IN  \A s \in {phaseToStatus[p] : p \in ({read} \ {healed}) \cup ({after} \ {read})} :
                      \E p \in {read, after} : s = phaseToStatus[p]
    OBVIOUS
  <2> QED BY <1>21, <2>3, <2>4, <2>5 DEF Restart
<1>22. ASSUME NEW t \in Deposits, Poll(t) PROVE Goal
  BY <1>2, <1>22, ChainTypes DEF Poll
<1> QED BY <1>1, <1>3, <1>4, <1>5, <1>6, <1>7, <1>8, <1>10, <1>11, <1>12, <1>13, <1>14, <1>15,
           <1>16, <1>17, <1>18, <1>19, <1>20, <1>21, <1>22, <1>23 DEF Next, Watching

-----------------------------------------------------------------------------
\* Nothing follows a refund on chain.
LEMMA ChainFinal ==
  ASSUME status \notin {"None", "Completed"},
         \/ \E t \in Deposits : Chain!Deposit(t)
         \/ Chain!Refund \/ Chain!Cancel \/ Chain!Expire
         \/ UNCHANGED status
  PROVE  status' \notin {"None", "Completed"} /\ (status = "Refunded" => status' = "Refunded")
<1>1. ASSUME NEW t \in Deposits, Chain!Deposit(t)
      PROVE  status # "Refunded" /\ status' \in {"Created", "CollateralLocked", "PaymentLocked"}
  BY <1>1 DEF Chain!Deposit
<1>2. CASE Chain!Refund \/ Chain!Cancel \/ Chain!Expire \/ UNCHANGED status
  BY <1>2 DEF Chain!Refund, Chain!Cancel, Chain!Expire
<1> QED BY <1>1, <1>2

LEMMA RowWritten ==
  ASSUME row \in Rows, NEW s, Write(s) \/ Settle(s)
  PROVE  row'.status = s
<1>1. CASE Write(s)
  BY <1>1 DEF Rows, Write
<1>2. CASE Settle(s)
  BY <1>2 DEF Rows, Settle
<1> QED BY <1>1, <1>2

\* A step keeps what the agent's records say of a refund: only a refund on chain, or what is
\* read from the chain, makes them say so, and nothing follows a refund there.
LEMMA RefundStep ==
  ASSUME IInv, Next
  PROVE  RefundInv'
<1> DEFINE Told == {row.status, phase}
<1> DEFINE Goal == RefundInv'
<1>c. /\ row \in Rows /\ watch \in Watches /\ confirm \in Confirms
      /\ phase \in {"escrow_created", "awaiting_deposits", "delivery", "refunded", "cancelled"}
      /\ status \notin {"None", "Completed"}
      /\ Chain!TypeOK /\ RefundInv
  BY DEF IInv, TypeOK, RefundInv
<1>k. ASSUME \/ \E t \in Deposits : Chain!Deposit(t)
             \/ Chain!Refund \/ Chain!Cancel \/ Chain!Expire \/ UNCHANGED status,
             "refunded" \in Told' => "refunded" \in Told \/ status' = "Refunded",
             watch'.at \in {"landed", "done"} =>
                 watch.at \in {"landed", "done"} \/ status' = "Refunded"
      PROVE  Goal
  <2>1. status' \notin {"None", "Completed"} /\ (status = "Refunded" => status' = "Refunded")
    BY <1>c, <1>k, ChainFinal
  <2> QED BY <1>c, <1>k, <2>1 DEF RefundInv, RefundedIsReal
<1>r. ASSUME NEW t, recordDeposit(t) PROVE "refunded" \in Told' => "refunded" \in Told
  <2>1. CASE transition("delivery")
    <3>1. row'.status = "payment_locked"
      BY <1>c, <2>1, RowWritten DEF transition, phaseToStatus
    <3> QED BY <2>1, <3>1 DEF transition
  <2>2. CASE UNCHANGED <<phase, row>>
    BY <2>2
  <2> QED BY <1>r, <2>1, <2>2 DEF recordDeposit, manager
<1> USE DEF chain, manager, depositing, world, process
<1>1. ASSUME NEW t \in Deposits, PartyDeposits(t) PROVE Goal
  BY <1>1, <1>k DEF PartyDeposits
<1>2. ASSUME NEW t \in Deposits, Poll(t) PROVE Goal
  BY <1>2, <1>k, <1>r DEF Poll
<1>3. ASSUME NEW t \in Deposits, ConfirmBegins(t) PROVE Goal
  BY <1>3, <1>k DEF ConfirmBegins
<1>4. CASE PartySettles \/ Due \/ Expire \/ NetFails \/ NetReturns
  BY <1>4, <1>k DEF PartySettles, Due, Expire, NetFails, NetReturns
<1>5. CASE advanceToAwaitingDeposits
  <2>1. row'.status = "collateral_locked" /\ phase' = "awaiting_deposits"
    BY <1>5, <1>c, RowWritten DEF advanceToAwaitingDeposits, transition, phaseToStatus
  <2> QED BY <1>5, <2>1, <1>k DEF advanceToAwaitingDeposits
<1>6. CASE ConfirmLands \/ ConfirmFails
  <2>1. confirm.type \in Deposits
    BY <1>c DEF Confirms
  <2> QED BY <1>6, <2>1, <1>k DEF ConfirmLands, ConfirmFails
<1>7. CASE ConfirmReads
  BY <1>7, <1>k DEF ConfirmReads
<1>8. CASE ConfirmWrites
  <2>1. row'.status \in {confirm.to, "failed"}
    BY <1>8, <1>c, RowWritten DEF ConfirmWrites
  <2>2. confirm.to # "refunded"
    BY <1>c DEF Confirms, Scanned
  <2> QED BY <1>8, <2>1, <2>2, <1>k DEF ConfirmWrites
<1>9. CASE ConfirmRecords
  <2>1. CASE recordDeposit(confirm.type)
    BY <1>9, <2>1, <1>r, <1>k DEF ConfirmRecords
  <2>2. CASE transition("delivery")
    <3>1. row'.status = "payment_locked"
      BY <1>c, <2>2, RowWritten DEF transition, phaseToStatus
    <3> QED BY <1>9, <2>2, <3>1, <1>k DEF transition, ConfirmRecords
  <2>3. CASE UNCHANGED <<phase, row>>
    BY <1>9, <2>3, <1>k DEF ConfirmRecords
  <2> QED BY <1>9, <2>1, <2>2, <2>3 DEF ConfirmRecords
<1>10. CASE Scan \/ Claim
  <2>1. row'.status = row.status /\ watch'.at \in {"claim", "handle"}
    BY <1>10, <1>c DEF Scan, Claim, Rows, Watches, Resting
  <2> QED BY <1>10, <2>1, <1>k DEF Scan, Claim
<1>11. CASE Handle
  <2>1. UNCHANGED row \/ row'.status = "expired"
    BY <1>11, <1>c, RowWritten DEF Handle
  <2>2. watch'.at \in {"idle", "attempt", "giveUp"}
    BY <1>11, <1>c DEF Handle, Watches, Resting
  <2> QED BY <1>11, <2>1, <2>2, <1>k DEF Handle
<1>12. CASE Attempt \/ RefundRefused
  <2>1. watch'.at \in {"send", "failing"}
    BY <1>12, <1>c DEF Attempt, RefundRefused, Watches
  <2> QED BY <1>12, <2>1, <1>k DEF Attempt, RefundRefused
<1>13. CASE RefundLands
  <2>1. status' = "Refunded"
    BY <1>13 DEF RefundLands, Chain!Refund
  <2> QED BY <1>13, <2>1, <1>k DEF RefundLands
<1>14. CASE RefundUnconfirmed
  <2>1. watch'.at \in {"send", "failing"}
    BY <1>14, <1>c DEF RefundUnconfirmed, Watches
  <2> QED BY <1>14, <2>1, <1>k DEF RefundUnconfirmed
<1>15. CASE RefundStored
  BY <1>15, <1>c, <1>k DEF RefundStored, RefundInv
<1>16. CASE RefundFailed
  <2>1. row'.status = "failed" /\ watch'.at \in {"attempt", "giveUp"}
    BY <1>16, <1>c, RowWritten DEF RefundFailed, Watches
  <2> QED BY <1>16, <2>1, <1>k DEF RefundFailed
<1>17. CASE Conclude
  <2>1. watch'.at = "idle" /\ (row'.status = "refunded" => watch.at = "done")
    BY <1>17, <1>c, RowWritten DEF Conclude, Resting
  <2> QED BY <1>17, <2>1, <1>c, <1>k DEF Conclude, RefundInv
<1>18. ASSUME NEW c \in Calls, CallBegins(c) \/ CallEnds(c) PROVE Goal
  BY <1>18, <1>k DEF CallBegins, CallEnds
<1>19. CASE TimePasses \/ beginShutdown
  BY <1>19, <1>k DEF TimePasses, beginShutdown
<1>20. CASE Stop
  BY <1>20, <1>k DEF Stop, Resting
<1>21. CASE Restart
  <2> DEFINE healed == IF phase \notin Ended /\ row.status \in Ended THEN row.status ELSE phase
  <2>1. healed = "refunded" => "refunded" \in Told
    OBVIOUS
  <2>2. PhaseOnChain[status] = "refunded" => status = "Refunded"
    BY <1>c DEF PhaseOnChain, Chain!TypeOK
  <2>3. PhaseOnChain[status] \in
            {"escrow_created", "awaiting_deposits", "delivery", "refunded", "cancelled"}
    BY <1>c DEF PhaseOnChain, Chain!TypeOK
  <2>4. CASE phase' = healed /\ UNCHANGED row
    BY <1>21, <2>1, <2>4, <1>k DEF Restart
  <2>5. ASSUME NEW read \in {healed, PhaseOnChain[status]},
               phase' = IF read = "escrow_created" THEN "awaiting_deposits" ELSE read,
               UNCHANGED row \/ \E p \in {read, phase'} : Write(phaseToStatus[p])
        PROVE  Goal
    <3>1. read = "refunded" => "refunded" \in Told \/ status = "Refunded"
      BY <2>1, <2>2
    <3>2. /\ read \in {"escrow_created", "awaiting_deposits", "delivery", "refunded", "cancelled"}
          /\ phase' \in {"escrow_created", "awaiting_deposits", "delivery", "refunded", "cancelled"}
          /\ phase' = "refunded" => read = "refunded"
      BY <2>3, <2>5, <1>c DEF Ended
    <3>3. row'.status = "refunded" => row.status = "refunded" \/ read = "refunded"
      BY <2>5, <3>2, <1>c, RowWritten, PhaseStatus
    <3> QED BY <1>21, <3>1, <3>2, <3>3, <1>k DEF Restart
  <2>6. ASSUME NEW read \in {healed, PhaseOnChain[status]}
        PROVE  LET after == IF read = "escrow_created" THEN "awaiting_deposits" ELSE read
               IN  \A s \in {phaseToStatus[p] : p \in ({read} \ {healed}) \cup ({after} \ {read})} :
                      \E p \in {read, after} : s = phaseToStatus[p]
    OBVIOUS
  <2> QED BY <1>21, <2>4, <2>5, <2>6 DEF Restart
<1> QED BY <1>1, <1>2, <1>3, <1>4, <1>5, <1>6, <1>7, <1>8, <1>9, <1>10, <1>11, <1>12, <1>13,
           <1>14, <1>15, <1>16, <1>17, <1>18, <1>19, <1>20, <1>21 DEF Next, Watching

-----------------------------------------------------------------------------
LEMMA Initially == Init => IInv
<1> SUFFICES ASSUME Init PROVE IInv
  OBVIOUS
<1>1. TypeOK
  <2>1. Resting \in Watches /\ Waiting \in Confirms
    BY WatchAssumption DEF Resting, Waiting, Watches, Confirms, Scanned, Deposits
  <2>2. scene \in Scenes /\ scene.outages \in Nat /\ scene.stops \in Nat
    BY WatchAssumption DEF Init
  <2>3. row \in Rows /\ Chain!TypeOK
    BY DEF Init, Rows, Statuses, Scanned, Chain!TypeOK
  <2>4. outages \in 0..scene.outages /\ stops \in 0..scene.stops
    BY <2>2 DEF Init
  <2>5. breaker \in Breakers
    BY FreshMarked DEF Init, Marked
  <2> QED BY <2>1, <2>2, <2>3, <2>4, <2>5 DEF Init, TypeOK
<1>2. BreakerInv
  BY FreshMarked DEF Init, BreakerInv, Marked
<1>3. RefundInv
  BY DEF Init, RefundInv, RefundedIsReal, Resting
<1> QED BY <1>1, <1>2, <1>3 DEF IInv

LEMMA Invariant == Spec => []IInv
<1>1. IInv /\ [Next]_vars => IInv'
  <2> SUFFICES ASSUME IInv, [Next]_vars PROVE IInv'
    OBVIOUS
  <2>1. CASE Next
    BY <2>1, TypeStep, BreakerStep, RefundStep DEF IInv
  <2>2. CASE UNCHANGED vars
    BY <2>2 DEF vars, chain, manager, depositing, world, process, IInv, TypeOK, Chain!TypeOK,
       BreakerInv, InFlight, RefundInv, RefundedIsReal
  <2> QED BY <2>1, <2>2
<1> QED BY <1>1, Initially, PTL DEF Spec

\* The variables of the watcher, the manager, the confirmations and the breaker have their types.
THEOREM TypeCorrect == Spec => []TypeOK
<1>1. IInv => TypeOK
  BY DEF IInv
<1> QED BY <1>1, Invariant, PTL

\* circuitBreaker: the probe the agent waits for is always in flight, for any calls, nested or
\* overlapping, and any thresholds; a breaker that is half open is never stuck by a lost mark.
THEOREM ProbesAreAwaited == Spec => []ProbeInFlight
<1>1. IInv => ProbeInFlight
  BY DEF IInv, BreakerInv, ProbeInFlight
<1> QED BY <1>1, Invariant, PTL

\* dealTimeoutWatcher: no record of the agent says a deal is refunded that is not.
THEOREM RefundsAreReal == Spec => []RefundedIsReal
<1>1. IInv => RefundedIsReal
  BY DEF IInv, RefundInv
<1> QED BY <1>1, Invariant, PTL
=============================================================================
