------------------------------ MODULE DealPhase ------------------------------
(***************************************************************************)
(* The deal phase manager of the middleman agent: the phase of one deal in *)
(* memory, its row in the database, the escrow it stands for, and the jobs *)
(* that act on the escrow.  Handlers wait for the database and for the AI  *)
(* judge; writes of the row are not waited for; the agent crashes and      *)
(* recovers.  The escrow is EscrowView, which the program implements.      *)
(***************************************************************************)
EXTENDS EscrowTerms, FiniteSets

CONSTANTS Scenes,      \* bounds: [crashes, judges: disputes before the judge at one time,
                       \* expires: whether the deadline may pass]
          Absent       \* no deal in memory

VARIABLES
    onchain, flags, late,   \* the escrow: EscrowView's status, locked, late
    made,           \* create_deal has landed; one escrow per ticket
    deal,           \* the DealState in memory, or Absent
    row,            \* the DealPhaseState row
    rowFixed,       \* what the next crash finds of the row is sent already
    status,         \* Deal.status; "open" stands for every status recovery ignores
    statusFixed,    \* what it finds of Deal.status is sent already
    record,         \* the release_funds row of the execution store
    jobs,           \* execution in progress, by the step it has reached
    pending,        \* handlers past their guard, waiting for the database
    judging,        \* disputes before the judge
    up,             \* the agent runs
    crashes,
    scene,          \* the bounds of this behaviour
    authorities     \* who has authorised a release: the buyer, the judge

chain == <<onchain, flags, late, made>>
rows == <<row, rowFixed>>
statuses == <<status, statusFixed>>
db == <<row, rowFixed, status, statusFixed>>
work == <<jobs, pending, judging>>
agent == <<up, crashes, scene>>
vars == <<onchain, flags, late, made, deal, row, rowFixed, status, statusFixed, record, jobs, pending, judging,
          up, crashes, scene, authorities>>

Chain == INSTANCE EscrowView WITH status <- onchain, locked <- flags

-----------------------------------------------------------------------------
Phases == {"negotiation", "escrow_created", "awaiting_deposits", "delivery",
           "awaiting_release", "completed", "disputed", "cancelled", "refunded"}
TerminalPhases == {"completed", "cancelled", "refunded"}
ReleasePhases == {"delivery", "awaiting_release"}
Parties == {"buyer", "seller"}

\* A DealState; releases keeps what the history says of RELEASE_FUNDS: a step of the
\* buyer from a release phase, or any other.
DealStates == [phase : Phases, pda : BOOLEAN, deposited : SUBSET Parties, paid : BOOLEAN,
               releases : SUBSET {"buyer", "other"}]
Fresh == [phase |-> "negotiation", pda |-> FALSE, deposited |-> {}, paid |-> FALSE,
          releases |-> {}]
At(d, phase) == [d EXCEPT !.phase = phase]

ASSUME PhaseAssumption ==
    /\ Scenes \subseteq [crashes : Nat, judges : Nat, expires : BOOLEAN]
    /\ Absent \notin DealStates

\* phaseToStatus, and the healing map of recovery.
StatusUnmapped(phase) == phase   \* mutant: no mapping
StatusTooEarly(phase) ==         \* mutant: an accepted release counts as completed
    IF phase = "awaiting_release" THEN "completed"
    ELSE IF phase \in TerminalPhases \cup {"disputed"} THEN phase ELSE "open"
StatusOf(phase) ==
    IF phase \in TerminalPhases \cup {"disputed"} THEN phase ELSE "open"
Healing == TerminalPhases \cup {"disputed"}

\* What reconcileDealWithChain makes of a deal: the phase and the flags of the account,
\* or nothing when the account cannot be read.
PhaseOnChainEager ==   \* mutant: a created escrow is taken for a funded one
    [Created |-> "delivery", CollateralLocked |-> "delivery", PaymentLocked |-> "delivery",
     Completed |-> "completed", Refunded |-> "refunded", Cancelled |-> "cancelled"]
PhaseOnChain ==
    [Created |-> "escrow_created", CollateralLocked |-> "delivery", PaymentLocked |-> "delivery",
     Completed |-> "completed", Refunded |-> "refunded", Cancelled |-> "cancelled"]
DepositedOnChain ==
    {p \in Parties : (IF p = "buyer" THEN "BuyerCollateral" ELSE "SellerCollateral") \in flags}
Reconciled(d) ==
    {d} \cup
    (IF d.pda /\ onchain # "None"
     THEN {[d EXCEPT !.phase = PhaseOnChain[onchain], !.deposited = DepositedOnChain,
                     !.paid = Chain!Live /\ "BuyerPayment" \in flags]}
     ELSE {})

Init ==
    /\ scene \in Scenes
    /\ Chain!Init
    /\ made = FALSE
    /\ deal = Fresh
    /\ row = Fresh
    /\ rowFixed \in {FALSE, scene.crashes > 0}
    /\ status = "none"
    /\ statusFixed = FALSE
    /\ record = "none"
    /\ jobs = {}
    /\ pending = {}
    /\ judging = 0
    /\ up = TRUE
    /\ crashes = 0
    /\ authorities = {}

-----------------------------------------------------------------------------
\* Writes are not waited for: they land in any order, or are lost with a crash.  They
\* are read back only after a crash, which finds any of those sent before it.  So each
\* write may be declared, if a crash is still to come, to be the one it finds.
Declared == {FALSE, crashes < scene.crashes}
Store(d, earlier) ==
    IF rowFixed THEN UNCHANGED rows
    ELSE \/ row' = d /\ rowFixed' \in Declared
         \/ row' \in earlier /\ crashes < scene.crashes /\ rowFixed' = TRUE
\* updateStatus does nothing while there is no Deal row.
Mark(s) ==
    IF status = "none" \/ statusFixed THEN UNCHANGED statuses
    ELSE status' = s /\ statusFixed' \in Declared

\* transition
Transition(d, phase) ==
    /\ deal' = At(d, phase)
    /\ Store(At(d, phase), {})
    /\ Mark(StatusOf(phase))

RecordedHalf(d, party) ==   \* mutant: one deposit is enough
    IF ~d.pda \/ d.phase \notin {"awaiting_deposits", "delivery"} THEN d
    ELSE [d EXCEPT !.deposited = @ \cup {party}, !.paid = TRUE, !.phase = "delivery"]
\* recordDeposit: nothing without an escrow or outside the deposit phases.
Recorded(d, party) ==
    LET given == [d EXCEPT !.deposited = @ \cup {party}]
        full == given.deposited = Parties
    IN  IF ~d.pda \/ d.phase \notin {"awaiting_deposits", "delivery"}
               \/ (party \in d.deposited /\ ~(full /\ d.phase # "delivery"))
        THEN d
        ELSE IF full THEN [given EXCEPT !.paid = TRUE, !.phase = "delivery"] ELSE given
RecordDeposit(party) ==
    LET after == Recorded(deal, party)
        given == [deal EXCEPT !.deposited = @ \cup {party}]
    IN  /\ deal' = after
        /\ IF after.phase = deal.phase
           THEN /\ IF after = deal THEN UNCHANGED rows ELSE Store(given, {})
                /\ UNCHANGED statuses
           ELSE Store(after, {given}) /\ Mark("open")

-----------------------------------------------------------------------------
\* Handlers.  One that waits between its guard and its effect is two actions.

\* getDealWithFallback: the row, reconciled with the chain.
LoadDeal ==
    /\ up /\ deal = Absent
    /\ \E d \in Reconciled(row) :
           /\ deal' = d
           /\ Store(d, {})
           /\ IF d.phase = row.phase THEN UNCHANGED statuses ELSE Mark(StatusOf(d.phase))
    /\ UNCHANGED <<chain, record, work, agent, authorities>>

\* handleAction for a deal that is not in memory: initDeal.
SelfHeal ==
    /\ up /\ deal = Absent
    /\ deal' = Fresh
    /\ Store(Fresh, {})
    /\ UNCHANGED <<chain, statuses, record, work, agent, authorities>>

\* handleCreateEscrow, to dealTracker.initDeal and after it.
AskCreate ==
    /\ up /\ deal # Absent
    /\ deal.phase = "negotiation"
    /\ pending' = pending \cup {"create"}
    /\ UNCHANGED <<chain, deal, db, record, jobs, judging, agent, authorities>>
CreateEscrow ==
    /\ "create" \in pending
    /\ deal' = At(deal, "escrow_created")
    /\ Store(deal', {})
    /\ IF statusFixed THEN UNCHANGED statuses ELSE status' = "open" /\ statusFixed' \in Declared
    /\ pending' = pending \ {"create"}
    /\ jobs' = jobs \cup {"create"}
    /\ UNCHANGED <<chain, record, judging, agent, authorities>>

\* executeDeal for terms agreed in a rollup: no handler has run.
StartPipeline ==
    /\ up /\ ~made
    /\ jobs' = jobs \cup {"create"}
    /\ UNCHANGED <<chain, deal, db, record, pending, judging, agent, authorities>>

\* handleReleaseFunds, to identitiesMatch and after it; the phase is not read again.
AskRelease ==
    /\ up /\ deal # Absent
    /\ deal.phase \in ReleasePhases
    /\ pending' = pending \cup {"release"}
    /\ UNCHANGED <<chain, deal, db, record, jobs, judging, agent, authorities>>
Releasable(d) == d.deposited = Parties /\ d.paid
AcceptReleaseCompleted ==   \* mutant: completed before the funds are out
    LET after == [At(deal, "completed") EXCEPT !.releases = @ \cup {"buyer"}]
    IN  /\ "release" \in pending
        /\ Releasable(deal)
        /\ deal' = after /\ Store(after, {}) /\ Mark("open")
        /\ pending' = pending \ {"release"}
        /\ jobs' = jobs \cup {"release"}
        /\ authorities' = authorities \cup {"buyer"}
        /\ UNCHANGED <<chain, record, judging, agent>>
AcceptRelease ==
    LET step == IF deal.phase = "delivery" THEN "buyer" ELSE "other"
        after == [At(deal, "awaiting_release") EXCEPT !.releases = @ \cup {step}]
    IN  /\ "release" \in pending
        /\ Releasable(deal)
        /\ IF deal.phase = "awaiting_release"
           THEN UNCHANGED <<deal, db>>
           ELSE deal' = after /\ Store(after, {}) /\ Mark(StatusOf("awaiting_release"))
        /\ pending' = pending \ {"release"}
        /\ jobs' = jobs \cup {"release"}
        /\ authorities' = authorities \cup {"buyer"}
        /\ UNCHANGED <<chain, record, judging, agent>>
RefuseRelease ==
    /\ "release" \in pending
    /\ pending' = pending \ {"release"}
    /\ UNCHANGED <<chain, deal, db, record, jobs, judging, agent, authorities>>

\* handleDispute, to adjudicateDispute; a disputed deal can be disputed again.
Dispute ==
    /\ up /\ deal # Absent
    /\ deal.phase \notin TerminalPhases \cup {"negotiation"}
    /\ judging < scene.judges
    /\ Transition(deal, "disputed")
    /\ judging' = judging + 1
    /\ UNCHANGED <<chain, record, jobs, pending, agent, authorities>>
\* The verdict is applied to whatever phase the deal is in by then.
Verdict(job) ==
    LET after == [deal EXCEPT !.phase = IF job = "cancel" THEN "cancelled" ELSE "completed",
                              !.releases = IF job = "release" THEN @ \cup {"other"} ELSE @]
    IN  /\ judging > 0
        /\ judging' = judging - 1
        /\ deal' = after
        /\ Store(after, {})
        /\ Mark(StatusOf(after.phase))
        /\ jobs' = jobs \cup {job}
        /\ authorities' = IF job = "cancel" THEN authorities ELSE authorities \cup {"judge"}
        /\ UNCHANGED <<chain, record, pending, agent>>

\* handleCancel
Cancel ==
    /\ up /\ deal # Absent
    /\ deal.phase \notin TerminalPhases
    /\ Transition(deal, "cancelled")
    /\ jobs' = IF deal.phase = "negotiation" THEN jobs ELSE jobs \cup {"cancel"}
    /\ UNCHANGED <<chain, record, pending, judging, agent, authorities>>

\* advanceToAwaitingDeposits, by the activation or by the heartbeat.
Advance ==
    /\ up /\ deal # Absent
    /\ deal.phase = "escrow_created" /\ deal.pda
    /\ Transition(deal, "awaiting_deposits")
    /\ UNCHANGED <<chain, record, work, agent, authorities>>

\* syncTerminalPhaseFromExecutionStatus, but for Deal.status
Synced(d, phase) == [d EXCEPT !.phase = phase, !.paid = @ /\ phase \notin TerminalPhases]
Sync(phase) ==
    /\ deal' = Synced(deal, phase)
    /\ Store(deal', {})

-----------------------------------------------------------------------------
\* Execution.  create_deal, then activateStandardEscrowLifecycle.
CreateLands ==
    /\ "create" \in jobs /\ ~made
    /\ Chain!Create
    /\ made' = TRUE
    /\ IF statusFixed THEN UNCHANGED statuses ELSE status' = "open" /\ statusFixed' \in Declared
    /\ jobs' = (jobs \ {"create"}) \cup {"activate"}
    /\ UNCHANGED <<deal, rows, record, pending, judging, agent, authorities>>
CreateFails ==
    /\ "create" \in jobs /\ ~made
    /\ deal # Absent /\ Sync("disputed")
    /\ Mark("disputed")
    /\ jobs' = jobs \ {"create"}
    /\ UNCHANGED <<chain, record, pending, judging, agent, authorities>>
CreateSkipped ==
    /\ "create" \in jobs /\ made
    /\ jobs' = jobs \ {"create"}
    /\ UNCHANGED <<chain, deal, db, record, pending, judging, agent, authorities>>
Activate ==
    LET open == IF deal.phase = "negotiation" THEN At(deal, "escrow_created") ELSE deal
        after == [open EXCEPT !.pda = TRUE]
    IN  /\ "activate" \in jobs /\ deal # Absent
        /\ deal' = after
        /\ Store(after, {deal, open})
        /\ Mark("open")
        /\ jobs' = jobs \ {"activate"}
        /\ UNCHANGED <<chain, record, pending, judging, agent, authorities>>

\* The parties deposit with lock_*, or the agent confirms what they sent.  One
\* confirmation at a time is in progress; the deposit is recorded when it has succeeded.
PartyDeposits(d) ==
    /\ Chain!Deposit(d)
    /\ UNCHANGED <<made, deal, db, record, work, agent, authorities>>
ConfirmDeposit(d) ==
    /\ up /\ made /\ jobs \cap Deposits = {}
    /\ Chain!Deposit(d)
    /\ Mark("open")
    /\ jobs' = jobs \cup {d}
    /\ UNCHANGED <<made, deal, rows, record, pending, judging, agent, authorities>>
ConfirmFails ==
    /\ up /\ made /\ jobs \cap Deposits = {}
    /\ Mark("open")
    /\ UNCHANGED <<chain, deal, rows, record, work, agent, authorities>>

\* handleDepositReceived, after a confirmation that succeeded.
RecordPayment(progress) ==
    LET paid == [deal EXCEPT !.paid = TRUE]
        moves == progress /\ deal.phase = "awaiting_deposits"
    IN  /\ deal' = IF moves THEN At(paid, "delivery") ELSE paid
        /\ Store(deal', {paid})
        /\ IF moves THEN Mark("open") ELSE UNCHANGED statuses
Record(d) ==
    /\ d \in jobs
    /\ jobs' = jobs \ {d}
    /\ IF deal = Absent THEN UNCHANGED <<deal, db>>
       ELSE IF d = "BuyerPayment" THEN RecordPayment(TRUE)
       ELSE RecordDeposit(IF d = "BuyerCollateral" THEN "buyer" ELSE "seller")
    /\ UNCHANGED <<chain, record, pending, judging, agent, authorities>>
RecordUnread(d) ==   \* mutant: the flag is not looked at
    /\ up /\ deal # Absent
    /\ IF d = "BuyerPayment" THEN RecordPayment(FALSE)
       ELSE RecordDeposit(IF d = "BuyerCollateral" THEN "buyer" ELSE "seller")
    /\ UNCHANGED <<chain, record, work, agent, authorities>>
\* markProgramStateDeposit: the watcher reads the flag of the account.
RecordFromProgram(d) ==
    /\ up /\ deal # Absent
    /\ d \in flags
    /\ IF d = "BuyerPayment" THEN RecordPayment(FALSE)
       ELSE RecordDeposit(IF d = "BuyerCollateral" THEN "buyer" ELSE "seller")
    /\ UNCHANGED <<chain, record, work, agent, authorities>>

\* executeRelease: beginExecution, release_funds, what is stored of it, close_deal, and
\* the deal_executed event.  executeFractionalSplit and executeCancelDeal have neither
\* the first nor the last two.
BeginRelease ==
    /\ "release" \in jobs
    /\ IF record \in {"pending", "confirmed"}
       THEN jobs' = jobs \ {"release"} /\ UNCHANGED record
       ELSE jobs' = (jobs \ {"release"}) \cup {"releasing"} /\ record' = "pending"
    /\ UNCHANGED <<chain, deal, db, pending, judging, agent, authorities>>
ReleaseLands ==
    /\ "releasing" \in jobs
    /\ Chain!Release
    /\ jobs' = (jobs \ {"releasing"}) \cup {"released"}
    /\ UNCHANGED <<made, deal, db, record, pending, judging, agent, authorities>>
\* Refused by the program, or reported as failed after it has landed.
ReleaseFails ==
    /\ {"releasing", "released"} \cap jobs # {}
    /\ jobs' = jobs \ {"releasing", "released"}
    /\ Mark("open")
    /\ record' = "failed"
    /\ UNCHANGED <<chain, deal, rows, pending, judging, agent, authorities>>
ReleaseStored ==
    /\ "released" \in jobs
    /\ jobs' = (jobs \ {"released"}) \cup {"close"}
    /\ Mark("completed")
    /\ record' = "confirmed"
    /\ UNCHANGED <<chain, deal, rows, pending, judging, agent, authorities>>
\* A close that fails is logged, and the release counts as executed all the same.
CloseEscrow ==
    /\ "close" \in jobs
    /\ (Chain!Close /\ UNCHANGED made) \/ UNCHANGED chain
    /\ Mark("open")
    /\ jobs' = (jobs \ {"close"}) \cup {"publish"}
    /\ UNCHANGED <<deal, rows, record, pending, judging, agent, authorities>>
\* verifyOnChainState reads a status from before the release: reported as failed.
ReleaseUnseen ==
    /\ "close" \in jobs
    /\ Mark("open")
    /\ jobs' = jobs \ {"close"}
    /\ UNCHANGED <<chain, deal, rows, record, pending, judging, agent, authorities>>
PublishExecuted ==
    /\ "publish" \in jobs /\ deal # Absent
    /\ Sync("completed")
    /\ Mark("completed")
    /\ jobs' = jobs \ {"publish"}
    /\ UNCHANGED <<chain, record, pending, judging, agent, authorities>>

JudgedLands(j) ==
    /\ j \in jobs
    /\ \/ j = "split" /\ Chain!Release /\ (Mark("completed") \/ Mark("open"))
       \/ j = "cancel" /\ Chain!Cancel /\ (Mark("cancelled") \/ Mark("open"))
    /\ jobs' = jobs \ {j}
    /\ UNCHANGED <<made, deal, rows, record, pending, judging, agent, authorities>>
JudgedFails(j) ==
    /\ j \in jobs
    /\ Mark("open")
    /\ jobs' = jobs \ {j}
    /\ UNCHANGED <<chain, deal, rows, record, pending, judging, agent, authorities>>

\* What others do to the escrow: a party cancels before both collaterals are in, anyone
\* refunds a deal that is late (the timeout watcher of the agent stores it, a party does
\* not), a party closes the account.
PartyCancels ==
    /\ onchain = "Created" /\ Chain!Cancel
    /\ UNCHANGED <<made, deal, db, record, work, agent, authorities>>
RefundLands ==
    /\ Chain!Refund
    /\ Mark("refunded") \/ UNCHANGED statuses
    /\ UNCHANGED <<made, deal, rows, record, work, agent, authorities>>
PartyCloses ==
    /\ Chain!Close
    /\ UNCHANGED <<made, deal, db, record, work, agent, authorities>>
Expire ==
    /\ scene.expires
    /\ Chain!Expire
    /\ UNCHANGED <<made, deal, db, record, work, agent, authorities>>

-----------------------------------------------------------------------------
Crash ==
    /\ up /\ crashes < scene.crashes
    /\ up' = FALSE
    /\ crashes' = crashes + 1
    /\ deal' = Absent
    /\ rowFixed' = FALSE /\ statusFixed' = FALSE
    /\ jobs' = {} /\ pending' = {} /\ judging' = 0
    /\ UNCHANGED <<chain, row, status, record, scene, authorities>>

\* recoverInFlightDeals, in its order: heal the row from Deal.status, clear the payment
\* lock of a terminal row, load what is not terminal and what looks completed too early,
\* advance a created escrow, and retry the release the buyer has authorised.
ReleaseAssumed(d) == d.deposited = Parties   \* mutant: deposits are enough
hasBuyerReleaseAuthorization(d) == "buyer" \in d.releases
HealedRow ==
    LET healed == IF row.phase \notin TerminalPhases /\ status \in Healing
                  THEN At(row, status) ELSE row
    IN  [healed EXCEPT !.paid = @ /\ healed.phase \notin TerminalPhases]
Retried(d) ==
    IF d.phase \in ReleasePhases /\ hasBuyerReleaseAuthorization(d) THEN {"release"} ELSE {}
Recover ==
    /\ ~up
    /\ up' = TRUE
    /\ \/ /\ HealedRow.phase \in TerminalPhases
          /\ ~(HealedRow.phase = "completed" /\ HealedRow.pda /\ HealedRow.releases # {})
          /\ row' = HealedRow /\ rowFixed' \in Declared
          /\ statusFixed' \in Declared
          /\ UNCHANGED <<deal, status, jobs>>
       \/ /\ \/ HealedRow.phase \notin TerminalPhases
             \/ HealedRow.phase = "completed" /\ HealedRow.pda /\ HealedRow.releases # {}
          /\ \E d \in Reconciled(HealedRow) :
                 LET ready == d.phase = "escrow_created" /\ d.pda
                     after == IF ready THEN At(d, "awaiting_deposits") ELSE d
                 IN  /\ deal' = after
                     /\ \/ row' = after /\ rowFixed' \in Declared
                        \/ row' = d /\ crashes < scene.crashes /\ rowFixed' = TRUE
                     /\ IF after.phase = HealedRow.phase THEN UNCHANGED statuses
                        ELSE Mark(StatusOf(after.phase))
                     /\ jobs' = Retried(after)
    /\ UNCHANGED <<chain, record, pending, judging, crashes, scene, authorities>>

Next ==
    \/ LoadDeal \/ SelfHeal
    \/ AskCreate \/ CreateEscrow \/ StartPipeline
    \/ AskRelease \/ AcceptRelease \/ RefuseRelease
    \/ Dispute \/ (\E job \in {"cancel", "split", "release"} : Verdict(job))
    \/ Cancel \/ Advance
    \/ CreateLands \/ CreateFails \/ CreateSkipped \/ Activate
    \/ (\E d \in Deposits : \/ PartyDeposits(d) \/ ConfirmDeposit(d)
                            \/ Record(d) \/ RecordFromProgram(d))
    \/ ConfirmFails
    \/ BeginRelease \/ ReleaseLands \/ ReleaseFails \/ ReleaseStored
    \/ CloseEscrow \/ ReleaseUnseen \/ PublishExecuted
    \/ (\E j \in {"split", "cancel"} : JudgedLands(j) \/ JudgedFails(j))
    \/ PartyCancels \/ RefundLands \/ PartyCloses \/ Expire
    \/ Crash \/ Recover

Spec == Init /\ [][Next]_vars

-----------------------------------------------------------------------------
Known == {row} \cup (IF deal = Absent THEN {} ELSE {deal})
Gone == made /\ onchain = "None"

\* Every variable has its type.
TypeOK ==
    /\ Chain!TypeOK /\ made \in BOOLEAN
    /\ deal \in DealStates \cup {Absent} /\ row \in DealStates
    /\ status \in {"none", "open"} \cup Healing
    /\ rowFixed \in BOOLEAN /\ statusFixed \in BOOLEAN
    /\ record \in {"none", "pending", "failed", "confirmed"}
    /\ jobs \subseteq {"create", "activate", "release", "releasing", "released", "close",
                       "publish", "split", "cancel"} \cup Deposits
    /\ pending \subseteq {"create", "release"}
    /\ scene \in Scenes
    /\ judging \in 0..scene.judges /\ crashes \in 0..scene.crashes /\ up \in BOOLEAN
    /\ authorities \subseteq {"buyer", "judge"}
    /\ ~up => deal = Absent /\ jobs = {} /\ pending = {} /\ judging = 0

\* A collateral the agent counts, in memory or in the database, is flagged by the program
\* (until the account is closed): whatever is retried, reordered, lost or recovered, no
\* deposit is made up.
DepositsConfirmed ==
    \A d \in Known : \A p \in d.deposited :
        Gone \/ (IF p = "buyer" THEN "BuyerCollateral" ELSE "SellerCollateral") \in flags

\* A deal is in delivery, where the seller hands over the goods, only when both
\* collaterals are locked: both deposit paths and the recovery reach it, and a stale
\* phase must not bring it back.
DeliveryFunded ==
    \A d \in Known : d.phase \in ReleasePhases =>
        Gone \/ (Chain!Collaterals \subseteq flags /\ d.pda)

\* "No Unauthorized Release": the program pays the seller only after the buyer's release
\* was accepted or the judge ruled so; the retry of the recovery too rests on one of them.
ReleaseAuthorized == onchain = "Completed" => authorities # {}

\* A deal shows as completed, unless by a verdict, only when the escrow has paid: the
\* buyer's release passes through awaiting_release, and recovery heals to completed only
\* what was executed.
CompletedIsPaid ==
    \A d \in Known : d.phase = "completed" =>
        Gone \/ onchain = "Completed" \/ "judge" \in authorities

\* "Retry buyer-authorized releases that failed": a release is turned away as a duplicate
\* only when another is at work or the funds are out.
RetryRuns ==
    [][ ("release" \in jobs /\ up' /\ jobs' = jobs \ {"release"})
            => onchain # "PaymentLocked" \/ "releasing" \in jobs ]_vars
=============================================================================
