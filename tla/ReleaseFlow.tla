----------------------------- MODULE ReleaseFlow -----------------------------
(***************************************************************************)
(* The release of one confidential ticket, as the middleman's agent drives *)
(* it once both parties have funded the deal: the settlement is prepared,  *)
(* the parties are asked to approve its plan, the buyer to confirm the     *)
(* release, and after the seller's time to object the release is           *)
(* authorized, signed and executed.                                        *)
(*                                                                         *)
(* The agent is a set of asynchronous calls, each a record that says where *)
(* the call is waiting; between two awaits a call is one step.  What they  *)
(* share is the snapshot in the audit log, the stage rows of the pipeline  *)
(* and the chain.  A timer, the event bus and the calls die with the       *)
(* process; the database does not.                                         *)
(***************************************************************************)
EXTENDS Sequences, FiniteSets, Naturals

CONSTANTS Slots,        \* calls of this ticket that may be in progress at once (bound)
          MaxMessages,  \* of the parties (bound)
          Troubles      \* what may go wrong, once: subset of {"fault", "crash", "repeat"}

Parties == {"buyer", "seller"}

ASSUME FlowAssumption ==
    /\ Slots # {}
    /\ MaxMessages \in Nat
    /\ Troubles \subseteq {"fault", "crash", "repeat"}

VARIABLES
    state, nonce, approved, confirmed, window, authorized, executed,   \* the deal on chain
    funded,      \* parties whose funding is recorded
    store,       \* the latest ReleaseApprovalStateSnapshot
    stages,      \* the pipeline's stage rows, in the order of their creation
    tracked,     \* what the deal tracker was told at the end
    calls,
    timer,       \* authorizationTimers has an entry
    late,        \* the snapshot's sellerDisputeDeadlineAt has passed
    boot,        \* how far start-up is; the escrow listener is there at "ready"
    messages,    \* received so far
    trouble,     \* what has gone wrong
    objected     \* a party has sent a revocation or a dispute

chain == <<state, nonce, approved, confirmed, window, authorized, executed>>
rows == <<store, stages, tracked, funded>>
process == <<calls, timer, boot>>
history == <<messages, trouble, objected>>
vars == <<chain, rows, process, late, history>>

Deal == INSTANCE ReleaseView WITH Nonces <- 1..3

-----------------------------------------------------------------------------
\* The snapshot.

NoSnapshot == [exists |-> FALSE]

\* nonce is that of a party's approval record, 0 when there is none; request is the
\* nonce of buyerReleaseRequest, confirmation that of buyerReleaseConfirmation.
Requested ==
    [exists |-> TRUE, active |-> [p \in Parties |-> FALSE], nonce |-> [p \in Parties |-> 0],
     request |-> 0, confirmation |-> 0, planApproved |-> FALSE, releaseConfirmed |-> FALSE,
     deadline |-> FALSE, disputeOpen |-> FALSE, releaseAuthorized |-> FALSE,
     releaseSigned |-> FALSE, releaseExecuted |-> FALSE]

Snapshots ==
    [exists : {TRUE}, active : [Parties -> BOOLEAN], nonce : [Parties -> Nat], request : Nat,
     confirmation : Nat, planApproved : BOOLEAN, releaseConfirmed : BOOLEAN,
     deadline : BOOLEAN, disputeOpen : BOOLEAN, releaseAuthorized : BOOLEAN,
     releaseSigned : BOOLEAN, releaseExecuted : BOOLEAN]

BothActive(s) == \A p \in Parties : s.active[p]

\* Mutant: the confirmation is asked for with the nonce of the approval.
nextRoleNonceReused(s, p) == s.nonce[p]
nextRoleNonce(s, p) ==
    1 + IF p = "buyer" /\ s.confirmation > s.nonce[p] THEN s.confirmation ELSE s.nonce[p]

recordApproval(s, p, n) ==
    LET new == [s EXCEPT !.active[p] = TRUE, !.nonce[p] = n]
    IN  [new EXCEPT !.planApproved = BothActive(new)]

Withdrawn(s, p, n) ==
    [s EXCEPT !.active[p] = FALSE, !.nonce[p] = n, !.request = 0, !.confirmation = 0,
              !.planApproved = FALSE, !.releaseConfirmed = FALSE, !.deadline = FALSE,
              !.releaseAuthorized = FALSE]
markRevoked(s, p, n) == Withdrawn(s, p, n)
markDispute(s, p, n) == [Withdrawn(s, p, n) EXCEPT !.disputeOpen = TRUE]

markBuyerReleaseConfirmed(s, n) ==
    [s EXCEPT !.active["buyer"] = TRUE, !.nonce["buyer"] = n, !.confirmation = n,
              !.planApproved = s.active["seller"], !.releaseConfirmed = TRUE,
              !.deadline = TRUE, !.releaseAuthorized = FALSE]

Recorded(s, c) ==
    CASE c.kind = "approve" -> recordApproval(s, c.party, c.nonce)
      [] c.kind = "confirm" -> markBuyerReleaseConfirmed(s, c.nonce)
      [] c.kind = "revoke"  -> markRevoked(s, c.party, c.nonce)
      [] c.kind = "dispute" -> markDispute(s, c.party, c.nonce)

-----------------------------------------------------------------------------
\* Calls and stages.  A call says where it is and who started it; one that publishes a
\* stage, which, and where it goes next; one that brings a payload, what was signed.

Stages ==
    {"escrow_created", "awaiting_settlement_plan_approvals",
     "awaiting_buyer_release_confirmation", "seller_dispute_window", "release_authorized",
     "release_signed", "release_pending", "settled", "failed"}
Steps ==
    {"prepare", "initialize", "track_awaiting", "mark", "read", "approve", "sign", "signed",
     "released", "execute", "executed", "settle", "track"}
Starters == {"listener", "message", "timer", "recovery"}
Kinds == {"approve", "confirm", "revoke", "dispute"}

Idle == [at |-> "idle"]
Calls ==
    {Idle} \cup [at : Steps, by : Starters]
    \cup [at : {"publish"}, by : Starters, stage : Stages,
          next : {"end", "track_awaiting", "approve", "signed", "settle"}]
    \cup [at : {"send", "record"}, by : {"message"}, party : Parties, kind : Kinds, nonce : Nat]
    \cup [at : {"attach"}, by : {"message"}, nonce : Nat]

At(w, place) == calls[w].at = place
Free == {w \in Slots : At(w, "idle")}

Goes(w, call) == calls' = [calls EXCEPT ![w] = call]
Starts(call) == Free # {} /\ Goes(CHOOSE w \in Free : TRUE, call)
Moves(w, place) == Goes(w, [at |-> place, by |-> calls[w].by])

\* The start-up recovery goes on when its call has ended.
Ends(w) ==
    /\ Goes(w, Idle)
    /\ boot' = IF calls[w].by = "recovery" THEN "finalize" ELSE boot

\* The call publishes a stage, and is then at another place.
Publishing(w, row, next) == [at |-> "publish", by |-> calls[w].by, stage |-> row, next |-> next]
PublishesLast(w, row) == Goes(w, Publishing(w, row, "end"))

\* upsertStage: a stage entered again keeps its row, with its createdAt.
MarkedAgain(row) == Append(stages, row)   \* mutant: a row for every entry
Marked(row) == IF \E i \in DOMAIN stages : stages[i] = row THEN stages ELSE Append(stages, row)
getLatestStage == stages[Len(stages)]

\* publishStage
PublishStage(w) ==
    /\ At(w, "publish")
    /\ stages' = Marked(calls[w].stage)
    /\ IF calls[w].next = "end" THEN Ends(w)
       ELSE Moves(w, calls[w].next) /\ UNCHANGED boot
    /\ UNCHANGED <<chain, store, tracked, funded, timer, late, history>>

Trouble(t) ==
    /\ t \in Troubles
    /\ trouble = "none"
    /\ trouble' = t

-----------------------------------------------------------------------------
\* Funding.  A party's transactions are verified on chain before this.

\* processAgentSubmission publishes confidential_funding_completed whenever both
\* fundings are recorded, for a repeated submission too.
ProcessAgentSubmission(p) ==
    /\ boot = "ready"
    /\ IF p \in funded THEN Trouble("repeat") ELSE UNCHANGED trouble
    /\ funded' = funded \cup {p}
    /\ IF funded' = Parties THEN Starts([at |-> "prepare", by |-> "listener"])
       ELSE UNCHANGED calls
    /\ UNCHANGED <<chain, store, stages, tracked, timer, boot, late, messages, objected>>

\* prepareConfidentialSettlementAfterFunding
Prepare(w) ==
    /\ At(w, "prepare")
    /\ IF state = "Open" THEN Deal!Request /\ Moves(w, "initialize")
       ELSE UNCHANGED chain /\ PublishesLast(w, "failed")
    /\ UNCHANGED <<rows, timer, boot, late, history>>

\* initializeApprovalRequests
Initialize(w) ==
    /\ At(w, "initialize")
    /\ store' = Requested
    /\ Goes(w, Publishing(w, "awaiting_settlement_plan_approvals", "track_awaiting"))
    /\ UNCHANGED <<chain, stages, tracked, funded, timer, boot, late, history>>

TrackAwaiting(w) ==
    /\ At(w, "track_awaiting")
    /\ tracked' = "awaiting_settlement_plan_approvals"
    /\ Ends(w)
    /\ UNCHANGED <<chain, store, stages, funded, timer, late, history>>

-----------------------------------------------------------------------------
\* maybeAuthorizeRelease, on the state s its caller has read.

Past(s) == s.releaseAuthorized \/ s.releaseExecuted \/ s.disputeOpen
AwaitsDeadline(s) == ~Past(s) /\ s.planApproved /\ s.releaseConfirmed /\ s.deadline
AuthorizesEarly(s, over) == AwaitsDeadline(s)   \* mutant: without waiting for the deadline
Authorizes(s, over) == AwaitsDeadline(s) /\ over

\* Mutant: no check is scheduled.
TimerAfterForgets(s, over) == timer /\ ~Past(s) /\ ~Authorizes(s, over)
\* The timer is cleared, set, or left as it is.
TimerAfter(s, over) ==
    /\ ~Past(s) /\ ~Authorizes(s, over)
    /\ timer \/ AwaitsDeadline(s)

\* What the caller does with the state it gets back: a handler and the timer nothing,
\* continueConfidentialRelease goes on.
Returns(w, s) ==
    IF calls[w].by \in {"message", "timer"} THEN Ends(w)
    ELSE /\ IF s.releaseAuthorized
            THEN Goes(w, Publishing(w, "release_authorized",
                                    IF s.releaseSigned THEN "signed" ELSE "approve"))
            ELSE PublishesLast(w, "seller_dispute_window")
         /\ UNCHANGED boot

maybeAuthorizeRelease(w, s, over) ==
    /\ timer' = TimerAfter(s, over)
    /\ IF Authorizes(s, over) THEN Moves(w, "mark") /\ UNCHANGED boot
       ELSE Returns(w, s)

\* markAuthorized, whatever the snapshot says by now; and then release_authorized, which
\* nobody hears before start-up is over.
MarkAuthorized(w) ==
    LET marked == [store EXCEPT !.releaseAuthorized = TRUE]
    IN  /\ At(w, "mark")
        /\ store' = marked
        /\ IF marked.disputeOpen THEN Returns(w, store)
           ELSE IF calls[w].by \in {"message", "timer"} /\ boot = "ready"
           THEN Goes(w, [at |-> "read", by |-> "listener"]) /\ UNCHANGED boot
           ELSE Returns(w, marked)
        /\ UNCHANGED <<chain, stages, tracked, funded, timer, late, history>>

\* The timer set by scheduleAuthorizationCheck.
TimerFires ==
    /\ timer /\ late
    /\ timer' = FALSE
    /\ IF Authorizes(store, TRUE) THEN Starts([at |-> "mark", by |-> "timer"])
       ELSE UNCHANGED calls
    /\ UNCHANGED <<chain, rows, boot, late, history>>

\* The agent sets its deadline after the chain has set its own, for the same time.
DeadlinePasses ==
    /\ store.exists /\ store.deadline /\ ~late
    /\ window # "open"
    /\ late' = TRUE
    /\ UNCHANGED <<chain, rows, process, history>>

-----------------------------------------------------------------------------
\* processAgentResponse: the state is read, the party's payload sent to the chain and
\* confirmed, and only then recorded.

\* Approvals carry the payload of the request; the others take the next nonce.
PayloadNonce(p, kind) ==
    CASE kind = "approve" -> 1
      [] kind = "confirm" -> store.request
      [] OTHER -> nextRoleNonce(store, p)

ReceiveMessage(p, kind) ==
    /\ boot # "dispatched"
    /\ messages < MaxMessages
    /\ store.exists
    /\ kind = "confirm" => p = "buyer" /\ store.request # 0
    /\ messages' = messages + 1
    /\ objected' = (objected \/ kind \in {"revoke", "dispute"})
    /\ Starts([at |-> "send", by |-> "message", party |-> p, kind |-> kind,
               nonce |-> PayloadNonce(p, kind)])
    /\ UNCHANGED <<chain, rows, timer, boot, late, trouble>>

Accepted(call) ==
    CASE call.kind = "approve" -> Deal!CanSubmit(call.party, call.nonce)
      [] call.kind = "confirm" -> Deal!CanConfirm(call.nonce)
      [] call.kind = "revoke"  -> Deal!CanRevoke(call.party, call.nonce)
      [] call.kind = "dispute" -> Deal!CanDispute(call.party, call.nonce)
Lands(call) ==
    \/ call.kind = "approve" /\ Deal!Submit(call.party, call.nonce)
    \/ call.kind = "confirm" /\ Deal!Confirm(call.nonce)
    \/ call.kind = "revoke" /\ Deal!Revoke(call.party, call.nonce)
    \/ call.kind = "dispute" /\ Deal!Dispute(call.party, call.nonce)

SendPayload(w) ==
    /\ At(w, "send")
    /\ \/ Lands(calls[w]) /\ Goes(w, [calls[w] EXCEPT !.at = "record"]) /\ UNCHANGED boot
       \/ ~Accepted(calls[w]) /\ UNCHANGED chain /\ Ends(w)
    /\ UNCHANGED <<rows, timer, late, history>>

\* The record is made on the snapshot of now; the second approval leads to the request.
RecordPayload(w) ==
    LET call == calls[w]
        new == Recorded(store, call)
        over == late /\ call.kind # "confirm"
    IN  /\ At(w, "record")
        /\ store' = new
        /\ late' = over
        /\ IF call.kind = "approve" /\ BothActive(new) /\ new.request = 0 /\ ~new.disputeOpen
           THEN /\ Goes(w, [at |-> "attach", by |-> "message", nonce |-> nextRoleNonce(new, "buyer")])
                /\ UNCHANGED <<timer, boot>>
           ELSE maybeAuthorizeRelease(w, new, over)
        /\ UNCHANGED <<chain, stages, tracked, funded, history>>

\* attachBuyerReleaseRequest, with the nonce of the state recorded before.
AttachBuyerReleaseRequest(w) ==
    LET new == [store EXCEPT !.request = calls[w].nonce, !.planApproved = BothActive(store)]
    IN  /\ At(w, "attach")
        /\ store' = new
        /\ maybeAuthorizeRelease(w, new, late)
        /\ UNCHANGED <<chain, stages, tracked, funded, late, history>>

-----------------------------------------------------------------------------
\* continueConfidentialRelease, for the listener or for the recovery.

ReadState(w) ==
    /\ At(w, "read")
    /\ IF ~store.exists THEN Ends(w) /\ UNCHANGED timer
       ELSE IF ~BothActive(store)
       THEN PublishesLast(w, "awaiting_settlement_plan_approvals") /\ UNCHANGED <<timer, boot>>
       ELSE IF ~store.releaseConfirmed
       THEN PublishesLast(w, "awaiting_buyer_release_confirmation") /\ UNCHANGED <<timer, boot>>
       ELSE IF store.disputeOpen
       THEN PublishesLast(w, "seller_dispute_window") /\ UNCHANGED <<timer, boot>>
       ELSE maybeAuthorizeRelease(w, store, late)
    /\ UNCHANGED <<chain, rows, late, history>>

\* authorizeConfidentialRelease: a second approve_cross_chain is refused.
Approve(w) ==
    /\ At(w, "approve")
    /\ \/ Deal!Authorize /\ Moves(w, "sign")
       \/ ~Deal!CanAuthorize /\ UNCHANGED chain /\ PublishesLast(w, "failed")
    /\ UNCHANGED <<rows, timer, boot, late, history>>

MarkReleaseSigned(w) ==
    /\ At(w, "sign")
    /\ store' = [store EXCEPT !.releaseAuthorized = TRUE, !.releaseSigned = TRUE]
    /\ Moves(w, "signed")
    /\ UNCHANGED <<chain, stages, tracked, funded, timer, boot, late, history>>

PublishSigned(w) ==
    /\ At(w, "signed")
    /\ stages' = Marked("release_signed")
    /\ Moves(w, "released")
    /\ UNCHANGED <<chain, store, tracked, funded, timer, boot, late, history>>

\* The state is read again: what is recorded as executed is not executed again.
ReadSigned(w) ==
    /\ At(w, "released")
    /\ IF store.releaseExecuted THEN Goes(w, Publishing(w, "release_pending", "settle"))
       ELSE Moves(w, "execute")
    /\ UNCHANGED <<chain, rows, timer, boot, late, history>>

\* Mutant: the result of the release is not looked at.
ExecuteUnchecked(w) ==
    /\ At(w, "execute")
    /\ Deal!Execute \/ (~Deal!CanExecute /\ UNCHANGED chain)
    /\ Moves(w, "executed")
    /\ UNCHANGED <<rows, timer, boot, late, history>>

\* executeConfidentialRelease
Execute(w) ==
    /\ At(w, "execute")
    /\ \/ Deal!Execute /\ Moves(w, "executed")
       \/ ~Deal!CanExecute /\ UNCHANGED chain /\ PublishesLast(w, "failed")
    /\ UNCHANGED <<rows, timer, boot, late, history>>

MarkReleaseExecuted(w) ==
    /\ At(w, "executed")
    /\ store' = [store EXCEPT !.releaseExecuted = TRUE]
    /\ timer' = FALSE
    /\ Goes(w, Publishing(w, "release_pending", "settle"))
    /\ UNCHANGED <<chain, stages, tracked, funded, boot, late, history>>

PublishSettled(w) ==
    /\ At(w, "settle")
    /\ stages' = Marked("settled")
    /\ Moves(w, "track")
    /\ UNCHANGED <<chain, store, tracked, funded, timer, boot, late, history>>

\* finalizePrivateSessionIfNeeded and trackConfidentialDeal: closing the private session
\* may fail, and is tried again at the next start.
Track(w) ==
    /\ At(w, "track")
    /\ tracked' \in {"settled", "settled_pending_session_close"}
    /\ Ends(w)
    /\ UNCHANGED <<chain, store, stages, funded, timer, late, history>>

-----------------------------------------------------------------------------
\* Faults.

\* The RPC node gives up: the transaction of the call may have landed all the same.
\* That of the release itself is looked up before it is given up.
CallFails(w) ==
    /\ Trouble("fault")
    /\ \/ /\ At(w, "prepare")
          /\ Deal!Request \/ UNCHANGED chain
          /\ PublishesLast(w, "failed") /\ UNCHANGED boot
       \/ /\ At(w, "send")
          /\ Lands(calls[w]) \/ UNCHANGED chain
          /\ Ends(w)
       \/ /\ At(w, "approve")
          /\ Deal!Authorize \/ UNCHANGED chain
          /\ PublishesLast(w, "failed") /\ UNCHANGED boot
       \/ /\ At(w, "execute")
          /\ UNCHANGED chain
          /\ PublishesLast(w, "failed") /\ UNCHANGED boot
    /\ UNCHANGED <<rows, timer, late, messages, objected>>

Crash ==
    /\ Trouble("crash")
    /\ calls' = [w \in Slots |-> Idle]
    /\ timer' = FALSE
    /\ boot' = "recover"
    /\ UNCHANGED <<chain, rows, late, messages, objected>>

RECOVERABLE_STAGES ==
    {"awaiting_settlement_plan_approvals", "awaiting_buyer_release_confirmation",
     "seller_dispute_window", "release_authorized", "release_signed"}

\* recoverPendingDealPipelines, before the escrow listener is there.  release_pending is
\* recoverable too, but startPreparedOutcome does not know it and dispatches the ticket
\* once more, from the beginning: the model ends with that.
RecoverPipeline ==
    /\ boot = "recover"
    /\ IF getLatestStage \in RECOVERABLE_STAGES
       THEN Starts([at |-> "read", by |-> "recovery"]) /\ boot' = "recovering"
       ELSE /\ boot' = IF getLatestStage = "release_pending" THEN "dispatched" ELSE "finalize"
            /\ UNCHANGED calls
    /\ UNCHANGED <<chain, rows, timer, late, history>>

\* recoverPendingPrivateSessionFinalizations; then initEscrowListener.
FinalizeSessions ==
    /\ boot = "finalize"
    /\ tracked' \in {tracked} \cup
           (IF tracked = "settled_pending_session_close" THEN {"settled"} ELSE {})
    /\ boot' = "ready"
    /\ UNCHANGED <<chain, store, stages, funded, calls, timer, late, history>>

-----------------------------------------------------------------------------
Init ==
    /\ state = "Open" /\ nonce = [p \in Parties |-> 0] /\ approved = {}
    /\ confirmed = FALSE /\ window = "none" /\ authorized = FALSE /\ executed = FALSE
    /\ funded = {}
    /\ store = NoSnapshot
    /\ stages = <<"escrow_created">>
    /\ tracked = "created_awaiting_deposits"
    /\ calls = [w \in Slots |-> Idle]
    /\ timer = FALSE /\ late = FALSE
    /\ boot = "ready"
    /\ messages = 0
    /\ trouble = "none" /\ objected = FALSE

Step(w) ==
    \/ PublishStage(w)
    \/ Prepare(w) \/ Initialize(w) \/ TrackAwaiting(w)
    \/ SendPayload(w) \/ RecordPayload(w) \/ AttachBuyerReleaseRequest(w)
    \/ MarkAuthorized(w)
    \/ ReadState(w) \/ Approve(w) \/ MarkReleaseSigned(w) \/ PublishSigned(w)
    \/ ReadSigned(w) \/ Execute(w) \/ MarkReleaseExecuted(w) \/ PublishSettled(w) \/ Track(w)

WindowEnds == Deal!WindowEnds /\ UNCHANGED <<rows, process, late, history>>
ResolveDispute == Deal!Resolve /\ UNCHANGED <<rows, process, late, history>>

Next ==
    \/ \E p \in Parties :
           \/ ProcessAgentSubmission(p)
           \/ \E kind \in Kinds : ReceiveMessage(p, kind)
    \/ \E w \in Slots : Step(w) \/ CallFails(w)
    \/ TimerFires \/ DeadlinePasses
    \/ WindowEnds \/ ResolveDispute
    \/ Crash \/ RecoverPipeline \/ FinalizeSessions

Spec == Init /\ [][Next]_vars

\* Every call goes on, clocks do, and a restarted agent starts up.
FairSpec ==
    /\ Spec
    /\ \A w \in Slots : WF_vars(Step(w))
    /\ WF_vars(WindowEnds) /\ WF_vars(DeadlinePasses) /\ WF_vars(TimerFires)
    /\ WF_vars(RecoverPipeline) /\ WF_vars(FinalizeSessions)

-----------------------------------------------------------------------------
Published(row) == \E i \in DOMAIN stages : stages[i] = row
AtRest == \A w \in Slots : At(w, "idle")
Disturbed == trouble # "none" \/ objected
Tracked == tracked \in {"settled", "settled_pending_session_close"}

\* Every variable has its type, and a stage has one row.
TypeOK ==
    /\ Deal!TypeOK
    /\ funded \in SUBSET Parties
    /\ store \in {NoSnapshot} \cup Snapshots
    /\ calls \in [Slots -> Calls]
    /\ stages \in Seq(Stages)
    /\ \A i, j \in DOMAIN stages : stages[i] = stages[j] => i = j
    /\ timer \in BOOLEAN /\ late \in BOOLEAN /\ objected \in BOOLEAN
    /\ boot \in {"recover", "recovering", "finalize", "ready", "dispatched"}
    /\ messages \in Nat
    /\ trouble \in {"none"} \cup Troubles

\* Whatever the agent writes down as settled has been paid out: a dispute between the
\* signature and the release, a fault or a crash never leaves a stage, a snapshot or a
\* tracked deal ahead of the chain.
SettledIsExecuted ==
    Published("settled") \/ Published("release_pending") \/ Tracked
        \/ (store.exists /\ store.releaseExecuted)
        => executed

\* With no fault, crash, repeated submission, revocation or dispute the pipeline does not
\* fail, in whatever order the messages, the timer and the listener run: the chain
\* accepts everything the agent sends on its own.
FailsForAReason == Published("failed") => Disturbed

\* At rest, and undisturbed, the snapshot is the deal on chain, and the buyer can answer
\* the request he was sent.  A dispute on chain is always in the snapshot.
SnapshotAgrees ==
    AtRest /\ trouble = "none" /\ store.exists =>
        /\ state = "Disputed" => store.disputeOpen /\ ~timer
        /\ ~objected =>
               /\ store.planApproved <=> approved = Parties
               /\ store.releaseConfirmed <=> confirmed
               /\ store.releaseSigned <=> authorized
               /\ store.releaseExecuted <=> executed
               /\ store.planApproved /\ ~confirmed => Deal!CanConfirm(store.request)

\* A release the buyer has confirmed is paid out and settled, unless something goes wrong
\* or a party objects.
ReleaseSettles == confirmed /\ ~Disturbed ~> Published("settled") \/ Disturbed
=============================================================================
