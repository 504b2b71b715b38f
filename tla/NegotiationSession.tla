------------------------- MODULE NegotiationSession -------------------------
(***************************************************************************)
(* The rollup session of one ticket: the session account of the            *)
(* negotiation program, which is lent to a validator while the agents      *)
(* negotiate, and the service that opens, closes, force-closes and         *)
(* recovers it (services/negotiationRollupService.ts).  Two closers may    *)
(* run at once: the end of the deal ("finalize") and a timeout or the      *)
(* closing of the escrow ("force").  Every transaction may land, be        *)
(* refused, or land and be reported as failed; the process may stop at     *)
(* any step and keeps only its journal.                                    *)
(*                                                                         *)
(* Terms are opaque values.  The handoff proof is abstracted: recording it *)
(* clears the terms, as every scrub does, and its contents are compared    *)
(* elsewhere.  The escrow account of the ticket plays no part.             *)
(***************************************************************************)
EXTENDS Naturals, SessionPromise

CONSTANTS Terms,      \* what agents may write
          RetryMax,   \* UNDELEGATE_RETRY_MAX
          MaxCrashes  \* how often the process may stop

ASSUME NegotiationAssumption == /\ NoTerms \notin Terms
                                /\ RetryMax \in Nat \ {0} /\ MaxCrashes \in Nat

VARIABLES live,     \* the account on the validator
          crashes,
          permq,    \* pendingPermissionCloses: attempts of the entry, or 0
          pc        \* where each closer is

chain == <<owner, base, live>>
memory == <<active, queue, permq>>
vars == <<private, stage, chain, perm, mode, up, crashes, memory, pc, journal, mishaps>>

Closers == {"finalize", "force"}
Copies == [terms: Terms \cup {NoTerms}, status: {"open", "handoff", "consensus"}]
Fresh == [terms |-> NoTerms, status |-> "open"]
Phases == {"none", "active", "pending_er_undelegation", "pending_per_close"}
NoRow == [phase |-> "none", attempts |-> 0]

TypeOK ==
    /\ private \in BOOLEAN
    /\ stage \in {"new", "init", "permission", "delegated", "done", "failed"}
    /\ owner \in {"none", "program", "validator", "returning"}
    /\ base \in Copies /\ live \in Copies
    /\ perm \in {"none", "open", "closed"} /\ mode \in {"delegated", "fallback"}
    /\ up \in BOOLEAN /\ crashes \in 0..MaxCrashes
    /\ active \in {"none", "timed", "untimed"}
    /\ queue \in 0..RetryMax /\ permq \in 0..RetryMax
    /\ pc \in [Closers -> {"idle", "prepare", "commit", "return", "permission"}]
    /\ journal \in [phase: Phases, attempts: 0..RetryMax]
    /\ mishaps \subseteq Mishaps

Init ==
    /\ private \in BOOLEAN
    /\ stage = "new" /\ owner = "none" /\ base = Fresh /\ live = Fresh
    /\ perm = "none" /\ mode = "delegated"
    /\ up = TRUE /\ crashes = 0
    /\ active = "none" /\ queue = 0 /\ permq = 0
    /\ pc = [p \in Closers |-> "idle"]
    /\ journal = NoRow /\ mishaps = {}
-----------------------------------------------------------------------------
\* The instructions that run on the validator: what they make of its copy.
negotiate_terms(t) == [live EXCEPT !.terms = t]
prepare_private_handoff == [terms |-> NoTerms, status |-> "handoff"]
record_private_handoff_proof == [terms |-> NoTerms, status |-> "handoff"]
reach_consensus == [live EXCEPT !.status = "consensus"]
commit_private_permission == live

\* A transaction that leaves the copy `after` with `to` reaches the validator, which takes
\* it only while it holds the account.
Lands(after, to) ==
    /\ owner = "validator"
    /\ live' = after /\ owner' = to
    /\ UNCHANGED base

\* It is reported as failed, whether it landed or not.
Fails(after, to) == Lands(after, to) \/ UNCHANGED chain

\* The validator's copy arrives on L1.
OwnerReturns ==
    /\ owner = "returning"
    /\ owner' = "program" /\ base' = live
    /\ UNCHANGED <<private, stage, live, perm, mode, up, crashes, memory, pc, journal, mishaps>>
-----------------------------------------------------------------------------
\* Opening, on L1, one transaction a step.  Failing after a step leaves what was done.
Opening == {"new", "init", "permission", "delegated"}

initializeSession ==
    /\ up /\ stage = "new"
    /\ stage' = "init" /\ owner' = "program"
    /\ UNCHANGED <<private, base, live, perm, mode, up, crashes, memory, pc, journal, mishaps>>

createPrivatePermission ==
    /\ up /\ stage = "init" /\ private
    /\ stage' = "permission" /\ perm' = "open"
    /\ UNCHANGED <<private, chain, mode, up, crashes, memory, pc, journal, mishaps>>

delegateSession ==
    /\ up /\ stage = IF private THEN "permission" ELSE "init"
    /\ stage' = "delegated" /\ owner' = "validator" /\ live' = base
    /\ UNCHANGED <<private, base, perm, mode, up, crashes, memory, pc, journal, mishaps>>

\* The permission is delegated too, or a borrow conflict leaves it on L1; then the session is
\* timed, tracked and journaled in one go.
registerSession ==
    /\ up /\ stage = "delegated"
    /\ stage' = "done" /\ active' = "timed"
    /\ mode' \in (IF private THEN {"delegated", "fallback"} ELSE {"delegated"})
    /\ journal' = [phase |-> "active", attempts |-> 0]
    /\ UNCHANGED <<private, chain, perm, up, crashes, queue, permq, pc, mishaps>>

openFails ==
    /\ up /\ stage \in Opening
    /\ stage' = "failed"
    /\ UNCHANGED <<private, chain, perm, mode, up, crashes, memory, pc, journal, mishaps>>
-----------------------------------------------------------------------------
\* The agents, through the connection of the session.
submitRollupTerms(t) ==
    /\ stage = "done"
    /\ Lands(negotiate_terms(t), "validator")
    /\ mishaps' = mishaps \cup (IF live.status = "handoff" THEN {"late"} ELSE {})
    /\ UNCHANGED <<private, stage, perm, mode, up, crashes, memory, pc, journal>>

\* The SDK asks for it in an ER session only; the program asks no such thing.
finalizeRollupConsensus ==
    /\ stage = "done" /\ ~private
    /\ Lands(reach_consensus, "returning")
    /\ UNCHANGED <<private, stage, perm, mode, up, crashes, memory, pc, journal, mishaps>>

\* The listener of the handoff bundle of a private session.
recordPrivateHandoffProof ==
    /\ up /\ private /\ active # "none"
    /\ Fails(record_private_handoff_proof, "validator")
    /\ UNCHANGED <<private, stage, perm, mode, up, crashes, memory, pc, journal, mishaps>>

\* The listener of consensus, once it sees committed terms on L1.
completeSession ==
    /\ up /\ ~private /\ active # "none"
    /\ owner = "program" /\ (base.status = "consensus" \/ base.terms # NoTerms)
    /\ active' = "none" /\ journal' = NoRow
    /\ UNCHANGED <<private, stage, chain, perm, mode, up, crashes, queue, permq, pc, mishaps>>
-----------------------------------------------------------------------------
\* The closers.
Goto(p, step) ==
    /\ pc' = [pc EXCEPT ![p] = step]
    /\ UNCHANGED <<active, queue, journal, mishaps>>

Done(p) ==
    /\ pc' = [pc EXCEPT ![p] = "idle"]
    /\ active' = "none" /\ journal' = NoRow
    /\ UNCHANGED <<queue, mishaps>>

\* Mutant: a force-close that fails is dropped.
ThrowAway(p) ==
    /\ pc' = [pc EXCEPT ![p] = "idle"]
    /\ IF p = "force"
       THEN active' = "none" /\ journal' = NoRow /\ UNCHANGED <<queue, mishaps>>
       ELSE mishaps' = mishaps \cup {"finalize"} /\ UNCHANGED <<active, queue, journal>>

\* A failing close leaves the session as it is, a failing force-close queues it.
Throw(p) ==
    /\ pc' = [pc EXCEPT ![p] = "idle"]
    /\ IF p = "force"
       THEN /\ active' = "none" /\ queue' = 1
            /\ journal' = [phase |-> "pending_er_undelegation", attempts |-> 1]
            /\ UNCHANGED mishaps
       ELSE /\ mishaps' = mishaps \cup {"finalize"}
            /\ UNCHANGED <<active, queue, journal>>

\* Mutant: a private session is committed as it stands.
beginUnscrubbed(p) ==
    /\ up /\ active # "none" /\ pc[p] = "idle"
    /\ active' = "untimed" /\ pc' = [pc EXCEPT ![p] = "commit"]
    /\ UNCHANGED <<private, stage, chain, perm, mode, up, crashes, queue, permq, journal, mishaps>>

\* Both begin by clearing the timer.
begin(p) ==
    /\ up /\ active # "none" /\ pc[p] = "idle"
    /\ active' = "untimed"
    /\ pc' = [pc EXCEPT ![p] = IF private THEN "prepare" ELSE "commit"]
    /\ UNCHANGED <<private, stage, chain, perm, mode, up, crashes, queue, permq, journal, mishaps>>

timeoutFires == active = "timed" /\ begin("force")

preparePrivateHandoff(p) ==
    /\ pc[p] = "prepare"
    /\ \/ Lands(prepare_private_handoff, "validator") /\ Goto(p, "commit")
       \/ Fails(prepare_private_handoff, "validator") /\ Throw(p)
    /\ UNCHANGED <<perm, permq>>

\* commitScrubbedSessionOnTee, or commitAndUndelegate: ER sessions, and PER sessions whose
\* permission was not delegated.
commitSession(p) ==
    /\ pc[p] = "commit"
    /\ LET after == IF private /\ mode = "delegated" THEN commit_private_permission
                    ELSE reach_consensus
       IN \/ /\ Lands(after, "returning")
             /\ IF private THEN Goto(p, "return") ELSE Done(p)
          \/ Fails(after, "returning") /\ Throw(p)
    /\ UNCHANGED <<perm, permq>>

\* attempts of an entry after one more
NextAttempt(n) == IF n < RetryMax THEN n + 1 ELSE RetryMax

\* The row queuePermissionCloseRetry writes is removed when its caller goes on.
queuePermissionCloseRetry(p) == permq' = NextAttempt(permq) /\ Done(p)

\* Mutant: it does not wait.
waitForNothing(p) ==
    /\ pc[p] = "return"
    /\ Goto(p, "permission") /\ UNCHANGED <<chain, perm, permq>>

\* It waits for the owner to come back, and gives up after a while.
waitForOwnerReturn(p) ==
    /\ pc[p] = "return"
    /\ \/ owner = "program" /\ Goto(p, "permission") /\ UNCHANGED permq
       \/ mode = "delegated" /\ Throw(p) /\ UNCHANGED permq
       \/ mode = "fallback" /\ queuePermissionCloseRetry(p)
    /\ UNCHANGED <<chain, perm>>

closePermissionOnL1(p) ==
    /\ pc[p] = "permission"
    /\ \/ perm = "open" /\ perm' = "closed" /\ Done(p) /\ UNCHANGED permq
       \/ perm' \in {perm, "closed"} /\ queuePermissionCloseRetry(p)
    /\ UNCHANGED chain

closerStep(p) ==
    /\ up
    /\ \/ preparePrivateHandoff(p) \/ commitSession(p)
       \/ waitForOwnerReturn(p) \/ closePermissionOnL1(p)
    /\ UNCHANGED <<private, stage, mode, up, crashes>>
-----------------------------------------------------------------------------
\* The retry loop.
retryFailedUndelegations ==
    /\ up /\ queue > 0
    /\ \/ /\ Lands(reach_consensus, "returning")
          /\ queue' = 0 /\ journal' = NoRow
          /\ mishaps' = mishaps \cup {"retried"}
       \/ /\ Fails(reach_consensus, "returning")
          /\ queue' = (IF NextAttempt(queue) < RetryMax THEN NextAttempt(queue) ELSE 0)
          /\ journal' = [phase |-> "pending_er_undelegation", attempts |-> NextAttempt(queue)]
          /\ mishaps' = mishaps \cup {"retried"}
                                \cup (IF queue' = 0 THEN {"exhausted"} ELSE {})
    /\ UNCHANGED <<private, stage, perm, mode, up, crashes, active, permq, pc>>

retryFailedPermissionCloses ==
    /\ up /\ permq > 0
    /\ \/ /\ perm = "open" /\ perm' = "closed"
          /\ permq' = 0 /\ journal' = NoRow
       \/ /\ perm' \in {perm, "closed"}
          /\ permq' = (IF NextAttempt(permq) < RetryMax THEN NextAttempt(permq) ELSE 0)
          /\ journal' = [phase |-> "pending_per_close", attempts |-> NextAttempt(permq)]
    /\ UNCHANGED <<private, stage, chain, mode, up, crashes, active, queue, pc, mishaps>>

\* The process stops: what was in memory is lost, timers and steps under way included.
crash ==
    /\ up /\ crashes < MaxCrashes
    /\ up' = FALSE /\ crashes' = crashes + 1
    /\ stage' = IF stage \in Opening \ {"new"} THEN "failed" ELSE stage
    /\ active' = "none" /\ queue' = 0 /\ permq' = 0
    /\ pc' = [p \in Closers |-> "idle"]
    /\ UNCHANGED <<private, chain, perm, mode, journal, mishaps>>

\* Mutant: a session taken up again has no timer.
reconcileUntimed ==
    /\ ~up /\ up' = TRUE
    /\ active' = (IF journal.phase = "active" THEN "untimed" ELSE "none")
    /\ queue' = (IF journal.phase = "pending_er_undelegation" THEN journal.attempts ELSE 0)
    /\ permq' = (IF journal.phase = "pending_per_close" THEN journal.attempts ELSE 0)
    /\ UNCHANGED <<private, stage, chain, perm, mode, crashes, pc, journal, mishaps>>

\* reconcilePersistedSessions, at startup.  A private session needs a new token for the TEE.
reconcile ==
    /\ ~up /\ up' = TRUE
    /\ \/ journal.phase = "none" /\ UNCHANGED <<memory, mishaps>>
       \/ /\ journal.phase = "active"
          /\ \/ active' = "timed" /\ UNCHANGED mishaps
             \/ private /\ mishaps' = mishaps \cup {"reconcile"} /\ UNCHANGED active
          /\ UNCHANGED <<queue, permq>>
       \/ /\ journal.phase = "pending_er_undelegation"
          /\ queue' = journal.attempts /\ UNCHANGED <<active, permq, mishaps>>
       \/ /\ journal.phase = "pending_per_close"
          /\ permq' = journal.attempts /\ UNCHANGED <<active, queue, mishaps>>
    /\ UNCHANGED <<private, stage, chain, perm, mode, crashes, pc, journal>>
-----------------------------------------------------------------------------
Next ==
    \/ OwnerReturns
    \/ initializeSession \/ createPrivatePermission \/ delegateSession
    \/ registerSession \/ openFails
    \/ \E t \in Terms : submitRollupTerms(t)
    \/ finalizeRollupConsensus \/ recordPrivateHandoffProof \/ completeSession
    \/ timeoutFires
    \/ \E p \in Closers : begin(p) \/ closerStep(p)
    \/ retryFailedUndelegations \/ retryFailedPermissionCloses
    \/ crash \/ reconcile

Spec == Init /\ [][Next]_vars

\* Validators commit what they scheduled; Node settles promises, fires timers and repeats
\* intervals; the process is started again.  Nothing is assumed to succeed.
FairSpec ==
    /\ Spec
    /\ WF_vars(OwnerReturns) /\ WF_vars(timeoutFires) /\ WF_vars(reconcile)
    /\ WF_vars(retryFailedUndelegations) /\ WF_vars(retryFailedPermissionCloses)
    /\ \A p \in Closers : WF_vars(closerStep(p))
-----------------------------------------------------------------------------
\* Every session that was opened comes back to L1, unless the service gave it up.
EventuallyHome == stage = "done" ~> (owner = "program" \/ GivenUp)
=============================================================================
