--------------------------- MODULE SessionPromise ---------------------------
(***************************************************************************)
(* What a rollup session may rely on, whoever opens, closes, retries or    *)
(* recovers it (services/negotiationRollupService.ts): where its account   *)
(* is, and what the service still knows of it.  NegotiationSession is the  *)
(* program and the service that keep it.                                   *)
(***************************************************************************)
EXTENDS Naturals

CONSTANT NoTerms    \* price 0, no asset, no collaterals

VARIABLES private,  \* the ticket's rollup mode: PER, on a TEE, or ER
          stage,    \* how far the opening has come
          owner,    \* whose the account is: "program" on L1, "validator", or on its way back
          base,     \* the account on L1
          perm,     \* the permission account of a private session
          mode,     \* permissionMode
          up,       \* the process runs
          active,   \* activeSessions: is there an entry, and has it a timer
          queue,    \* pendingUndelegations: attempts of the entry, or 0
          journal,  \* the row of the rollup session journal
          mishaps   \* history: what went wrong so far

\* "late": an agent wrote terms after they had been scrubbed.  "retried": the queue sent
\* reach_consensus.  The others end the service's own attempts: "finalize": a close was given
\* up after its timer had been cleared; "reconcile": the session could not be taken up again
\* after a restart; "exhausted": the retries were.
Mishaps == {"late", "retried", "finalize", "reconcile", "exhausted"}
GivenUp == mishaps \cap {"finalize", "reconcile", "exhausted"} # {}
-----------------------------------------------------------------------------
\* A session that was opened and is still with the validator is in the journal, so that a
\* restart finds it, and is tracked in memory as long as the process runs and has not given up.
NothingForgotten ==
    stage = "done" /\ owner = "validator" =>
        /\ journal.phase # "none"
        /\ up /\ ~GivenUp => active # "none" \/ queue > 0

\* The permission that keeps a delegated session private is not closed before the session is
\* back on L1, whoever closes it and however often it is tried.
PermissionOutlivesSession ==
    perm = "closed" /\ mode = "delegated" => stage = "done" /\ owner = "program"

\* A private session comes back without its terms, unless an agent wrote them again after the
\* scrub or the retry loop sent it back.
ScrubbedOrLate ==
    private /\ stage = "done" /\ owner = "program" =>
        base.terms = NoTerms \/ mishaps \cap {"late", "retried"} # {}
=============================================================================
