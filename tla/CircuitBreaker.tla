--------------------------- MODULE CircuitBreaker ---------------------------
(***************************************************************************)
(* The circuit breaker every on-chain call of the agent goes through       *)
(* (utils/circuitBreaker.ts), as functions from one value of the breaker   *)
(* to the next: withRetry (utils/retry.ts) asks it once, before the first  *)
(* attempt, and tells it how the call ended, once, whatever happens.       *)
(*                                                                         *)
(* Time is abstracted: an open breaker has cooled down or has not, and the *)
(* events of the window are forgotten at any time (pruneOldEvents).  What  *)
(* is counted while the breaker is not closed is not represented: reset    *)
(* clears it before it is read again.                                      *)
(***************************************************************************)
EXTENDS Naturals

CONSTANTS MIN_SAMPLE_SIZE, MAX_RESETS,
          MaxWindow     \* bound on the events of a window; one more displaces the oldest

ASSUME BreakerAssumption ==
    /\ MIN_SAMPLE_SIZE \in Nat \ {0} /\ MAX_RESETS \in Nat \ {0}
    /\ MaxWindow \in Nat \ {0}

\* probing: halfOpenRequestInProgress.  cool: COOLDOWN_MS have passed since it opened.
Breakers ==
    [state : {"CLOSED", "OPEN", "HALF_OPEN", "DEGRADED"}, probing : BOOLEAN, cool : BOOLEAN,
     successes : 0..MaxWindow, failures : 0..MaxWindow, resets : 0..MAX_RESETS]

FreshBreaker == [state |-> "CLOSED", probing |-> FALSE, cool |-> FALSE,
                 successes |-> 0, failures |-> 0, resets |-> 0]

\* Mutant of transitionTo: the mark of a probe outlives the state it was made in.
KeepingMark(b, s) ==
    [b EXCEPT !.state = s, !.cool = FALSE, !.successes = 0, !.failures = 0]

transitionTo(b, s) ==
    [b EXCEPT !.state = s, !.cool = FALSE, !.successes = 0, !.failures = 0,
              !.probing = @ /\ s = "HALF_OPEN"]

\* canExecute both answers and changes the breaker: "asked" is what it leaves behind.
Cooled(b) == IF b.state = "OPEN" /\ b.cool THEN transitionTo(b, "HALF_OPEN") ELSE b
canExecute(b) ==
    \/ b.state = "CLOSED"
    \/ Cooled(b).state = "HALF_OPEN" /\ ~Cooled(b).probing
asked(b) == IF Cooled(b).state = "HALF_OPEN" THEN [Cooled(b) EXCEPT !.probing = TRUE] ELSE b

More(n) == IF n = MaxWindow THEN n ELSE n + 1

recordSuccess(b) ==
    CASE b.state = "HALF_OPEN" ->
           IF b.resets + 1 >= MAX_RESETS
           THEN [transitionTo(b, "DEGRADED") EXCEPT !.resets = MAX_RESETS]
           ELSE [FreshBreaker EXCEPT !.resets = b.resets + 1]
      [] b.state = "CLOSED" -> [b EXCEPT !.successes = More(@)]
      [] OTHER -> b

\* More than half of the sample failed.
Tripped(b) == /\ b.successes + b.failures >= MIN_SAMPLE_SIZE
              /\ b.failures > b.successes
recordFailure(b) ==
    CASE b.state = "HALF_OPEN" -> transitionTo(b, "OPEN")
      [] b.state = "CLOSED" ->
           LET counted == [b EXCEPT !.failures = More(@)]
           IN IF Tripped(counted) THEN transitionTo(counted, "OPEN") ELSE counted
      [] OTHER -> b

\* A call that succeeds counts as failed when it was slow.
Succeeded(b) == {recordSuccess(b), recordFailure(b)}

\* Events leave the window.
Pruned(b, g, f) == [b EXCEPT !.successes = g, !.failures = f]
=============================================================================
