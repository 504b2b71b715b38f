---------------------------- MODULE MCDealPhase ----------------------------
(***************************************************************************)
(* DealPhase for TLC: the scenes a behaviour is played in.                 *)
(***************************************************************************)
EXTENDS DealPhase, TLC

Scene(c, j, x) ==
    [crashes |-> c, judges |-> j, expires |-> x]

\* One crash at any step; or the judge and the deadline, without a crash.
Troubled == {Scene(1, 0, FALSE), Scene(0, 1, TRUE)}
OneCrash == {Scene(1, 0, FALSE)}
OneJudge == {Scene(0, 1, FALSE)}
=============================================================================
