--------------------------- MODULE MCTimeoutWatch ---------------------------
(***************************************************************************)
(* TimeoutWatch for TLC: a breaker that one failure opens and that         *)
(* recovers once, calls that are sent at most twice.                       *)
(***************************************************************************)
EXTENDS TimeoutWatch

CONSTANT c1

Scene(c, t, o, s) == [calls |-> c, transfers |-> t, outages |-> o, stops |-> s]

\* Another call, an outage and a stop, while the parties deposit themselves; plain transfers
\* that the agent confirms; one of them and a stop.
MCScenes == {Scene({c1}, {}, 1, 1), Scene({}, Deposits, 0, 0), Scene({}, {"BuyerCollateral"}, 0, 1)}
=============================================================================
