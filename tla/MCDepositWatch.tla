--------------------------- MODULE MCDepositWatch ---------------------------
(***************************************************************************)
(* DepositWatch for TLC: collaterals of four units, a payment of eight, a  *)
(* rent of two and a dust of one; transfers in the amounts the watcher     *)
(* knows, in their sum, and short of them by what the rent makes up for.   *)
(***************************************************************************)
EXTENDS DepositWatch, FiniteSets, TLC

MCDeal == [price |-> 8, collateral_buyer |-> 4, collateral_seller |-> 4]
Transfer(from, amount) == [from |-> from, amount |-> amount]
Apart == {Transfer("buyer", 4), Transfer("buyer", 8), Transfer("seller", 4)}
Twice == {Transfer("buyer", 4), Transfer("buyer", 8)}
AtOnce == {Transfer("buyer", 12), Transfer("seller", 4)}
Short == {Transfer("buyer", 11), Transfer("seller", 3)}

Scene(x, n, c, r, f) ==
    [payments |-> x, transfers |-> n, again |-> n > Cardinality(x), calls |-> c, rescans |-> r,
     faults |-> f]

\* A transfer for each deposit, with one fault; the buyer alone, who makes some of them twice;
\* two watchers at once, or the heartbeat's scan beside the first, when the buyer sends
\* collateral and payment together; and a total that only the rent completes.
MCScenes == {Scene(Apart, 3, 1, {1}, 1), Scene(Twice, 3, 1, {1}, 0), Scene(AtOnce, 2, 2, {1}, 0),
             Scene(AtOnce, 2, 1, Rescanners, 0), Scene(Short, 2, 1, {}, 1)}
=============================================================================
