------------------------------- MODULE Accounts -------------------------------
(***************************************************************************)
(* The sum of a finite number of balances, as the number of units held:    *)
(* unit i of account a is the pair <<a, i>>.  Written as a cardinality     *)
(* because a sum by recursion is beyond what can be proved about.          *)
(***************************************************************************)
EXTENDS Integers, FiniteSets

Units(balance) == UNION { {a} \X (1..balance[a]) : a \in DOMAIN balance }

Holdings(balance) == Cardinality(Units(balance))
=============================================================================
