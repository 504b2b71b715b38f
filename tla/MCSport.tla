------------------------------- MODULE MCSport -------------------------------
(* SportSettlement on small instances. *)
EXTENDS SportSettlement

CONSTANTS t1, t2, f1

Played(h, r, f, n, os) ==
    [hands |-> h, revisions |-> r, faults |-> f, ahead |-> n, others |-> os]
MCScenes == {Played(1, 0, 0, 0, {}), Played(0, 1, 0, 0, {}), Played(0, 0, 1, 0, {t1}),
             Played(0, 0, 0, 1, {t1})}
MCPlain == {Played(0, 0, 0, 0, {})}
=============================================================================
