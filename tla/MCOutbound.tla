----------------------------- MODULE MCOutbound -----------------------------
(***************************************************************************)
(* OutboundDelivery for TLC: deliveries of messages to one agent, which    *)
(* has one connection at most; a message for an agent that is dialed while *)
(* it connects itself; or two agents that come and go on two sessions,     *)
(* either of them on both of these, with no message under way.             *)
(***************************************************************************)
EXTENDS OutboundDelivery, TLC

CONSTANTS agent, peer, s1, s2, m1, m2, c1, c2

MCMessages == {m1, m2}
MCAgentOf == (m1 :> peer) @@ (m2 :> peer)
Asked(j, first, k, second) ==
    (c1 :> [msg |-> j, kind |-> first]) @@ (c2 :> [msg |-> k, kind |-> second])
Delivering(asks) == [asked |-> asks, visits |-> {<<s1, peer>>}]
Dialing == [asked |-> c1 :> [msg |-> m1, kind |-> "text"],
            visits |-> {<<s1, peer>>, <<s2, peer>>}]
Visiting == [asked |-> <<>>,
             visits |-> ({s1, s2} \X {agent, peer})]

\* One message asked for twice, two that compete for a box of one, a dialed agent that
\* comes by itself, comings and goings.
MCScenes == {Delivering(Asked(m1, "text", m1, "repeat")),
             Delivering(Asked(m1, "text", m2, "text")), Dialing, Visiting}
=============================================================================
