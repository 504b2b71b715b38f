---------------------------- MODULE AgentSessions ----------------------------
(***************************************************************************)
(* The gateway's session manager (gateway/sessionManager.ts) with the      *)
(* server that accepts sockets (wsServer.ts) and the client that dials     *)
(* agents (wsClientManager.ts).  All the maps live in memory and are       *)
(* changed by callbacks that run to completion, so every operation of the  *)
(* manager is a function from one value of the maps to the next; what      *)
(* interleaves are sockets that close, challenges that are answered while  *)
(* the wallet's agent is looked up, and replaced sessions.                 *)
(*                                                                         *)
(* A session id is a fresh uuid, so a session is never used twice.  What   *)
(* the other end of a socket is known to be is kept beside the maps: the   *)
(* wallets that have signed its challenge (proved), which may be several,  *)
(* as the challenge holds until the first lookup ends; or, when the        *)
(* gateway dialed, the agent whose endpoint it dialed (dialed), of which   *)
(* nothing is proved.  Rate limits and message contents are abstracted.    *)
(***************************************************************************)
EXTENDS FiniteSets

CONSTANTS Agents, Sessions,   \* ids of agents and of sessions
          NoAgent, NoSession, \* what the maps answer for an unknown key
          Observers           \* agents that may ask for the news of the ticket

ASSUME NoAgentAssumption == NoAgent \notin Agents
ASSUME NoSessionAssumption == NoSession \notin Sessions

VARIABLES gw,        \* the maps of the session manager, and the sockets' readyState
          used,      \* sessions that have begun
          proved,    \* <<s, a>>: a's wallet has signed the challenge of s
          dialed,    \* <<s, a>>: s was opened by dialing a's endpoint
          verifying, \* <<s, a>>: a's wallet, which signed on s, is being looked up
          ended      \* sessions whose close event has been handled

gatewayVars == <<gw, used, proved, dialed, verifying, ended>>

\* sockets: the keys of sessionToWs.  open: sockets with readyState OPEN.
\* authed: sessions with isAuthenticated.  observers: ticketSubscribers of the ticket.
Gateways ==
    [sockets: SUBSET Sessions, open: SUBSET Sessions, authed: SUBSET Sessions,
     agentToSession: [Agents -> Sessions \cup {NoSession}],
     sessionToAgent: [Sessions -> Agents \cup {NoAgent}],
     observers: SUBSET Agents]

GatewayTypeOK ==
    /\ gw \in Gateways
    /\ used \in SUBSET Sessions /\ ended \in SUBSET Sessions
    /\ proved \in SUBSET (Sessions \X Agents)
    /\ dialed \in SUBSET (Sessions \X Agents)
    /\ verifying \in SUBSET (Sessions \X Agents)

IsDialed(s) == \E a \in Agents : <<s, a>> \in dialed

-----------------------------------------------------------------------------
(* The session manager. *)

EmptyGateway ==
    [sockets |-> {}, open |-> {}, authed |-> {},
     agentToSession |-> [a \in Agents |-> NoSession],
     sessionToAgent |-> [s \in Sessions |-> NoAgent],
     observers |-> {}]

createSession(g, s) == [g EXCEPT !.sockets = @ \cup {s}, !.open = @ \cup {s}]

\* Closing a socket takes it out of OPEN at once; its close event comes later.
closeSocket(g, s) == [g EXCEPT !.open = @ \ {s}]

\* Forgets the session, and the agent bound to it with its subscriptions.
removeSession(g, s) ==
    LET bound == g.sessionToAgent[s]
    IN [sockets |-> g.sockets \ {s},
        open |-> IF s \in g.sockets THEN g.open \ {s} ELSE g.open,
        authed |-> g.authed \ {s},
        agentToSession |-> [a \in Agents |-> IF a = bound THEN NoSession
                                             ELSE g.agentToSession[a]],
        sessionToAgent |-> [g.sessionToAgent EXCEPT ![s] = NoAgent],
        observers |-> g.observers \ {bound}]

\* An agent has one session: binding it to another one removes the first.
bindAgent(g, s, a) ==
    LET existing == g.agentToSession[a]
        rest == IF existing # NoSession /\ existing # s
                THEN removeSession(g, existing) ELSE g
    IN IF s \notin g.sockets THEN g
       ELSE [rest EXCEPT !.agentToSession[a] = s, !.sessionToAgent[s] = a]

\* Mutant: nothing says that the session is still there.
authenticateAgentBlind(g, s, a) ==
    LET authed == [g EXCEPT !.authed = @ \cup {s}]
    IN [authed EXCEPT !.agentToSession[a] = s, !.sessionToAgent[s] = a]

\* A session that was removed while its wallet was looked up stays removed.
authenticateAgent(g, s, a) ==
    IF s \notin g.sockets THEN g
    ELSE bindAgent([g EXCEPT !.authed = @ \cup {s}], s, a)

getSessionByAgent(g, a) ==
    IF g.agentToSession[a] \in g.sockets THEN g.agentToSession[a] ELSE NoSession

\* sendToAgent writes iff this holds.
Reachable(g, a) == getSessionByAgent(g, a) \in g.open

-----------------------------------------------------------------------------
(* Sockets that agents open to the gateway. *)

\* on("connection"): the session starts unauthenticated, with a challenge.
Connect(s) ==
    /\ s \notin used
    /\ used' = used \cup {s}
    /\ gw' = createSession(gw, s)
    /\ UNCHANGED <<proved, dialed, verifying, ended>>

\* A message on a session that has not authenticated (and was not dialed).
Challenged(s) == s \in (gw.open \cap gw.sockets) \ gw.authed

\* A signature of the challenge that verifies: the handler waits for the wallet's agent.
\* The challenge still holds, for this wallet and for others.
AuthResponse(s, a) ==
    /\ Challenged(s)
    /\ proved' = proved \cup {<<s, a>>}
    /\ verifying' = verifying \cup {<<s, a>>}
    /\ UNCHANGED <<gw, used, dialed, ended>>

\* Anything else, a late answer or a bad signature, closes the socket.
AuthRefused(s) ==
    /\ Challenged(s)
    /\ gw' = closeSocket(gw, s)
    /\ UNCHANGED <<used, proved, dialed, verifying, ended>>

\* getOrCreateAgent answers: the session may be closed, gone or another agent's by now.
\* Other answers of the same wallet may still be looked up.
AuthBind(s, a) ==
    /\ <<s, a>> \in verifying
    /\ verifying' \in {verifying, verifying \ {<<s, a>>}}
    /\ gw' = authenticateAgent(gw, s, a)
    /\ UNCHANGED <<used, proved, dialed, ended>>

\* getOrCreateAgent throws: a passing failure is logged, and the session stays as it is;
\* any other ends the process.
AuthLookupFails(s, a) ==
    /\ <<s, a>> \in verifying
    /\ verifying' = verifying \ {<<s, a>>}
    /\ UNCHANGED <<gw, used, proved, dialed, ended>>

\* A valid message of an authenticated session binds its agent to it again (when the maps
\* know none: the agent that the message names); a status message with a ticket makes the
\* agent an observer.
Traffic(s, joins) ==
    /\ s \in gw.open \cap gw.authed \cap gw.sockets
    /\ ~IsDialed(s)
    /\ \E a \in Agents :
          /\ gw.sessionToAgent[s] \in {a, NoAgent}
          /\ joins => a \in Observers
          /\ LET bound == bindAgent(gw, s, a)
             IN gw' = IF joins THEN [bound EXCEPT !.observers = @ \cup {a}] ELSE bound
    /\ UNCHANGED <<used, proved, dialed, verifying, ended>>

\* The peer or the network ends a socket; readyState changes before the event.
SocketDown(s) ==
    /\ s \in gw.open
    /\ gw' = closeSocket(gw, s)
    /\ UNCHANGED <<used, proved, dialed, verifying, ended>>

\* on("close") of wsServer removes the session.  The handler of a dialed socket that had
\* authenticated only logs: the session stays in the maps.
CloseEvent(s) ==
    /\ s \in used \ (gw.open \cup ended)
    /\ ended' = ended \cup {s}
    /\ gw' = IF IsDialed(s) THEN gw ELSE removeSession(gw, s)
    /\ UNCHANGED <<used, proved, dialed, verifying>>

\* connectToAgent once the other end says auth_success: the agent that was to be dialed is
\* bound, in place of a session it may have opened meanwhile.
DialBinds(s, a) ==
    /\ s \notin used
    /\ used' = used \cup {s}
    /\ dialed' = dialed \cup {<<s, a>>}
    /\ gw' = authenticateAgent(createSession(gw, s), s, a)
    /\ UNCHANGED <<proved, verifying, ended>>

\* The process dies, or stopWsGateway clears the maps: no socket survives.
GatewayStops ==
    /\ gw' = EmptyGateway
    /\ verifying' = {}
    /\ ended' = used
    /\ UNCHANGED <<used, proved, dialed>>

GatewayInit ==
    /\ gw = EmptyGateway
    /\ used = {} /\ proved = {} /\ dialed = {} /\ verifying = {} /\ ended = {}

SocketNext(s) ==
    \/ \E a \in Agents : AuthResponse(s, a) \/ AuthBind(s, a) \/ AuthLookupFails(s, a)
    \/ AuthRefused(s)
    \/ \E joins \in BOOLEAN : Traffic(s, joins)
    \/ SocketDown(s) \/ CloseEvent(s)

GatewayNext ==
    \/ \E s \in Sessions, a \in Agents : DialBinds(s, a)
    \/ \E s \in Sessions : Connect(s) \/ SocketNext(s)
    \/ GatewayStops

GatewaySpec == GatewayInit /\ [][GatewayNext]_gatewayVars

-----------------------------------------------------------------------------
(* What routing promises. *)

\* The other end of s has signed as a, or was reached at a's endpoint.
KnownAs(s, a) == <<s, a>> \in proved \cup dialed

\* The two maps of sessionManager.ts are each other's inverse as long as one wallet speaks
\* on a socket: no session claims an agent that is routed elsewhere, and an agent's session
\* knows the agent unless another wallet has signed on the same socket.
RoutesAgree ==
    /\ \A s \in Sessions : gw.sessionToAgent[s] # NoAgent =>
           gw.agentToSession[gw.sessionToAgent[s]] = s
    /\ \A a \in Agents : LET s == gw.agentToSession[a] IN
           s # NoSession /\ (\A b \in Agents \ {a} : ~KnownAs(s, b))
               => gw.sessionToAgent[s] = a

\* What is sent to an agent goes to an authenticated socket that is known as the agent's,
\* and what arrives on a socket counts as sent by an agent that is reached by it, whatever
\* closed, was replaced or was removed while a wallet was looked up.
RoutedToOwner ==
    /\ \A a \in Agents : LET s == gw.agentToSession[a] IN
           s # NoSession => KnownAs(s, a) /\ (s \in gw.sockets => s \in gw.authed)
    /\ \A s \in Sessions : LET a == gw.sessionToAgent[s] IN
           a # NoAgent => gw.agentToSession[a] = s /\ s \in gw.sockets \cap gw.authed

\* Every session that is authenticated and still open is one that an agent is reached by:
\* a replaced socket is never left behind half alive.
OpenIsRouted ==
    \A s \in gw.authed \cap gw.open :
        gw.sessionToAgent[s] # NoAgent /\ gw.agentToSession[gw.sessionToAgent[s]] = s
=============================================================================
