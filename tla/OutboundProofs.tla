---------------------------- MODULE OutboundProofs ----------------------------
(***************************************************************************)
(* Theorems about the gateway and the outbound router, for any agents and  *)
(* any number of sessions and calls.  First the session manager alone: an  *)
(* agent's messages go to a socket that is known as the agent's.  Then the *)
(* router, which only uses the manager by its operations, so that what is  *)
(* proved of routing holds while messages are delivered, agents are dialed *)
(* and the process stops and restarts.                                     *)
(***************************************************************************)
EXTENDS OutboundDelivery, TLAPS

-----------------------------------------------------------------------------
(* The inductive invariant, as a property of one value g of the maps, of   *)
(* what the other ends are known as, and of the sessions that have begun.  *)

Pairs == Sessions \X Agents

Claims(g) == \A s \in Sessions : g.sessionToAgent[s] # NoAgent =>
                 /\ g.agentToSession[g.sessionToAgent[s]] = s
                 /\ s \in g.sockets \cap g.authed

Routes(g, known) == \A a \in Agents : g.agentToSession[a] # NoSession =>
    /\ <<g.agentToSession[a], a>> \in known
    /\ g.agentToSession[a] \in g.sockets => g.agentToSession[a] \in g.authed
    /\ \/ g.sessionToAgent[g.agentToSession[a]] = a
       \/ \E b \in Agents \ {a} : <<g.agentToSession[a], b>> \in known

Coherent(g, known, begun) ==
    /\ g \in Gateways
    /\ g.authed \subseteq g.sockets /\ g.sockets \subseteq begun
    /\ known \in SUBSET Pairs /\ \A p \in known : p[1] \in begun
    /\ Claims(g) /\ Routes(g, known)
    /\ \A s \in g.authed : g.sessionToAgent[s] # NoAgent

GatewayInv ==
    /\ used \in SUBSET Sessions /\ ended \in SUBSET Sessions
    /\ proved \in SUBSET Pairs /\ dialed \in SUBSET Pairs /\ verifying \in SUBSET proved
    /\ Coherent(gw, proved \cup dialed, used)

LEMMA InvariantGives ==
    ASSUME GatewayInv
    PROVE  GatewayTypeOK /\ RoutesAgree /\ RoutedToOwner /\ OpenIsRouted
  <1>1. GatewayTypeOK BY DEF GatewayInv, Coherent, Pairs, GatewayTypeOK
  <1>2. RoutesAgree BY DEF GatewayInv, Coherent, Claims, Routes, KnownAs, RoutesAgree
  <1>3. RoutedToOwner BY DEF GatewayInv, Coherent, Claims, Routes, KnownAs, RoutedToOwner
  <1>4. OpenIsRouted BY DEF GatewayInv, Coherent, Claims, Gateways, OpenIsRouted
  <1>5. QED BY <1>1, <1>2, <1>3, <1>4

-----------------------------------------------------------------------------
(* The operations of the manager keep the maps coherent. *)

LEMMA EmptyCoherent ==
    ASSUME NEW begun, NEW known \in SUBSET Pairs, \A p \in known : p[1] \in begun
    PROVE  Coherent(EmptyGateway, known, begun)
  BY NoAgentAssumption, NoSessionAssumption
  DEF Coherent, Claims, Routes, EmptyGateway, Gateways

\* Closing sockets, joining a ticket's observers and learning more of the other ends.
LEMMA QuietCoherent ==
    ASSUME NEW known, NEW begun, NEW g, Coherent(g, known, begun), NEW h \in Gateways,
           h.sockets = g.sockets, h.authed = g.authed,
           h.agentToSession = g.agentToSession, h.sessionToAgent = g.sessionToAgent,
           NEW more \in SUBSET Pairs, known \subseteq more, \A p \in more : p[1] \in begun
    PROVE  Coherent(h, more, begun)
  <1>1. Claims(h) BY DEF Coherent, Claims
  <1>2. Routes(h, more) BY DEF Coherent, Routes
  <1>3. QED BY <1>1, <1>2 DEF Coherent

LEMMA RemoveType ==
    ASSUME NEW g \in Gateways, NEW s \in Sessions
    PROVE  removeSession(g, s) \in Gateways
  BY DEF removeSession, Gateways

LEMMA RemoveCoherent ==
    ASSUME NEW known, NEW begun, NEW g, Coherent(g, known, begun), NEW s \in Sessions
    PROVE  Coherent(removeSession(g, s), known, begun)
  <1> DEFINE h == removeSession(g, s)
             bound == g.sessionToAgent[s]
  <1>1. /\ h \in Gateways
        /\ h.sockets = g.sockets \ {s} /\ h.open \subseteq g.open /\ h.authed = g.authed \ {s}
        /\ \A a \in Agents : h.agentToSession[a] = IF a = bound THEN NoSession ELSE g.agentToSession[a]
        /\ \A t \in Sessions : h.sessionToAgent[t] = IF t = s THEN NoAgent ELSE g.sessionToAgent[t]
    BY RemoveType DEF Coherent, removeSession, Gateways
  <1>2. /\ g.agentToSession \in [Agents -> Sessions \cup {NoSession}]
        /\ g.sessionToAgent \in [Sessions -> Agents \cup {NoAgent}]
        /\ g.sockets \subseteq Sessions /\ g.authed \subseteq Sessions
    BY DEF Coherent, Gateways
  <1>3. Claims(h)
    <2>1. ASSUME NEW t \in Sessions, h.sessionToAgent[t] # NoAgent
          PROVE  h.agentToSession[h.sessionToAgent[t]] = t /\ t \in h.sockets \cap h.authed
      <3>1. t # s /\ h.sessionToAgent[t] = g.sessionToAgent[t] BY <1>1, <2>1
      <3>2. /\ g.sessionToAgent[t] \in Agents /\ g.agentToSession[g.sessionToAgent[t]] = t
            /\ t \in g.sockets \cap g.authed
        BY <1>2, <2>1, <3>1 DEF Coherent, Claims
      <3>3. g.sessionToAgent[t] # bound BY <3>1, <3>2, NoAgentAssumption DEF Coherent, Claims
      <3>4. QED BY <1>1, <3>1, <3>2, <3>3
    <2>2. QED BY <2>1 DEF Claims
  <1>4. Routes(h, known)
    <2>1. ASSUME NEW a \in Agents, h.agentToSession[a] # NoSession
          PROVE  /\ <<h.agentToSession[a], a>> \in known
                 /\ h.agentToSession[a] \in h.sockets => h.agentToSession[a] \in h.authed
                 /\ \/ h.sessionToAgent[h.agentToSession[a]] = a
                    \/ \E b \in Agents \ {a} : <<h.agentToSession[a], b>> \in known
      <3>1. a # bound /\ h.agentToSession[a] = g.agentToSession[a] BY <1>1, <2>1
      <3>2. /\ <<g.agentToSession[a], a>> \in known
            /\ g.agentToSession[a] \in g.sockets => g.agentToSession[a] \in g.authed
            /\ \/ g.sessionToAgent[g.agentToSession[a]] = a
               \/ \E b \in Agents \ {a} : <<g.agentToSession[a], b>> \in known
        BY <2>1, <3>1 DEF Coherent, Routes
      <3>3. g.sessionToAgent[g.agentToSession[a]] = a => g.agentToSession[a] # s
        BY <3>1
      <3>4. g.agentToSession[a] \in Sessions BY <1>2, <2>1, <3>1
      <3>5. QED BY <1>1, <3>1, <3>2, <3>3, <3>4
    <2>2. QED BY <2>1 DEF Routes
  <1>5. h.authed \subseteq h.sockets /\ h.sockets \subseteq begun
    BY <1>1 DEF Coherent
  <1>6. \A t \in h.authed : h.sessionToAgent[t] # NoAgent
    BY <1>1, <1>2 DEF Coherent
  <1> HIDE DEF h
  <1>7. QED BY <1>1, <1>3, <1>4, <1>5, <1>6 DEF Coherent, h

\* What entering a session in both maps leaves of the record.
Attached(g, s, a) == [g EXCEPT !.agentToSession[a] = s, !.sessionToAgent[s] = a]

LEMMA AttachFields ==
    ASSUME NEW g \in Gateways, NEW s \in Sessions, NEW a \in Agents
    PROVE  /\ Attached(g, s, a) \in Gateways
           /\ Attached(g, s, a).sockets = g.sockets /\ Attached(g, s, a).open = g.open
           /\ Attached(g, s, a).authed = g.authed /\ Attached(g, s, a).observers = g.observers
           /\ \A b \in Agents : Attached(g, s, a).agentToSession[b]
                                    = IF b = a THEN s ELSE g.agentToSession[b]
           /\ \A t \in Sessions : Attached(g, s, a).sessionToAgent[t]
                                    = IF t = s THEN a ELSE g.sessionToAgent[t]
  <1> DEFINE h == Attached(g, s, a)
             routes == [g.agentToSession EXCEPT ![a] = s]
             names == [g.sessionToAgent EXCEPT ![s] = a]
  <1>1. /\ routes \in [Agents -> Sessions \cup {NoSession}]
        /\ names \in [Sessions -> Agents \cup {NoAgent}]
        /\ \A b \in Agents : routes[b] = IF b = a THEN s ELSE g.agentToSession[b]
        /\ \A t \in Sessions : names[t] = IF t = s THEN a ELSE g.sessionToAgent[t]
    BY DEF Gateways
  <1>2. h = [[g EXCEPT !.agentToSession = routes] EXCEPT !.sessionToAgent = names]
    BY DEF Attached, Gateways
  <1> HIDE DEF h, routes, names
  <1>3. /\ h \in Gateways /\ h.sockets = g.sockets /\ h.open = g.open
        /\ h.authed = g.authed /\ h.observers = g.observers
        /\ h.agentToSession = routes /\ h.sessionToAgent = names
    BY <1>1, <1>2 DEF Gateways
  <1>4. QED BY <1>1, <1>3 DEF h

\* Binding agent a, whom s is known as, to s, when no other session claims a.
LEMMA AttachCoherent ==
    ASSUME NEW known, NEW begun, NEW g, Coherent(g, known, begun),
           NEW s \in g.sockets, NEW a \in Agents,
           <<s, a>> \in known, \A t \in Sessions \ {s} : g.sessionToAgent[t] # a,
           NEW k \in Gateways, k.sockets = g.sockets, k.open = g.open, k.authed = g.authed \cup {s},
           k.agentToSession = g.agentToSession, k.sessionToAgent = g.sessionToAgent
    PROVE  Coherent(Attached(k, s, a), known, begun)
  <1> DEFINE h == Attached(k, s, a)
  <1>1. /\ g.agentToSession \in [Agents -> Sessions \cup {NoSession}]
        /\ g.sessionToAgent \in [Sessions -> Agents \cup {NoAgent}]
        /\ s \in Sessions /\ g.authed \subseteq Sessions
    BY DEF Coherent, Gateways
  <1>2. /\ \A b \in Agents : h.agentToSession[b] = IF b = a THEN s ELSE g.agentToSession[b]
        /\ \A t \in Sessions : h.sessionToAgent[t] = IF t = s THEN a ELSE g.sessionToAgent[t]
        /\ h \in Gateways /\ h.sockets = g.sockets /\ h.open = g.open /\ h.authed = g.authed \cup {s}
    BY <1>1, AttachFields
  <1> HIDE DEF h
  <1>3. Claims(h)
    <2>1. ASSUME NEW t \in Sessions, h.sessionToAgent[t] # NoAgent
          PROVE  h.agentToSession[h.sessionToAgent[t]] = t /\ t \in h.sockets \cap h.authed
      <3>1. CASE t = s BY <1>2, <3>1
      <3>2. CASE t # s
        <4>1. h.sessionToAgent[t] = g.sessionToAgent[t] BY <1>2, <3>2
        <4>2. /\ g.sessionToAgent[t] \in Agents /\ g.agentToSession[g.sessionToAgent[t]] = t
              /\ t \in g.sockets \cap g.authed
          BY <1>1, <2>1, <4>1 DEF Coherent, Claims
        <4>3. g.sessionToAgent[t] # a BY <3>2
        <4>4. QED BY <1>2, <4>1, <4>2, <4>3
      <3>3. QED BY <3>1, <3>2
    <2>2. QED BY <2>1 DEF Claims
  <1>4. Routes(h, known)
    <2>1. ASSUME NEW b \in Agents, h.agentToSession[b] # NoSession
          PROVE  /\ <<h.agentToSession[b], b>> \in known
                 /\ h.agentToSession[b] \in h.sockets => h.agentToSession[b] \in h.authed
                 /\ \/ h.sessionToAgent[h.agentToSession[b]] = b
                    \/ \E c \in Agents \ {b} : <<h.agentToSession[b], c>> \in known
      <3>1. CASE b = a BY <1>1, <1>2, <3>1
      <3>2. CASE b # a
        <4> DEFINE t == g.agentToSession[b]
        <4>1. h.agentToSession[b] = t BY <1>2, <3>2
        <4>2. /\ <<t, b>> \in known /\ t \in Sessions
              /\ t \in g.sockets => t \in g.authed
              /\ g.sessionToAgent[t] = b \/ \E c \in Agents \ {b} : <<t, c>> \in known
          BY <1>1, <2>1, <4>1 DEF Coherent, Routes
        <4>3. CASE t = s BY <1>2, <3>2, <4>1, <4>2, <4>3
        <4>4. CASE t # s
          <5>1. h.sessionToAgent[t] = g.sessionToAgent[t] BY <1>2, <4>2, <4>4
          <5>2. t \in h.sockets => t \in h.authed BY <1>2, <4>2
          <5> HIDE DEF t
          <5>3. QED BY <4>1, <4>2, <5>1, <5>2
        <4>5. QED BY <4>3, <4>4
      <3>3. QED BY <3>1, <3>2
    <2>2. QED BY <2>1 DEF Routes
  <1>5. h.authed \subseteq h.sockets /\ h.sockets \subseteq begun
    BY <1>2 DEF Coherent
  <1>6. \A t \in h.authed : h.sessionToAgent[t] # NoAgent
    BY <1>1, <1>2, NoAgentAssumption DEF Coherent
  <1>7. known \in SUBSET Pairs /\ \A p \in known : p[1] \in begun BY DEF Coherent
  <1>8. QED BY <1>2, <1>3, <1>4, <1>5, <1>6, <1>7 DEF Coherent, h

\* The binding of an agent to a session that is known as the agent's, after its former
\* session was removed.
LEMMA BindCoherent ==
    ASSUME NEW known, NEW begun, NEW g, Coherent(g, known, begun),
           NEW s \in Sessions, NEW a \in Agents, <<s, a>> \in known
    PROVE  Coherent(authenticateAgent(g, s, a), known, begun)
  <1> DEFINE authed == [g EXCEPT !.authed = @ \cup {s}]
             existing == g.agentToSession[a]
             h == authenticateAgent(g, s, a)
  <1>1. g \in Gateways BY DEF Coherent
  <1>2. CASE s \notin g.sockets BY <1>2 DEF authenticateAgent
  <1>3. CASE s \in g.sockets /\ existing \in {NoSession, s}
    <2>0. /\ authed \in Gateways /\ authed.sockets = g.sockets /\ authed.open = g.open
          /\ authed.authed = g.authed \cup {s}
          /\ authed.agentToSession = g.agentToSession
          /\ authed.sessionToAgent = g.sessionToAgent
      BY <1>1, <1>3 DEF Gateways
    <2>1. h = Attached(authed, s, a)
      BY <1>3, <2>0 DEF authenticateAgent, bindAgent, Attached
    <2> HIDE DEF authed
    <2>2. \A t \in Sessions \ {s} : g.sessionToAgent[t] # a
      BY <1>3, NoSessionAssumption, NoAgentAssumption DEF Coherent, Claims
    <2>3. QED BY <1>3, <2>0, <2>1, <2>2, AttachCoherent
  <1>4. CASE s \in g.sockets /\ existing \notin {NoSession, s}
    <2> DEFINE r == removeSession(g, existing)
               k == removeSession(authed, existing)
    <2>1. existing \in Sessions
      BY <1>1, <1>4 DEF Gateways
    <2>2. /\ Coherent(r, known, begun) /\ r \in Gateways
          /\ s \in r.sockets
          /\ r.agentToSession[a] \in {NoSession, existing}
          /\ r.sessionToAgent[existing] = NoAgent
      BY <1>1, <1>4, <2>1, RemoveCoherent, RemoveType DEF removeSession, Gateways
    <2>3. /\ k \in Gateways /\ k.sockets = r.sockets /\ k.open = r.open
          /\ k.authed = r.authed \cup {s}
          /\ k.agentToSession = r.agentToSession /\ k.sessionToAgent = r.sessionToAgent
      <3>1. /\ authed \in Gateways /\ authed.sockets = g.sockets /\ authed.open = g.open
            /\ authed.authed = g.authed \cup {s}
            /\ authed.agentToSession = g.agentToSession
            /\ authed.sessionToAgent = g.sessionToAgent
        BY <1>1, <1>4 DEF Gateways
      <3> HIDE DEF authed
      <3>2. k \in Gateways BY <2>1, <3>1, RemoveType
      <3>3. QED BY <1>4, <2>1, <3>1, <3>2 DEF removeSession
    <2>4. h = Attached(k, s, a)
      <3>1. authed.sockets = g.sockets /\ authed.agentToSession = g.agentToSession
        BY <1>1 DEF Gateways
      <3>2. QED BY <1>4, <3>1 DEF authenticateAgent, bindAgent, Attached
\* The former session may have been another agent's by then: none claims a any more.
    <2>5. \A t \in Sessions \ {s} : r.sessionToAgent[t] # a
      BY <2>1, <2>2, NoSessionAssumption, NoAgentAssumption DEF Coherent, Claims
    <2> HIDE DEF k, r
    <2>6. Coherent(Attached(k, s, a), known, begun) BY <2>2, <2>3, <2>5, AttachCoherent
    <2>7. QED BY <2>4, <2>6
  <1>5. QED BY <1>2, <1>3, <1>4

\* A session that begins is unknown to the maps.
LEMMA CreateCoherent ==
    ASSUME NEW known, NEW begun, NEW g, Coherent(g, known, begun),
           NEW s \in Sessions, s \notin begun
    PROVE  Coherent(createSession(g, s), known, begun \cup {s})
  <1> DEFINE h == createSession(g, s)
  <1>1. /\ h \in Gateways /\ h.sockets = g.sockets \cup {s} /\ h.open = g.open \cup {s}
        /\ h.authed = g.authed
        /\ h.agentToSession = g.agentToSession /\ h.sessionToAgent = g.sessionToAgent
    BY DEF createSession, Coherent, Gateways
  <1> HIDE DEF h
  <1>2. Claims(h) BY <1>1 DEF Coherent, Claims
  <1>3. Routes(h, known)
    <2>1. ASSUME NEW a \in Agents, h.agentToSession[a] # NoSession
          PROVE  h.agentToSession[a] # s
      <3>1. <<g.agentToSession[a], a>> \in known BY <1>1, <2>1 DEF Coherent, Routes
      <3>2. <<g.agentToSession[a], a>>[1] \in begun BY <3>1 DEF Coherent
      <3>3. QED BY <1>1, <3>2
    <2>2. QED BY <1>1, <2>1 DEF Coherent, Routes
  <1>4. QED BY <1>1, <1>2, <1>3 DEF Coherent, h

-----------------------------------------------------------------------------
(* Every step keeps the invariant. *)

LEMMA QuietStep ==
    ASSUME GatewayInv, NEW s \in Sessions,
           AuthRefused(s) \/ SocketDown(s)
             \/ \E a \in Agents : AuthResponse(s, a) \/ AuthLookupFails(s, a)
    PROVE  GatewayInv'
  <1>1. gw \in Gateways /\ gw.open \subseteq Sessions /\ gw.sockets \subseteq used
        /\ Coherent(gw, proved \cup dialed, used)
    BY DEF GatewayInv, Coherent, Gateways
  <1>2. ASSUME NEW a \in Agents, AuthResponse(s, a) PROVE GatewayInv'
    <2>1. proved' = proved \cup {<<s, a>>} /\ proved' \in SUBSET Pairs /\ s \in used
      BY <1>1, <1>2 DEF AuthResponse, Challenged, GatewayInv, Pairs
    <2>2. \A p \in proved' \cup dialed : p[1] \in used
      BY <1>1, <2>1 DEF Coherent
    <2>3. Coherent(gw, proved' \cup dialed, used)
      BY <1>1, <2>1, <2>2, QuietCoherent DEF GatewayInv
    <2>4. QED BY <1>2, <2>1, <2>3 DEF GatewayInv, AuthResponse
  <1>3. ASSUME NEW a \in Agents, AuthLookupFails(s, a) PROVE GatewayInv'
    BY <1>3 DEF AuthLookupFails, GatewayInv
  <1>4. ASSUME gw' = closeSocket(gw, s), UNCHANGED <<used, proved, dialed, verifying, ended>>
        PROVE  GatewayInv'
    <2>1. /\ gw' \in Gateways /\ gw'.sockets = gw.sockets
          /\ gw'.authed = gw.authed /\ gw'.agentToSession = gw.agentToSession
          /\ gw'.sessionToAgent = gw.sessionToAgent
      BY <1>1, <1>4 DEF closeSocket, Gateways
    <2>2. proved \cup dialed \in SUBSET Pairs /\ \A p \in proved \cup dialed : p[1] \in used
      BY <1>1 DEF Coherent
    <2>3. Coherent(gw', proved \cup dialed, used) BY <1>1, <2>1, <2>2, QuietCoherent
    <2>4. QED BY <1>4, <2>3 DEF GatewayInv
  <1>5. QED BY <1>2, <1>3, <1>4 DEF AuthRefused, SocketDown

\* A message of an authenticated session binds the agent that is bound to it.
LEMMA TrafficStep ==
    ASSUME GatewayInv, NEW s \in Sessions, NEW joins \in BOOLEAN, Traffic(s, joins)
    PROVE  GatewayInv'
  <1>1. s \in gw.sockets /\ s \in gw.authed /\ Coherent(gw, proved \cup dialed, used)
    BY DEF Traffic, GatewayInv
  <1>2. gw.sessionToAgent[s] # NoAgent BY <1>1 DEF Coherent
  <1>3. PICK a \in Agents :
          /\ gw.sessionToAgent[s] = a
          /\ gw' = IF joins THEN [bindAgent(gw, s, a) EXCEPT !.observers = @ \cup {a}]
                   ELSE bindAgent(gw, s, a)
    BY <1>2 DEF Traffic
  <1> DEFINE bound == bindAgent(gw, s, a)
  <1>4. gw \in Gateways /\ gw.agentToSession[a] = s
    BY <1>1, <1>3, NoAgentAssumption DEF Coherent, Claims
  <1>5. bound = Attached(gw, s, a)
    BY <1>1, <1>4 DEF bindAgent, Attached
  <1>6. gw' = IF joins THEN [bound EXCEPT !.observers = @ \cup {a}] ELSE bound
    BY <1>3
  <1> HIDE DEF bound
  <1>7. /\ bound \in Gateways /\ bound.sockets = gw.sockets /\ bound.open = gw.open
        /\ bound.authed = gw.authed
        /\ bound.agentToSession = gw.agentToSession /\ bound.sessionToAgent = gw.sessionToAgent
        /\ bound.observers = gw.observers
    <2>1. /\ gw.agentToSession \in [Agents -> Sessions \cup {NoSession}]
          /\ gw.sessionToAgent \in [Sessions -> Agents \cup {NoAgent}]
      BY <1>4 DEF Gateways
    <2>2. /\ bound \in Gateways /\ bound.sockets = gw.sockets /\ bound.open = gw.open
          /\ bound.authed = gw.authed /\ bound.observers = gw.observers
          /\ \A b \in Agents : bound.agentToSession[b] = gw.agentToSession[b]
          /\ \A t \in Sessions : bound.sessionToAgent[t] = gw.sessionToAgent[t]
      BY <1>3, <1>4, <1>5, AttachFields
    <2>3. /\ bound.agentToSession \in [Agents -> Sessions \cup {NoSession}]
          /\ bound.sessionToAgent \in [Sessions -> Agents \cup {NoAgent}]
      BY <2>2 DEF Gateways
    <2>4. QED BY <2>1, <2>2, <2>3
  <1>8. /\ gw' \in Gateways /\ gw'.sockets = gw.sockets
        /\ gw'.authed = gw.authed
        /\ gw'.agentToSession = gw.agentToSession /\ gw'.sessionToAgent = gw.sessionToAgent
    BY <1>6, <1>7 DEF Gateways
  <1>9. proved \cup dialed \in SUBSET Pairs /\ \A p \in proved \cup dialed : p[1] \in used
    BY <1>1 DEF Coherent
  <1>10. Coherent(gw', proved \cup dialed, used) BY <1>1, <1>8, <1>9, QuietCoherent
  <1>11. QED BY <1>10 DEF GatewayInv, Traffic

LEMMA NextKeeps == GatewayInv /\ [GatewayNext]_gatewayVars => GatewayInv'
  <1> SUFFICES ASSUME GatewayInv, [GatewayNext]_gatewayVars PROVE GatewayInv'
    OBVIOUS
  <1> DEFINE known == proved \cup dialed
  <1>1. Coherent(gw, known, used) /\ known \in SUBSET Pairs /\ \A p \in known : p[1] \in used
    BY DEF GatewayInv, Coherent
  <1>2. ASSUME NEW s \in Sessions, Connect(s) PROVE GatewayInv'
    <2>1. Coherent(gw', known, used') BY <1>1, <1>2, CreateCoherent DEF Connect
    <2>2. QED BY <1>2, <2>1 DEF GatewayInv, Connect
  <1>3. ASSUME NEW s \in Sessions, NEW a \in Agents, DialBinds(s, a) PROVE GatewayInv'
    <2> DEFINE g == createSession(gw, s)
               more == known \cup {<<s, a>>}
    <2>1. Coherent(g, known, used \cup {s}) BY <1>1, <1>3, CreateCoherent DEF DialBinds
    <2>2. more \in SUBSET Pairs /\ \A p \in more : p[1] \in used \cup {s}
      BY <1>1 DEF Pairs
    <2>3. Coherent(g, more, used \cup {s})
      <3>1. g \in Gateways BY <2>1 DEF Coherent
      <3> HIDE DEF g, known
      <3>2. QED BY <2>1, <2>2, <3>1, QuietCoherent
    <2>4. Coherent(gw', more, used') BY <1>3, <2>3, BindCoherent DEF DialBinds
    <2>5. proved' \cup dialed' = more BY <1>3 DEF DialBinds
    <2>6. dialed' \in SUBSET Pairs BY <1>3 DEF DialBinds, GatewayInv, Pairs
    <2>7. QED BY <1>3, <2>4, <2>5, <2>6 DEF GatewayInv, DialBinds
  <1>4. ASSUME NEW s \in Sessions, NEW a \in Agents, AuthBind(s, a) PROVE GatewayInv'
    <2>1. <<s, a>> \in known BY <1>4 DEF AuthBind, GatewayInv
    <2>2. Coherent(gw', known, used) BY <1>1, <1>4, <2>1, BindCoherent DEF AuthBind
    <2>3. QED BY <1>4, <2>2 DEF GatewayInv, AuthBind
  <1>5. ASSUME NEW s \in Sessions, CloseEvent(s) PROVE GatewayInv'
    <2>1. Coherent(gw', known, used) BY <1>1, <1>5, RemoveCoherent DEF CloseEvent
    <2>2. QED BY <1>5, <2>1 DEF GatewayInv, CloseEvent
  <1>6. ASSUME GatewayStops PROVE GatewayInv'
    <2>1. Coherent(gw', known, used) BY <1>1, <1>6, EmptyCoherent DEF GatewayStops
    <2>2. QED BY <1>6, <2>1 DEF GatewayInv, GatewayStops
  <1>7. ASSUME UNCHANGED gatewayVars PROVE GatewayInv'
    BY <1>7 DEF gatewayVars, GatewayInv
  <1>8. QED
    BY <1>2, <1>3, <1>4, <1>5, <1>6, <1>7, QuietStep, TrafficStep DEF GatewayNext, SocketNext

LEMMA GatewayInvariant == GatewaySpec => []GatewayInv
  <1>1. GatewayInit => GatewayInv
    BY EmptyCoherent DEF GatewayInit, GatewayInv, Pairs
  <1>2. QED BY <1>1, NextKeeps, PTL DEF GatewaySpec

-----------------------------------------------------------------------------
\* The two maps agree: no session claims an agent that is routed elsewhere, and an agent's
\* session knows the agent unless another wallet has signed on the same socket, whatever
\* connects, closes or is replaced.
THEOREM MapsAgree == GatewaySpec => []RoutesAgree
  BY GatewayInvariant, InvariantGives, PTL

\* An agent's messages go to an authenticated socket on which its wallet signed or which was
\* opened at its endpoint, and what arrives on a socket counts as such an agent's, for any
\* wallets that sign on one socket and any order of lookups and closing.
THEOREM MessagesReachTheirOwner == GatewaySpec => []RoutedToOwner
  BY GatewayInvariant, InvariantGives, PTL

\* A replaced session is closed: an open, authenticated one is some agent's way to be
\* reached.
THEOREM NoSessionLeftBehind == GatewaySpec => []OpenIsRouted
  BY GatewayInvariant, InvariantGives, PTL

-----------------------------------------------------------------------------
(* The router. *)

\* The scene stays what it was, so whoever signs or is dialed on a session is an agent.
SceneTyped == scene \in Scenes

LEMMA SceneKept == Spec => []SceneTyped
  <1>1. Init => SceneTyped BY DEF Init, SceneTyped
  <1>2. SceneTyped /\ [Next]_vars => SceneTyped'
    BY DEF SceneTyped, Next, vars, outboxVars, Begin, CallStep, Requeue, Count, Evict, Create,
           CreateFails, Attempt, MarkSent, ProcessorStep, Flush, FlushEnds, ProcessNext, Dial, DialSucceeds,
           DialFails, ProcessSent, ProcessRetry, Stored, Gateway, Shutdown, Stop, Restart
  <1>3. QED BY <1>1, <1>2, PTL DEF Spec

\* A step of the router is a step of the gateway or leaves it alone.
LEMMA StepOfGateway ==
    ASSUME SceneTyped, [Next]_vars
    PROVE  [GatewayNext]_gatewayVars
  <1>0. scene.visits \subseteq Sessions \X Agents BY ScenesAssumption DEF SceneTyped
  <1>1. ASSUME NEW c \in Calls, Begin(c) \/ CallStep(c) PROVE UNCHANGED gatewayVars
    BY <1>1 DEF Begin, CallStep, Requeue, Count, Evict, Create, CreateFails, Attempt, MarkSent
  <1>2. ASSUME ProcessorStep PROVE [GatewayNext]_gatewayVars
    <2>1. ASSUME NEW s \in Sessions, DialSucceeds(s) PROVE GatewayNext
      BY <1>0, <2>1 DEF DialSucceeds, GatewayNext
    <2>2. QED
      BY <1>2, <2>1 DEF ProcessorStep, Flush, FlushEnds, ProcessNext, Dial, DialFails, ProcessSent,
                        ProcessRetry, Stored
  <1>3. ASSUME Gateway PROVE GatewayNext
    <2>1. ASSUME NEW v \in scene.visits, Connect(v[1]) PROVE GatewayNext
      BY <1>0, <2>1 DEF GatewayNext
    <2>2. QED BY <1>3, <2>1 DEF Gateway, GatewayNext
  <1>4. ASSUME Shutdown \/ Stop \/ Restart PROVE [GatewayNext]_gatewayVars
    BY <1>4 DEF Shutdown, Stop, Restart, GatewayNext
  <1>5. ASSUME UNCHANGED vars PROVE UNCHANGED gatewayVars
    BY <1>5 DEF vars
  <1>6. QED BY <1>1, <1>2, <1>3, <1>4, <1>5 DEF Next

\* While messages are delivered, agents dialed and the process restarted, what is sent to
\* an agent goes to a socket that is known as the agent's, and no replaced socket is left
\* half alive.
THEOREM DeliveryReachesOwner == Spec => [](RoutedToOwner /\ OpenIsRouted)
  <1>1. Init => GatewayInit BY DEF Init
  <1>2. Spec => GatewaySpec
    BY <1>1, SceneKept, StepOfGateway, PTL DEF Spec, GatewaySpec
  <1>3. QED BY <1>2, MessagesReachTheirOwner, NoSessionLeftBehind, PTL

-----------------------------------------------------------------------------
(* The outbox. *)

\* A delivery that has begun is one of the scene's; it marks what it has written.
CallInv == \A c \in Calls :
    /\ call[c].pc # "new" => c \in DOMAIN asked
    /\ call[c].pc = "mark" => written[asked[c].msg] > 0

\* A row that may still be tried has retries left, and a row counts as sent once written.
RowInv == \A k \in Messages :
    /\ row[k].id <= created
    /\ row[k].status \in {"queued", "sent"} => row[k].retryCount < MAX_RETRIES
    /\ row[k].status = "sent" => written[k] > 0

\* What the processor has read was queued then: unless it was evicted, it has retries left
\* and has not been given up, which only the processor does.
Working == proc.pc \in {"dial", "dialing", "sent", "retry"}
ReadOK(r, rows, n) ==
    /\ r \in Reads /\ r.retryCount < MAX_RETRIES /\ r.id <= n
    /\ rows[r.msg].id = r.id => rows[r.msg].status # "dead_letter"
ProcInv ==
    /\ \A r \in proc.batch : ReadOK(r, row, created)
    /\ \A q, r \in proc.batch : q.msg = r.msg => q = r
    /\ Working => /\ ReadOK(proc.at, row, created)
                  /\ \A r \in proc.batch : r.msg # proc.at.msg
    /\ proc.pc = "sent" => written[proc.at.msg] > 0

RouterType ==
    /\ up \in {"up", "stopping", "down"} /\ stops \in 0..MaxStops
    /\ row \in [Messages -> Rows]
    /\ created \in Nat
    /\ scene \in Scenes
    /\ call \in [Calls -> [pc: {"new", "requeue", "count", "evict", "create", "attempt",
                                "mark", "done"}, victims: SUBSET Messages]]
    /\ proc \in [pc: {"idle", "next", "dial", "dialing", "sent", "retry"},
                at: Reads \cup {Nothing}, batch: SUBSET Reads]
    /\ written \in [Messages -> 0..2]

RouterInv == RouterType /\ CallInv /\ RowInv /\ ProcInv

LEMMA AskedMessage ==
    ASSUME RouterInv, NEW c \in Calls, c \in DOMAIN asked \/ call[c].pc # "new"
    PROVE  c \in DOMAIN asked /\ asked[c].msg \in Messages
  BY ScenesAssumption DEF RouterInv, RouterType, CallInv, asked

LEMMA WrittenGrows ==
    ASSUME RouterType, NEW k \in Messages, Write(k)
    PROVE  /\ written' \in [Messages -> 0..2] /\ written'[k] > 0
           /\ \A j \in Messages : written'[j] >= written[j]
  BY DEF RouterType, Write

\* What a step of anybody else leaves of the processor's invariant.
LEMMA ProcKept ==
    ASSUME RouterInv, UNCHANGED proc, created' \in Nat, created' >= created,
           \A k \in Messages : row'[k].status = "dead_letter" /\ row'[k].id <= created
                   => row[k].status = "dead_letter" /\ row'[k].id = row[k].id,
           written' \in [Messages -> 0..2], \A k \in Messages : written'[k] >= written[k]
    PROVE  ProcInv'
  <1>0. /\ proc.batch \in SUBSET Reads /\ created \in Nat /\ written \in [Messages -> 0..2]
        /\ \A r \in Reads : r.msg \in Messages /\ r.id \in Nat
    BY DEF RouterInv, RouterType, Reads
  <1>1. ASSUME NEW r, ReadOK(r, row, created) PROVE ReadOK(r, row', created')
    <2>1. r \in Reads /\ r.msg \in Messages /\ r.id \in Nat BY <1>0, <1>1 DEF ReadOK
    <2>2. r.id <= created' BY <1>0, <1>1, <2>1 DEF ReadOK
    <2>3. row'[r.msg].id = r.id => row'[r.msg].status # "dead_letter"
      BY <1>1, <2>1 DEF ReadOK
    <2>4. QED BY <1>1, <2>1, <2>2, <2>3 DEF ReadOK
  <1>2. proc.pc = "sent" => written'[proc.at.msg] > 0
    <2>1. proc.pc = "sent" => proc.at.msg \in Messages /\ written[proc.at.msg] > 0
      BY <1>0 DEF RouterInv, ProcInv, Working, ReadOK
    <2>2. QED BY <1>0, <2>1
  <1>3. QED BY <1>1, <1>2 DEF RouterInv, ProcInv, Working

\* The rest of the invariant, when one row has changed at most.
LEMMA RowChanged ==
    ASSUME RouterInv, NEW k \in Messages, NEW v \in Rows, row' = [row EXCEPT ![k] = v],
           created' \in Nat, created' >= created, v.id <= created',
           v.status \in {"queued", "sent"} => v.retryCount < MAX_RETRIES,
           v.status = "sent" => written[k] > 0, UNCHANGED written
    PROVE  row' \in [Messages -> Rows] /\ RowInv'
  <1>1. /\ row \in [Messages -> Rows] /\ created \in Nat
        /\ \A j \in Messages : row[j].id \in Nat
    BY DEF RouterInv, RouterType, Rows
  <1>2. row' \in [Messages -> Rows] /\ row'[k] = v
        /\ \A j \in Messages : j # k => row'[j] = row[j]
    BY <1>1
  <1>3. QED BY <1>1, <1>2 DEF RouterInv, RowInv

LEMMA DeliveryKeeps ==
    ASSUME RouterInv, NEW c \in Calls, Begin(c) \/ CallStep(c)
    PROVE  RouterInv'
  <1> DEFINE k == asked[c].msg
             Pcs == {"new", "requeue", "count", "evict", "create", "attempt", "mark", "done"}
             CallType == [Calls -> [pc: Pcs, victims: SUBSET Messages]]
  <1>0. /\ c \in DOMAIN asked /\ k \in Messages /\ UNCHANGED <<up, stops, scene, proc>>
        /\ call \in CallType /\ call[c].victims \in SUBSET Messages
    <2>1. c \in DOMAIN asked /\ k \in Messages
      BY AskedMessage DEF Begin, CallStep, Requeue, Count, Evict, Create, CreateFails, Attempt,
                          MarkSent
    <2>2. QED
      BY <2>1 DEF Begin, CallStep, Requeue, Count, Evict, Create, CreateFails, Attempt, MarkSent,
                  RouterInv, RouterType
  <1>1. /\ row \in [Messages -> Rows] /\ created \in Nat /\ written \in [Messages -> 0..2]
        /\ row[k] \in Rows /\ RouterType /\ CallInv /\ RowInv /\ asked' = asked
    BY <1>0 DEF RouterInv, RouterType, asked
\* A call goes on; nothing that is written is taken back.
  <1>2. ASSUME NEW pc \in Pcs \ {"mark"}, NEW vs \in SUBSET Messages,
               call' = [call EXCEPT ![c].pc = pc, ![c].victims = vs],
               \A j \in Messages : written'[j] >= written[j], written' \in [Messages -> 0..2]
        PROVE  call' \in CallType /\ CallInv'
    <2>1. /\ call' \in CallType /\ call'[c].pc = pc
          /\ \A d \in Calls : d # c => call'[d] = call[d]
      BY <1>0, <1>2
    <2>2. ASSUME NEW d \in Calls, call'[d].pc = "mark" PROVE written'[asked[d].msg] > 0
      <3>1. call[d].pc = "mark" BY <1>2, <2>1, <2>2
      <3>2. asked[d].msg \in Messages /\ written[asked[d].msg] > 0
        BY <1>1, <3>1, AskedMessage DEF CallInv
      <3>3. QED BY <1>1, <1>2, <3>2
    <2>3. QED BY <1>0, <1>1, <2>1, <2>2 DEF CallInv
  <1>3. ASSUME NEW pc \in Pcs \ {"mark"}, Continue(c, pc),
               \A j \in Messages : written'[j] >= written[j], written' \in [Messages -> 0..2]
        PROVE  call' \in CallType /\ CallInv'
    <2>1. call' = [call EXCEPT ![c].pc = pc, ![c].victims = call[c].victims]
      BY <1>0, <1>3 DEF Continue
    <2>2. QED BY <1>0, <1>2, <1>3, <2>1
\* Nothing but the call, and one row, has changed.
  <1>4. ASSUME UNCHANGED <<row, created, written>>, call' \in CallType, CallInv'
        PROVE  RouterInv'
    <2>1. ProcInv' BY <1>0, <1>1, <1>4, ProcKept
    <2>2. RowInv' BY <1>1, <1>4 DEF RowInv
    <2>3. QED BY <1>0, <1>1, <1>4, <2>1, <2>2 DEF RouterInv, RouterType
  <1>5. ASSUME NEW v \in Rows, row' = [row EXCEPT ![k] = v], UNCHANGED written,
               created' \in Nat, created' >= created, v.id <= created',
               v.status \in {"queued", "sent"}, v.retryCount < MAX_RETRIES,
               v.status = "sent" => written[k] > 0, call' \in CallType, CallInv'
        PROVE  RouterInv'
    <2>1. row' \in [Messages -> Rows] /\ RowInv' BY <1>0, <1>5, RowChanged
    <2>2. \A j \in Messages : row'[j].status = "dead_letter" => row'[j] = row[j]
      BY <1>1, <1>5
    <2>3. ProcInv' BY <1>0, <1>1, <1>5, <2>2, ProcKept
    <2>4. QED BY <1>0, <1>1, <1>5, <2>1, <2>3 DEF RouterInv, RouterType
  <1>6. \A j \in Messages : written[j] >= written[j] BY <1>1
  <1>7. CASE Begin(c)
    <2>1. PICK pc \in Pcs \ {"mark"} : Continue(c, pc) BY <1>7 DEF Begin
    <2>2. QED BY <1>1, <1>3, <1>4, <1>6, <1>7, <2>1 DEF Begin
  <1>8. CASE Requeue(c)
    <2> DEFINE v == [row[k] EXCEPT !.status = IF @ = "sent" THEN "queued" ELSE @]
    <2>1. row' = [row EXCEPT ![k] = v] /\ UNCHANGED <<created, written>> /\ Continue(c, "attempt")
      BY <1>1, <1>8 DEF Requeue
    <2>2. call' \in CallType /\ CallInv' BY <1>1, <1>3, <1>6, <2>1
    <2>3. CASE row[k].status = "sent"
      <3>1. v \in Rows /\ v.status = "queued" /\ v.retryCount = row[k].retryCount
            /\ v.id = row[k].id
        BY <1>1, <2>3 DEF Rows
      <3>2. row[k].retryCount < MAX_RETRIES /\ row[k].id <= created
        BY <1>0, <1>1, <2>3 DEF RowInv
      <3> HIDE DEF v
      <3>3. /\ created' \in Nat /\ created' >= created /\ v.id <= created'
            /\ v.retryCount < MAX_RETRIES
        BY <1>1, <2>1, <3>1, <3>2
      <3>4. QED BY <1>5, <2>1, <2>2, <3>1, <3>3
    <2>4. CASE row[k].status # "sent"
      <3>1. row' = row BY <1>1, <2>1, <2>4 DEF Rows
      <3>2. QED BY <1>4, <2>1, <2>2, <3>1
    <2>5. QED BY <2>3, <2>4
  <1>9. CASE Count(c)
    <2>1. Oldest(Box(k), EvictCount) \in SUBSET Messages BY DEF Oldest, Box
    <2>2. UNCHANGED <<row, created, written>> BY <1>9 DEF Count
    <2>3. \/ Continue(c, "create")
          \/ call' = [call EXCEPT ![c].pc = "evict", ![c].victims = Oldest(Box(k), EvictCount)]
      BY <1>9 DEF Count, Continue
    <2>4. QED BY <1>1, <1>2, <1>3, <1>4, <1>6, <2>1, <2>2, <2>3
  <1>10. CASE Evict(c)
    <2>1. /\ row' = [j \in Messages |-> IF j \in call[c].victims THEN NoRow ELSE row[j]]
          /\ call' = [call EXCEPT ![c].pc = "create", ![c].victims = {}]
          /\ UNCHANGED <<created, written>>
      BY <1>10 DEF Evict
    <2>2. call' \in CallType /\ CallInv' BY <1>1, <1>2, <1>6, <2>1
    <2>3. NoRow \in Rows /\ NoRow.status = "none" /\ NoRow.id = 0
      BY BoundsAssumption DEF NoRow, Rows
    <2>4. row' \in [Messages -> Rows] BY <1>1, <2>1, <2>3
    <2>5. RowInv' BY <1>1, <2>1, <2>3 DEF RowInv
    <2>6. \A j \in Messages : row'[j].status = "dead_letter" => row'[j] = row[j]
      BY <2>1, <2>3
    <2>7. ProcInv' BY <1>0, <1>1, <2>1, <2>6, ProcKept
    <2>8. QED BY <1>0, <1>1, <2>1, <2>2, <2>4, <2>5, <2>7 DEF RouterInv, RouterType
  <1>11. CASE Create(c)
    <2> DEFINE v == [status |-> "queued", retryCount |-> 0, id |-> created + 1]
    <2>1. UNCHANGED written /\ Continue(c, "attempt") BY <1>11 DEF Create
    <2>2. call' \in CallType /\ CallInv' BY <1>1, <1>3, <1>6, <2>1
    <2>3. v \in Rows /\ v.retryCount < MAX_RETRIES BY <1>1, BoundsAssumption DEF Rows
    <2>4. \/ row' = [row EXCEPT ![k] = v] /\ created' = created + 1
          \/ UNCHANGED <<row, created>>
      BY <1>11 DEF Create
    <2>5. QED BY <1>1, <1>4, <1>5, <2>1, <2>2, <2>3, <2>4
  <1>12. CASE CreateFails(c)
    BY <1>1, <1>3, <1>4, <1>6, <1>12 DEF CreateFails
  <1>13. CASE Attempt(c)
    <2>1. UNCHANGED <<row, created>> BY <1>13 DEF Attempt
    <2>2. CASE UNCHANGED written /\ Continue(c, "done")
      BY <1>1, <1>3, <1>4, <1>6, <2>1, <2>2
    <2>3. CASE Write(k) /\ Continue(c, "mark")
      <3>1. /\ written' \in [Messages -> 0..2] /\ written'[k] > 0
            /\ \A j \in Messages : written'[j] >= written[j]
        BY <1>0, <1>1, <2>3, WrittenGrows
      <3>2. /\ call' \in CallType /\ call'[c].pc = "mark"
            /\ \A d \in Calls : d # c => call'[d] = call[d]
        BY <1>0, <2>3 DEF Continue
      <3>3. ASSUME NEW d \in Calls, call'[d].pc = "mark" PROVE written'[asked[d].msg] > 0
        <4>1. CASE d = c BY <3>1, <4>1
        <4>2. CASE d # c
          <5>1. call[d].pc = "mark" BY <3>2, <3>3, <4>2
          <5>2. asked[d].msg \in Messages /\ written[asked[d].msg] > 0
            BY <1>1, <5>1, AskedMessage DEF CallInv
          <5>3. QED BY <1>1, <3>1, <5>2
        <4>3. QED BY <4>1, <4>2
      <3>4. CallInv' BY <1>0, <1>1, <3>2, <3>3 DEF CallInv
      <3>5. RowInv'
        <4>1. \A j \in Messages : written[j] > 0 => written'[j] > 0 BY <1>1, <3>1
        <4>2. QED BY <1>1, <2>1, <4>1 DEF RowInv
      <3>6. ProcInv' BY <1>0, <1>1, <2>1, <3>1, ProcKept
      <3>7. QED BY <1>0, <1>1, <2>1, <3>1, <3>2, <3>4, <3>5, <3>6 DEF RouterInv, RouterType
    <2>4. QED BY <1>13, <2>2, <2>3 DEF Attempt
  <1>14. CASE MarkSent(c)
    <2> DEFINE v == [row[k] EXCEPT !.status = IF @ = "queued" THEN "sent" ELSE @]
    <2>1. UNCHANGED <<created, written>> /\ Continue(c, "done") BY <1>14 DEF MarkSent
    <2>2. call' \in CallType /\ CallInv' BY <1>1, <1>3, <1>6, <2>1
    <2>3. row' = [row EXCEPT ![k] = v] \/ UNCHANGED row BY <1>1, <1>14 DEF MarkSent
    <2>4. CASE UNCHANGED row \/ row[k].status # "queued"
      <3>1. row' = row BY <1>1, <2>3, <2>4 DEF Rows
      <3>2. QED BY <1>4, <2>1, <2>2, <3>1
    <2>5. CASE row' = [row EXCEPT ![k] = v] /\ row[k].status = "queued"
      <3>1. v \in Rows /\ v.status = "sent" /\ v.retryCount = row[k].retryCount
            /\ v.id = row[k].id
        BY <1>1, <2>5 DEF Rows
      <3>2. row[k].retryCount < MAX_RETRIES /\ row[k].id <= created
        BY <1>0, <1>1, <2>5 DEF RowInv
      <3>3. written[k] > 0 BY <1>1, <1>14 DEF MarkSent, CallInv
      <3> HIDE DEF v
      <3>4. /\ created' \in Nat /\ created' >= created /\ v.id <= created'
            /\ v.retryCount < MAX_RETRIES
        BY <1>1, <2>1, <3>1, <3>2
      <3>5. QED BY <1>5, <2>1, <2>2, <2>5, <3>1, <3>3, <3>4
    <2>6. QED BY <2>3, <2>4, <2>5
  <1>15. QED
    BY <1>7, <1>8, <1>9, <1>10, <1>11, <1>12, <1>13, <1>14 DEF CallStep

\* What the processor reads is queued, and read once.
LEMMA BatchRead ==
    ASSUME RouterInv, NEW ks \in SUBSET Queued
    PROVE  LET batch == {Read(k) : k \in ks}
           IN /\ batch \in SUBSET Reads
              /\ \A r \in batch : ReadOK(r, row, created)
              /\ \A q, r \in batch : q.msg = r.msg => q = r
  <1>1. ASSUME NEW k \in ks
        PROVE  /\ Read(k).msg = k /\ Read(k) \in Reads /\ ReadOK(Read(k), row, created)
    <2>1. /\ k \in Messages /\ row[k] \in Rows /\ row[k].status = "queued"
          /\ row[k].retryCount < MAX_RETRIES /\ row[k].id <= created
      BY DEF Queued, RouterInv, RouterType, RowInv
    <2>2. /\ Read(k).msg = k /\ Read(k).retryCount = row[k].retryCount /\ Read(k).id = row[k].id
          /\ Read(k) \in Reads
      BY <2>1 DEF Read, Reads, Rows
    <2>3. QED BY <2>1, <2>2 DEF ReadOK
  <1>2. QED BY <1>1

\* The processor moves on without touching a row.
LEMMA ProcMoves ==
    ASSUME RouterInv, UNCHANGED <<up, stops, row, created, scene, call>>,
           written' \in [Messages -> 0..2], \A k \in Messages : written'[k] >= written[k],
           proc' \in [pc: {"idle", "next", "dial", "dialing", "sent", "retry"},
                      at: Reads \cup {Nothing}, batch: SUBSET Reads],
           ProcInv'
    PROVE  RouterInv'
  <1>1. written \in [Messages -> 0..2] /\ asked' = asked BY DEF RouterInv, RouterType, asked
  <1>2. CallInv'
    <2>1. ASSUME NEW c \in Calls, call[c].pc = "mark" PROVE written'[asked[c].msg] > 0
      <3>1. asked[c].msg \in Messages /\ written[asked[c].msg] > 0
        BY <2>1, AskedMessage DEF RouterInv, CallInv
      <3>2. QED BY <1>1, <3>1
    <2>2. QED BY <1>1, <2>1 DEF RouterInv, CallInv
  <1>3. RowInv' 
    <2>1. \A k \in Messages : written[k] > 0 => written'[k] > 0 BY <1>1
    <2>2. QED BY <2>1 DEF RouterInv, RowInv
  <1>4. QED BY <1>2, <1>3 DEF RouterInv, RouterType

LEMMA ProcessorKeeps ==
    ASSUME RouterInv, ProcessorStep
    PROVE  RouterInv'
  <1> DEFINE Pcs == {"idle", "next", "dial", "dialing", "sent", "retry"}
             ProcType == [pc: Pcs, at: Reads \cup {Nothing}, batch: SUBSET Reads]
  <1>0. /\ RouterType /\ CallInv /\ RowInv /\ ProcInv /\ proc \in ProcType
        /\ row \in [Messages -> Rows] /\ created \in Nat /\ written \in [Messages -> 0..2]
        /\ \A k \in Messages : written[k] >= written[k]
    BY DEF RouterInv, RouterType
  <1>1. Working => proc.at \in Reads /\ Current.msg \in Messages
    BY <1>0 DEF ProcInv, ReadOK, Reads, Current
  <1>2. Idle \in ProcType /\ Idle.pc = "idle" /\ Idle.batch = {} BY DEF Idle
  <1>3. ASSUME proc' = Idle, UNCHANGED <<up, stops, row, created, scene, call, written>>
        PROVE  RouterInv'
    <2>1. ProcInv' BY <1>2, <1>3 DEF ProcInv, Working
    <2>2. QED BY <1>0, <1>2, <1>3, <2>1, ProcMoves
\* The row it is at is gone on with.
  <1>4. ASSUME NEW pc \in Pcs \ {"idle", "next"}, Proceed(pc), Working,
               written' \in [Messages -> 0..2], \A k \in Messages : written'[k] >= written[k],
               pc = "sent" => written'[Current.msg] > 0,
               UNCHANGED <<up, stops, row, created, scene, call>>
        PROVE  RouterInv'
    <2>1. /\ proc' \in ProcType /\ proc'.pc = pc /\ proc'.at = proc.at
          /\ proc'.batch = proc.batch
      BY <1>0, <1>4 DEF Proceed
    <2>2. ProcInv' BY <1>0, <1>4, <2>1 DEF ProcInv, Working, Current
    <2>3. QED BY <1>4, <2>1, <2>2, ProcMoves
  <1>5. ASSUME Write(Current.msg), Proceed("sent"), Working,
               UNCHANGED <<up, stops, row, created, scene, call>>
        PROVE  RouterInv'
    <2>1. /\ written' \in [Messages -> 0..2] /\ written'[Current.msg] > 0
          /\ \A k \in Messages : written'[k] >= written[k]
      BY <1>0, <1>1, <1>5, WrittenGrows
    <2>2. QED BY <1>4, <1>5, <2>1
  <1>6. CASE Flush
    <2> DEFINE taken == Oldest(Queued, BatchSize)
               batch == {Read(k) : k \in taken}
    <2>1. taken \in SUBSET Queued BY DEF Oldest
    <2>2. /\ proc' = [Idle EXCEPT !.pc = "next", !.batch = batch]
          /\ UNCHANGED <<up, stops, row, created, scene, call, written>>
      BY <1>6 DEF Flush
    <2>3. /\ batch \in SUBSET Reads
          /\ \A r \in batch : ReadOK(r, row, created)
          /\ \A q, r \in batch : q.msg = r.msg => q = r
      BY <2>1, BatchRead
    <2> HIDE DEF batch
    <2>4. proc' \in ProcType /\ proc'.pc = "next" /\ proc'.batch = batch
      BY <2>2, <2>3 DEF Idle
    <2>5. ProcInv' BY <2>2, <2>3, <2>4 DEF ProcInv, Working
    <2>6. QED BY <1>0, <2>2, <2>4, <2>5, ProcMoves
  <1>7. CASE FlushEnds
    BY <1>3, <1>7 DEF FlushEnds
  <1>8. CASE ProcessNext
    <2> DEFINE Takes(r, pc) == /\ proc' = [pc |-> pc, at |-> r, batch |-> proc.batch \ {r}]
                               /\ IF pc = "sent" THEN Write(r.msg) ELSE UNCHANGED written
    <2>0. PICK r \in proc.batch : Takes(r, "sent") \/ Takes(r, "dial") \/ Takes(r, "retry")
      <3>1. PICK r \in proc.batch :
                IF Reachable(gw, agentOf[r.msg])
                THEN Write(r.msg) /\ proc' = [pc |-> "sent", at |-> r, batch |-> proc.batch \ {r}]
                ELSE /\ proc' = [pc |-> IF agentOf[r.msg] \in Endpoints THEN "dial" ELSE "retry",
                                 at |-> r, batch |-> proc.batch \ {r}]
                     /\ UNCHANGED written
        BY <1>8 DEF ProcessNext
      <3>2. QED BY <3>1
    <2>1. PICK pc \in Pcs \ {"idle", "next"} : Takes(r, pc)
      BY <2>0
    <2>2. UNCHANGED <<up, stops, row, created, scene, call>> BY <1>8 DEF ProcessNext
    <2>3. r \in Reads /\ r.msg \in Messages /\ proc.batch \in SUBSET Reads BY <1>0 DEF Reads
    <2>4. /\ written' \in [Messages -> 0..2] /\ \A k \in Messages : written'[k] >= written[k]
          /\ pc = "sent" => written'[r.msg] > 0
      BY <1>0, <2>1, <2>3, WrittenGrows
    <2>5. proc' \in ProcType /\ proc'.pc = pc /\ proc'.at = r /\ proc'.batch = proc.batch \ {r}
      BY <2>1, <2>3
    <2>6. ProcInv' BY <1>0, <2>1, <2>2, <2>4, <2>5 DEF ProcInv, Working
    <2>7. QED BY <2>2, <2>4, <2>5, <2>6, ProcMoves
  <1>9. CASE Dial
    <2>1. Working BY <1>9 DEF Dial, Working
    <2>2. UNCHANGED <<up, stops, row, created, scene, call>> BY <1>9 DEF Dial
    <2>3. \/ Proceed("dialing") /\ UNCHANGED written
          \/ Write(Current.msg) /\ Proceed("sent")
          \/ Proceed("retry") /\ UNCHANGED written
      BY <1>9 DEF Dial
    <2>4. QED BY <1>0, <1>4, <1>5, <2>1, <2>2, <2>3
  <1>10. ASSUME NEW s \in Sessions, DialSucceeds(s) PROVE RouterInv'
    BY <1>5, <1>10 DEF DialSucceeds, Working
  <1>11. CASE DialFails
    BY <1>0, <1>4, <1>11 DEF DialFails, Working
\* What has come of the row is stored, unless the row is gone.
  <1>12. ASSUME Working, NEW status \in {"queued", "sent", "dead_letter"},
                NEW n \in 0..MAX_RETRIES, Stored(status, n),
                row[Current.msg].id = Current.id /\ status # "dead_letter" => n < MAX_RETRIES,
                status = "sent" => written[Current.msg] > 0
         PROVE  RouterInv'
    <2> DEFINE k == Current.msg
               v == [row[k] EXCEPT !.status = status, !.retryCount = n]
    <2>0. k \in Messages /\ row[k] \in Rows /\ row[k].id <= created
          /\ UNCHANGED <<up, stops, created, scene, call, written>>
      BY <1>0, <1>1, <1>12 DEF Stored, RowInv
    <2>1. CASE row[k].status = "none" \/ row[k].id # Current.id
      BY <1>3, <1>12, <2>0, <2>1 DEF Stored
    <2>2. CASE ~(row[k].status = "none" \/ row[k].id # Current.id)
      <3>1. row' = [row EXCEPT ![k] = v] /\ proc' = [proc EXCEPT !.pc = "next", !.at = Nothing]
        BY <1>0, <1>12, <2>2 DEF Stored
      <3>2. v \in Rows /\ v.status = status /\ v.retryCount = n /\ v.id = row[k].id
        BY <2>0 DEF Rows
      <3> HIDE DEF v
      <3>3. created' \in Nat /\ created' >= created /\ v.id <= created' /\ UNCHANGED written
        BY <1>0, <2>0, <3>2
      <3>4. row' \in [Messages -> Rows] /\ RowInv'
        BY <1>12, <2>0, <2>2, <3>1, <3>2, <3>3, RowChanged
      <3>5. proc' \in ProcType /\ proc'.pc = "next" /\ proc'.batch = proc.batch
        BY <1>0, <3>1
      <3>6. ASSUME NEW r \in proc.batch PROVE ReadOK(r, row', created')
        <4>1. ReadOK(r, row, created) /\ r.msg # k /\ r.msg \in Messages
          BY <1>0, <1>12 DEF ProcInv, Current, Reads
        <4>2. row'[r.msg] = row[r.msg] BY <1>0, <3>1, <4>1
        <4>3. QED BY <2>0, <4>1, <4>2 DEF ReadOK
      <3>7. ProcInv' BY <1>0, <3>5, <3>6 DEF ProcInv, Working
      <3>8. CallInv' BY <1>0, <2>0 DEF CallInv, asked
      <3>9. QED BY <1>0, <2>0, <3>4, <3>5, <3>7, <3>8 DEF RouterInv, RouterType
    <2>3. QED BY <2>1, <2>2
  <1>13. CASE ProcessSent
    <2>1. Working /\ written[Current.msg] > 0
      BY <1>0, <1>13 DEF ProcessSent, Working, ProcInv, Current
    <2>2. row[Current.msg] \in Rows /\ Current.msg \in Messages BY <1>0, <1>1, <2>1
    <2>3. row[Current.msg].retryCount \in 0..MAX_RETRIES BY <2>2 DEF Rows
    <2>4. CASE row[Current.msg].status = "none"
      BY <1>3, <1>13, <2>4 DEF ProcessSent, Stored
    <2>5. CASE row[Current.msg].status # "none"
      <3>1. row[Current.msg].id = Current.id => row[Current.msg].retryCount < MAX_RETRIES
        BY <1>0, <2>1, <2>2, <2>5 DEF ProcInv, ReadOK, Current, RowInv, Rows
      <3>2. QED BY <1>12, <1>13, <2>1, <2>3, <3>1 DEF ProcessSent
    <2>6. QED BY <2>4, <2>5
  <1>14. CASE ProcessRetry
    <2> DEFINE n == Current.retryCount + 1
               status == IF n >= MAX_RETRIES THEN "dead_letter" ELSE row[Current.msg].status
    <2>1. Working /\ Stored(status, n) BY <1>14 DEF ProcessRetry, Working
    <2>2. n \in 0..MAX_RETRIES /\ Current.msg \in Messages /\ row[Current.msg] \in Rows
      BY <1>0, <1>1, <2>1, BoundsAssumption DEF ProcInv, ReadOK, Current, Reads
    <2>3. CASE row[Current.msg].status = "none" \/ row[Current.msg].id # Current.id
      BY <1>3, <1>14, <2>3 DEF ProcessRetry, Stored
    <2>4. CASE ~(row[Current.msg].status = "none" \/ row[Current.msg].id # Current.id)
      <3>1. row[Current.msg].status \in {"queued", "sent"}
        BY <1>0, <2>1, <2>2, <2>4 DEF ProcInv, ReadOK, Current, Rows
      <3>2. status \in {"queued", "sent", "dead_letter"} BY <3>1
      <3>3. status # "dead_letter" => n < MAX_RETRIES
        BY <2>2, BoundsAssumption
      <3>4. status = "sent" => written[Current.msg] > 0
        BY <1>0, <2>2 DEF RowInv
      <3> HIDE DEF n, status
      <3>5. QED BY <1>12, <2>1, <2>2, <3>2, <3>3, <3>4
    <2>5. QED BY <2>3, <2>4
  <1>15. QED
    BY <1>6, <1>7, <1>8, <1>9, <1>10, <1>11, <1>13, <1>14 DEF ProcessorStep

LEMMA RouterKeeps == RouterInv /\ [Next]_vars => RouterInv'
  <1> SUFFICES ASSUME RouterInv, [Next]_vars PROVE RouterInv'
    OBVIOUS
  <1>1. ASSUME UNCHANGED outboxVars PROVE RouterInv'
    BY <1>1 DEF outboxVars, RouterInv, RouterType, CallInv, RowInv, ProcInv, Working, asked
  <1>2. ASSUME UNCHANGED <<stops, row, created, call, proc, written, scene>>,
               up' \in {"up", "stopping", "down"}
        PROVE  RouterInv'
    BY <1>2 DEF RouterInv, RouterType, CallInv, RowInv, ProcInv, Working, asked
  <1>3. CASE Shutdown \/ Restart BY <1>2, <1>3 DEF Shutdown, Restart
  <1>4. CASE Stop
    <2>1. /\ call' = [c \in Calls |-> IF call[c].pc = "new" THEN call[c]
                                      ELSE [pc |-> "done", victims |-> {}]]
          /\ proc' = Idle /\ UNCHANGED <<row, created, written, scene>>
          /\ up' = "down" /\ stops' = stops + 1 /\ stops < MaxStops
      BY <1>4 DEF Stop
    <2>2. CallInv'
      BY <2>1 DEF RouterInv, CallInv, asked
    <2>3. ProcInv' BY <2>1 DEF ProcInv, Working, Idle
    <2>4. RowInv' BY <2>1 DEF RouterInv, RowInv
    <2>5. stops' \in 0..MaxStops BY <2>1, BoundsAssumption DEF RouterInv, RouterType
    <2>6. Idle \in [pc: {"idle", "next", "dial", "dialing", "sent", "retry"},
                    at: Reads \cup {Nothing}, batch: SUBSET Reads]
      BY DEF Idle
    <2>7. QED BY <2>1, <2>2, <2>3, <2>4, <2>5, <2>6 DEF RouterInv, RouterType
  <1>5. QED
    BY <1>1, <1>3, <1>4, DeliveryKeeps, ProcessorKeeps DEF Next, Gateway, vars

LEMMA RouterInvariant == Spec => []RouterInv
  <1>1. Init => RouterInv
    <2> SUFFICES ASSUME Init PROVE RouterInv
      OBVIOUS
    <2>1. NoRow \in Rows /\ NoRow.id = 0 /\ NoRow.status = "none"
      BY BoundsAssumption DEF NoRow, Rows
    <2>2. Idle.pc = "idle" /\ Idle.batch = {}
          /\ Idle \in [pc: {"idle", "next", "dial", "dialing", "sent", "retry"},
                       at: Reads \cup {Nothing}, batch: SUBSET Reads]
      BY DEF Idle
    <2>3. RouterType BY <2>1, <2>2, BoundsAssumption DEF Init, RouterType
    <2>4. CallInv /\ RowInv /\ ProcInv
      BY <2>1, <2>2 DEF Init, CallInv, RowInv, ProcInv, Working
    <2>5. QED BY <2>3, <2>4 DEF RouterInv
  <1>2. QED BY <1>1, RouterKeeps, PTL DEF Spec

\* The data of gateway, outbox, deliveries and processor have their shapes: in particular no
\* row is tried once too often, and nothing is done to a row the processor has given up.
THEOREM TypeCorrect == Spec => []TypeOK
  <1>1. Init => GatewayInit BY DEF Init
  <1>2. Spec => GatewaySpec
    BY <1>1, SceneKept, StepOfGateway, PTL DEF Spec, GatewaySpec
  <1>3. GatewayInv /\ RouterInv => TypeOK
    BY InvariantGives DEF RouterInv, RouterType, TypeOK
  <1>4. QED BY <1>2, <1>3, GatewayInvariant, RouterInvariant, PTL

-----------------------------------------------------------------------------
(* The outbox keeps its promise: the part of OutboxPromise that is safety, each step of the *)
(* router being a step of the promise or none.                                              *)

LEMMA PromiseStep ==
    ASSUME RouterInv, [Next]_vars
    PROVE  [Promise!Next]_(Promise!vars)
  <1> DEFINE status == [k \in Messages |-> row[k].status]
             given == {k \in Messages : written[k] > 0}
             Goal == [Promise!Next]_(Promise!vars)
  <1>0. /\ row \in [Messages -> Rows] /\ written \in [Messages -> 0..2]
        /\ CallInv /\ RowInv /\ ProcInv /\ RouterType
    BY DEF RouterInv, RouterType
  <1>1. ASSUME status' = status, given' = given PROVE Goal
    BY <1>1 DEF Promise!vars
  <1>2. ASSUME UNCHANGED <<row, written>> PROVE Goal
    BY <1>1, <1>2
  <1>3. ASSUME NEW k \in Messages, Write(k), UNCHANGED row PROVE Goal
    <2>1. given' = given \cup {k} BY <1>0, <1>3 DEF Write
    <2>2. status' = status BY <1>3
    <2>3. Promise!Give(k) BY <2>1, <2>2 DEF Promise!Give
    <2>4. QED BY <2>3 DEF Promise!Next
  <1>4. ASSUME NEW k \in Messages, NEW v, row' = [row EXCEPT ![k] = v], UNCHANGED written
        PROVE  /\ status' = [status EXCEPT ![k] = v.status] /\ given' = given
               /\ status[k] = row[k].status /\ (v.status = row[k].status => status' = status)
    <2>1. row'[k] = v /\ \A j \in Messages : j # k => row'[j] = row[j] BY <1>0, <1>4
    <2>2. status' = [status EXCEPT ![k] = v.status] BY <2>1
    <2>3. QED BY <1>4, <2>1, <2>2
\* The steps of the promise that change one message's status.
  <1>changed. ASSUME NEW k \in Messages, NEW x, status' = [status EXCEPT ![k] = x], given' = given,
                \/ x = "queued" /\ status[k] \in {"none", "sent"}
                \/ x = "sent" /\ k \in given /\ status[k] # "none"
                \/ x = "dead_letter" /\ status[k] # "none"
         PROVE  Goal
    <2>1. CASE x = "queued" /\ status[k] = "none"
      <3>1. Promise!Accept(k) BY <1>changed, <2>1 DEF Promise!Accept
      <3>2. QED BY <3>1 DEF Promise!Next
    <2>2. CASE x = "queued" /\ status[k] = "sent"
      <3>1. Promise!AskAgain(k) BY <1>changed, <2>2 DEF Promise!AskAgain
      <3>2. QED BY <3>1 DEF Promise!Next
    <2>3. CASE x = "sent" /\ k \in given /\ status[k] # "none"
      <3>1. Promise!Settle(k) BY <1>changed, <2>3 DEF Promise!Settle
      <3>2. QED BY <3>1 DEF Promise!Next
    <2>4. CASE x = "dead_letter" /\ status[k] # "none"
      <3>1. Promise!GiveUp(k) BY <1>changed, <2>4 DEF Promise!GiveUp
      <3>2. QED BY <3>1 DEF Promise!Next
    <2>5. QED BY <1>changed, <2>1, <2>2, <2>3, <2>4
  <1>evicted. ASSUME NEW gone \in SUBSET Messages, given' = given,
                status' = [j \in Messages |-> IF j \in gone THEN "none" ELSE status[j]]
         PROVE  Goal
    <2>1. Promise!Evict(gone) BY <1>evicted DEF Promise!Evict
    <2>2. QED BY <2>1 DEF Promise!Next
  <1>5. ASSUME NEW c \in Calls, Begin(c) \/ Count(c) \/ CreateFails(c) PROVE Goal
    BY <1>2, <1>5 DEF Begin, Count, CreateFails
  <1>6. ASSUME NEW c \in Calls, Requeue(c) PROVE Goal
    <2> DEFINE k == asked[c].msg
               v == [row[k] EXCEPT !.status = IF @ = "sent" THEN "queued" ELSE @]
    <2>1. k \in Messages BY <1>6, AskedMessage DEF Requeue
    <2>2. row' = [row EXCEPT ![k] = v] /\ UNCHANGED written BY <1>0, <1>6 DEF Requeue
    <2>3. v.status = IF row[k].status = "sent" THEN "queued" ELSE row[k].status
      BY <1>0, <2>1 DEF Rows
    <2> HIDE DEF v, k
    <2>4. CASE row[k].status = "sent"
      <3>1. /\ status' = [status EXCEPT ![k] = v.status] /\ given' = given
            /\ status[k] = row[k].status
        BY <1>4, <2>1, <2>2
      <3> HIDE DEF status, given
      <3>2. QED BY <1>changed, <2>1, <2>3, <2>4, <3>1
    <2>5. CASE row[k].status # "sent"
      BY <1>1, <1>4, <2>1, <2>2, <2>3, <2>5
    <2>6. QED BY <2>4, <2>5
  <1>7. ASSUME NEW c \in Calls, Evict(c) PROVE Goal
    <2> DEFINE gone == call[c].victims
    <2>1. gone \in SUBSET Messages BY <1>0 DEF RouterType
    <2>2. UNCHANGED written
          /\ row' = [j \in Messages |-> IF j \in gone THEN NoRow ELSE row[j]]
      BY <1>7 DEF Evict
    <2>3. status' = [j \in Messages |-> IF j \in gone THEN "none" ELSE status[j]]
      BY <2>2 DEF NoRow
    <2>4. given' = given BY <2>2
    <2> HIDE DEF status, given
    <2>5. QED BY <1>evicted, <2>1, <2>3, <2>4
  <1>8. ASSUME NEW c \in Calls, Create(c) PROVE Goal
    <2> DEFINE k == asked[c].msg
               v == [status |-> "queued", retryCount |-> 0, id |-> created + 1]
    <2>1. k \in Messages BY <1>8, AskedMessage DEF Create
    <2>2. UNCHANGED written
          /\ \/ row[k].status = "none" /\ row' = [row EXCEPT ![k] = v]
             \/ UNCHANGED row
      BY <1>8 DEF Create
    <2>3. v.status = "queued" OBVIOUS
    <2> HIDE DEF v, k
    <2>4. CASE row[k].status = "none" /\ row' = [row EXCEPT ![k] = v]
      <3>1. /\ status' = [status EXCEPT ![k] = v.status] /\ given' = given
            /\ status[k] = row[k].status
        BY <1>4, <2>1, <2>2, <2>4
      <3> HIDE DEF status, given
      <3>2. QED BY <1>changed, <2>1, <2>3, <2>4, <3>1
    <2>5. QED BY <1>2, <2>2, <2>4
  <1>9. ASSUME NEW c \in Calls, Attempt(c) PROVE Goal
    <2>1. asked[c].msg \in Messages BY <1>9, AskedMessage DEF Attempt
    <2>2. QED BY <1>2, <1>3, <1>9, <2>1 DEF Attempt
\* A row that is marked as sent has been written.
  <1>10. ASSUME NEW k \in Messages, NEW v, row' = [row EXCEPT ![k] = v], UNCHANGED written,
                v.status = "sent", row[k].status # "none", written[k] > 0
         PROVE  Goal
    <2>1. /\ status' = [status EXCEPT ![k] = v.status] /\ given' = given
          /\ status[k] = row[k].status /\ k \in given
      BY <1>4, <1>10
    <2> HIDE DEF status, given
    <2>2. QED BY <1>10, <1>changed, <2>1
  <1>11. ASSUME NEW c \in Calls, MarkSent(c) PROVE Goal
    <2> DEFINE k == asked[c].msg
               v == [row[k] EXCEPT !.status = IF @ = "queued" THEN "sent" ELSE @]
    <2>1. k \in Messages BY <1>11, AskedMessage DEF MarkSent
    <2>2. UNCHANGED written /\ written[k] > 0 BY <1>0, <1>11 DEF MarkSent, CallInv
    <2>3. row' = [row EXCEPT ![k] = v] \/ UNCHANGED row BY <1>0, <1>11 DEF MarkSent
    <2>4. v.status = IF row[k].status = "queued" THEN "sent" ELSE row[k].status
      BY <1>0, <2>1 DEF Rows
    <2> HIDE DEF v, k
    <2>5. CASE row' = [row EXCEPT ![k] = v] /\ row[k].status = "queued"
      BY <1>10, <2>1, <2>2, <2>4, <2>5
    <2>6. CASE row' = [row EXCEPT ![k] = v] /\ row[k].status # "queued"
      BY <1>1, <1>4, <2>1, <2>2, <2>4, <2>6
    <2>7. QED BY <1>2, <2>2, <2>3, <2>5, <2>6
  <1>12. CASE Flush \/ FlushEnds \/ DialFails \/ Shutdown \/ Stop \/ Restart \/ Gateway
    BY <1>2, <1>12 DEF Flush, FlushEnds, DialFails, Shutdown, Stop, Restart, Gateway, outboxVars
  <1>13. CASE ProcessNext
    <2>1. UNCHANGED row /\ \E r \in proc.batch : Write(r.msg) \/ UNCHANGED written
      BY <1>13 DEF ProcessNext
    <2>2. \A r \in proc.batch : r.msg \in Messages BY <1>0 DEF RouterType, Reads
    <2>3. QED BY <1>2, <1>3, <2>1, <2>2
  <1>14. Working => Current.msg \in Messages
    BY <1>0 DEF ProcInv, ReadOK, Reads, Current
  <1>15. CASE Dial \/ \E s \in Sessions : DialSucceeds(s)
    <2>1. Working /\ UNCHANGED row /\ (Write(Current.msg) \/ UNCHANGED written)
      BY <1>15 DEF Dial, DialSucceeds, Working
    <2>2. QED BY <1>2, <1>3, <1>14, <2>1
  <1>16. ASSUME NEW s, NEW n, Working, Stored(s, n)
         PROVE  /\ UNCHANGED written
                /\ \/ UNCHANGED row
                   \/ \E v : /\ row[Current.msg].status # "none" /\ v.status = s
                             /\ row' = [row EXCEPT ![Current.msg] = v]
    <2> DEFINE k == Current.msg
               v == [row[k] EXCEPT !.status = s, !.retryCount = n]
    <2>1. v.status = s BY <1>0, <1>14, <1>16 DEF Rows
    <2>2. \/ UNCHANGED row
          \/ row[k].status # "none" /\ row' = [row EXCEPT ![k] = v]
      BY <1>0, <1>16 DEF Stored
    <2>3. UNCHANGED written BY <1>16 DEF Stored
    <2> HIDE DEF v
    <2>4. QED BY <2>1, <2>2, <2>3
  <1>17. CASE ProcessSent
    <2>1. Working /\ written[Current.msg] > 0
      BY <1>0, <1>17 DEF ProcessSent, Working, ProcInv, Current
    <2>2. Stored("sent", row[Current.msg].retryCount) BY <1>17 DEF ProcessSent
    <2>3. QED BY <1>2, <1>10, <1>14, <1>16, <2>1, <2>2
  <1>18. CASE ProcessRetry
    <2> DEFINE k == Current.msg
               n == Current.retryCount + 1
               s == IF n >= MAX_RETRIES THEN "dead_letter" ELSE row[k].status
    <2>1. Working /\ Stored(s, n) BY <1>18 DEF ProcessRetry, Working
    <2>2. k \in Messages BY <1>14, <2>1
    <2>3. s \in {"dead_letter", row[k].status} OBVIOUS
    <2> HIDE DEF n, s
    <2>4. UNCHANGED written BY <1>16, <2>1
    <2>5. CASE UNCHANGED row BY <1>2, <2>4, <2>5
    <2>6. ASSUME NEW v, row[k].status # "none", v.status = s, row' = [row EXCEPT ![k] = v]
          PROVE  Goal
      <3>1. CASE s = row[k].status BY <1>1, <1>4, <2>2, <2>4, <2>6, <3>1
      <3>2. CASE s = "dead_letter"
        <4>1. /\ status' = [status EXCEPT ![k] = v.status] /\ given' = given
              /\ status[k] = row[k].status
          BY <1>4, <2>2, <2>4, <2>6
        <4> HIDE DEF status, given
        <4>2. QED BY <1>changed, <2>2, <2>6, <3>2, <4>1
      <3>3. QED BY <2>3, <3>1, <3>2
    <2>7. QED BY <1>16, <2>1, <2>5, <2>6
  <1>19. CASE UNCHANGED vars BY <1>2, <1>19 DEF vars, outboxVars
  <1>20. QED
    BY <1>5, <1>6, <1>7, <1>8, <1>9, <1>11, <1>12, <1>13, <1>15, <1>17, <1>18, <1>19
    DEF Next, CallStep, ProcessorStep

\* A message counts as sent only once it was written to its agent's socket, and a row is
\* accepted, sent, asked for again, given up or evicted only as OutboxPromise says, whatever
\* deliveries interleave and wherever the process stops.
THEOREM PromiseKept == Spec => Promise!Init /\ [][Promise!Next]_(Promise!vars)
  <1>1. Init => Promise!Init BY DEF Init, Promise!Init, NoRow
  <1>2. RouterInv /\ [Next]_vars => [Promise!Next]_(Promise!vars) BY PromiseStep
  <1>3. QED BY <1>1, <1>2, RouterInvariant, PTL DEF Spec
=============================================================================
