-------------------------- MODULE OutboundDelivery --------------------------
(***************************************************************************)
(* The outbound router (services/outboundRouter.ts) on the gateway's       *)
(* sessions: a message for an agent is a row of the outbox first and a     *)
(* write to the agent's socket next; a background processor tries queued   *)
(* rows again, dials agents that have an endpoint, and gives up after      *)
(* MAX_RETRIES.  Deliveries are asynchronous: every await is a step, so    *)
(* they interleave with each other, with the processor and with the        *)
(* sockets; the process may stop at any step and lose all but the rows.    *)
(*                                                                         *)
(* A message is its idempotency key; contents and observers (which have no *)
(* outbox) are abstracted, and so are deliveries by best effort, which     *)
(* write to a socket and touch nothing else.                               *)
(***************************************************************************)
EXTENDS AgentSessions, Naturals

CONSTANTS Messages, agentOf, \* idempotency keys and the agent each is for
          Calls, Scenes,     \* deliveries, each run once; what a behaviour may be about
          Endpoints, Silent, \* agents that can be dialed; those that never answer then
          MAX_RETRIES, MAX_OUTBOX_PER_AGENT, EvictCount, BatchSize,
          MaxStops           \* how often the process may stop

VARIABLES up,      \* the process: "up", "stopping" (shutdown has begun) or "down"
          stops,   \* how often it has stopped
          row,     \* the outbox: status, retryCount and id of each message's row
          created, \* rows created so far: ids are given in the order of createdAt
          scene,   \* asked: the message and the kind of each delivery; visits: whose
                   \* wallet may sign, or who may be dialed, on which session
          call,    \* the deliveries in progress
          proc,    \* the outbox processor: what it does, the row it has read that it is at,
                   \* and the rest of its batch
          written  \* writes of each message to a socket of its agent, up to 2

outboxVars == <<up, stops, row, created, scene, call, proc, written>>
vars == <<gatewayVars, outboxVars>>

\* Entry points: deliverToAgent ("text"), deliverStructuredToAgent with
\* allowRepeatDeliveryWhenSent ("repeat"), the handler of deal_executed ("executed").
Kinds == {"text", "repeat", "executed"}
ASSUME ScenesAssumption ==
    \A x \in Scenes : /\ DOMAIN x.asked \subseteq Calls
                      /\ \A c \in DOMAIN x.asked : x.asked[c] \in [msg: Messages, kind: Kinds]
                      /\ x.visits \subseteq Sessions \X Agents

ASSUME BoundsAssumption == MAX_RETRIES \in Nat \ {0} /\ MaxStops \in Nat

asked == scene.asked

Rows == [status: {"none", "queued", "sent", "dead_letter"}, retryCount: 0..MAX_RETRIES, id: Nat]
Reads == [msg: Messages, retryCount: 0..MAX_RETRIES, id: Nat]
Nothing == [msg |-> "none"]
NoRow == [status |-> "none", retryCount |-> 0, id |-> 0]
Idle == [pc |-> "idle", at |-> Nothing, batch |-> {}]

TypeOK ==
    /\ GatewayTypeOK
    /\ up \in {"up", "stopping", "down"} /\ stops \in 0..MaxStops
    /\ row \in [Messages -> Rows]
    /\ created \in Nat
    /\ scene \in Scenes
    /\ call \in [Calls -> [pc: {"new", "requeue", "count", "evict", "create", "attempt",
                                "mark", "done"}, victims: SUBSET Messages]]
    /\ proc \in [pc: {"idle", "next", "dial", "dialing", "sent", "retry"},
                at: Reads \cup {Nothing}, batch: SUBSET Reads]
    /\ written \in [Messages -> 0..2]

Write(k) == written' = [written EXCEPT ![k] = IF @ = 2 THEN 2 ELSE @ + 1]
Continue(c, pc) == call' = [call EXCEPT ![c].pc = pc]

-----------------------------------------------------------------------------
(* A delivery. *)

\* ensureOutboundMessagePersisted looks the key up.
Begin(c) ==
    /\ up # "down" /\ c \in DOMAIN asked /\ call[c].pc = "new"
    /\ LET kind == asked[c].kind
           s == row[asked[c].msg].status
           pc == IF s = "none" THEN IF kind = "executed" THEN "create" ELSE "count"
                 ELSE IF s # "sent" THEN "attempt"
                 ELSE IF kind = "repeat" THEN "requeue" ELSE "done"
       IN Continue(c, pc)
    /\ UNCHANGED <<gatewayVars, up, stops, row, created, proc, written, scene>>

\* A message that was sent is queued again; its retryCount stays.
Requeue(c) ==
    /\ call[c].pc = "requeue"
    /\ row' = [row EXCEPT ![asked[c].msg].status = IF @ = "sent" THEN "queued" ELSE @]
    /\ Continue(c, "attempt")
    /\ UNCHANGED <<gatewayVars, up, stops, created, proc, written, scene>>

\* The rows that count against the box of the message's agent; the oldest n of ks.
Box(k) == {j \in Messages : agentOf[j] = agentOf[k] /\ row[j].status = "queued"}
Oldest(ks, n) == {k \in ks : Cardinality({j \in ks : row[j].id < row[k].id}) < n}

Count(c) ==
    /\ call[c].pc = "count"
    /\ LET box == Box(asked[c].msg)
       IN call' = IF Cardinality(box) < MAX_OUTBOX_PER_AGENT
                  THEN [call EXCEPT ![c].pc = "create"]
                  ELSE [call EXCEPT ![c].pc = "evict", ![c].victims = Oldest(box, EvictCount)]
    /\ UNCHANGED <<gatewayVars, up, stops, row, created, proc, written, scene>>

\* deleteMany by id: whatever the rows have become meanwhile.
Evict(c) ==
    /\ call[c].pc = "evict"
    /\ row' = [k \in Messages |-> IF k \in call[c].victims THEN NoRow ELSE row[k]]
    /\ call' = [call EXCEPT ![c].pc = "create", ![c].victims = {}]
    /\ UNCHANGED <<gatewayVars, up, stops, created, proc, written, scene>>

\* The unique key makes one of two creations fail (P2002); that call goes on as well.
Create(c) ==
    /\ call[c].pc = "create"
    /\ LET k == asked[c].msg
       IN IF row[k].status = "none"
          THEN /\ row' = [row EXCEPT ![k] = [status |-> "queued", retryCount |-> 0,
                                             id |-> created + 1]]
               /\ created' = created + 1
          ELSE UNCHANGED <<row, created>>
    /\ Continue(c, "attempt")
    /\ UNCHANGED <<gatewayVars, up, stops, proc, written, scene>>

\* Any other error of the database ends the delivery: nothing is sent without a row.
CreateFails(c) ==
    /\ call[c].pc \in {"create", "requeue"}
    /\ Continue(c, "done")
    /\ UNCHANGED <<gatewayVars, up, stops, row, created, proc, written, scene>>

Attempt(c) ==
    /\ call[c].pc = "attempt"
    /\ LET k == asked[c].msg
       IN IF Reachable(gw, agentOf[k]) THEN Write(k) /\ Continue(c, "mark")
          ELSE UNCHANGED written /\ Continue(c, "done")
    /\ UNCHANGED <<gatewayVars, up, stops, row, created, proc, scene>>

\* updateMany finds only a queued row; it may also fail, and the row stays queued.
MarkSent(c) ==
    /\ call[c].pc = "mark"
    /\ \/ row' = [row EXCEPT ![asked[c].msg].status = IF @ = "queued" THEN "sent" ELSE @]
       \/ UNCHANGED row
    /\ Continue(c, "done")
    /\ UNCHANGED <<gatewayVars, up, stops, created, proc, written, scene>>

CallStep(c) ==
    \/ Requeue(c) \/ Count(c) \/ Evict(c) \/ Create(c) \/ CreateFails(c)
    \/ Attempt(c) \/ MarkSent(c)
-----------------------------------------------------------------------------
(* The outbox processor. *)

Current == proc.at
CurrentAgent == agentOf[Current.msg]
Proceed(pc) == proc' = [proc EXCEPT !.pc = pc]
Queued == {k \in Messages : row[k].status = "queued"}
Read(k) == [msg |-> k, retryCount |-> row[k].retryCount, id |-> row[k].id]

\* Mutant: rows that have been tried are not read again.
FlushFresh ==
    /\ up = "up" /\ proc.pc = "idle"
    /\ LET taken == Oldest({k \in Queued : row[k].retryCount = 0}, BatchSize)
       IN taken # {} /\ proc' = [Idle EXCEPT !.pc = "next", !.batch = {Read(k) : k \in taken}]
    /\ UNCHANGED <<gatewayVars, up, stops, row, created, call, written, scene>>

\* The oldest queued rows, as they are now; the batch goes stale while it is worked on.
Flush ==
    /\ up = "up" /\ proc.pc = "idle"
    /\ LET taken == Oldest(Queued, BatchSize)
       IN taken # {} /\ proc' = [Idle EXCEPT !.pc = "next", !.batch = {Read(k) : k \in taken}]
    /\ UNCHANGED <<gatewayVars, up, stops, row, created, call, written, scene>>

FlushEnds ==
    /\ proc.pc = "next" /\ (proc.batch = {} \/ up = "stopping")
    /\ proc' = Idle
    /\ UNCHANGED <<gatewayVars, up, stops, row, created, call, written, scene>>

\* The oldest of the batch is written at once when its agent is connected; the lookup of
\* the agent's endpoint comes otherwise.
ProcessNext ==
    /\ proc.pc = "next" /\ up # "stopping"
    /\ \E r \in proc.batch :
          LET a == agentOf[r.msg]
              step(pc) == proc' = [pc |-> pc, at |-> r, batch |-> proc.batch \ {r}]
          IN /\ \A q \in proc.batch : r.id <= q.id
             /\ IF Reachable(gw, a) THEN Write(r.msg) /\ step("sent")
                ELSE step(IF a \in Endpoints THEN "dial" ELSE "retry") /\ UNCHANGED written
    /\ UNCHANGED <<gatewayVars, up, stops, row, created, call, scene>>

\* Mutant: an agent that connectToAgent says is connected counts as reached.
DialTrusted ==
    /\ proc.pc = "dial"
    /\ IF getSessionByAgent(gw, CurrentAgent) = NoSession
       THEN Proceed("dialing") /\ UNCHANGED written
       ELSE Proceed("sent") /\ UNCHANGED written
    /\ UNCHANGED <<gatewayVars, up, stops, row, created, call, scene>>

\* connectToAgent answers true at once when the maps hold a session of the agent, open
\* or not.
Dial ==
    /\ proc.pc = "dial"
    /\ IF getSessionByAgent(gw, CurrentAgent) = NoSession
       THEN Proceed("dialing") /\ UNCHANGED written
       ELSE IF Reachable(gw, CurrentAgent)
       THEN Write(Current.msg) /\ Proceed("sent")
       ELSE Proceed("retry") /\ UNCHANGED written
    /\ UNCHANGED <<gatewayVars, up, stops, row, created, call, scene>>

\* The endpoint answers auth_success: its socket is bound and written to.
DialSucceeds(s) ==
    /\ proc.pc = "dialing"
    /\ CurrentAgent \notin Silent
    /\ <<s, CurrentAgent>> \in scene.visits /\ DialBinds(s, CurrentAgent)
    /\ Write(Current.msg) /\ Proceed("sent")
    /\ UNCHANGED <<up, stops, row, created, call, scene>>

\* Refused, closed, or not open after 10 s.  An agent that opens the socket and stays
\* silent does none of this: the timeout has been cleared.
DialFails ==
    /\ proc.pc = "dialing"
    /\ CurrentAgent \notin Silent
    /\ Proceed("retry")
    /\ UNCHANGED <<gatewayVars, up, stops, row, created, call, written, scene>>

\* update by id throws when the row was evicted, which ends the whole flush.
Stored(status, retryCount) ==
    /\ IF row[Current.msg].status = "none" \/ row[Current.msg].id # Current.id
       THEN proc' = Idle /\ UNCHANGED row
       ELSE /\ row' = [row EXCEPT ![Current.msg].status = status,
                                  ![Current.msg].retryCount = retryCount]
            /\ proc' = [proc EXCEPT !.pc = "next", !.at = Nothing]
    /\ UNCHANGED <<gatewayVars, up, stops, created, call, written, scene>>

ProcessSent == proc.pc = "sent" /\ Stored("sent", row[Current.msg].retryCount)

\* Mutant: one retry too many.
ProcessRetryLate ==
    /\ proc.pc = "retry"
    /\ LET n == Current.retryCount + 1
       IN Stored(IF n > MAX_RETRIES THEN "dead_letter" ELSE row[Current.msg].status, n)

\* The retry counted is the one after those the batch has read.
ProcessRetry ==
    /\ proc.pc = "retry"
    /\ LET n == Current.retryCount + 1
       IN Stored(IF n >= MAX_RETRIES THEN "dead_letter" ELSE row[Current.msg].status, n)

ProcessorStep ==
    \/ Flush \/ FlushEnds \/ ProcessNext \/ Dial \/ DialFails \/ (\E s \in Sessions : DialSucceeds(s))
    \/ ProcessSent \/ ProcessRetry

-----------------------------------------------------------------------------
(* The process. *)

\* SIGTERM: shutdown begins, and the gateway closes every socket.
Shutdown ==
    /\ up = "up" /\ stops < MaxStops
    /\ up' = "stopping"
    /\ GatewayStops
    /\ UNCHANGED <<stops, row, created, call, proc, written, scene>>

\* The process ends, at any step: deliveries in progress, events and sockets are lost.
Stop ==
    /\ up # "down" /\ stops < MaxStops
    /\ up' = "down" /\ stops' = stops + 1
    /\ GatewayStops
    /\ call' = [c \in Calls |-> IF call[c].pc = "new" THEN call[c]
                                 ELSE [pc |-> "done", victims |-> {}]]
    /\ proc' = Idle
    /\ UNCHANGED <<row, created, written, scene>>

Restart ==
    /\ up = "down" /\ up' = "up"
    /\ UNCHANGED <<gatewayVars, stops, row, created, call, proc, written, scene>>

Init ==
    /\ GatewayInit
    /\ up = "up" /\ stops = 0
    /\ row = [k \in Messages |-> NoRow]
    /\ created = 0
    /\ scene \in Scenes
    /\ call = [c \in Calls |-> [pc |-> "new", victims |-> {}]]
    /\ proc = Idle
    /\ written = [k \in Messages |-> 0]

\* Agents connect while the gateway is up.
Gateway ==
    /\ \/ up = "up" /\ \E v \in scene.visits : Connect(v[1])
       \/ \E s \in Sessions : SocketNext(s) /\ proved' \subseteq scene.visits
    /\ UNCHANGED outboxVars

Next ==
    \/ \E c \in Calls : Begin(c) \/ CallStep(c)
    \/ ProcessorStep
    \/ Gateway
    \/ Shutdown \/ Stop \/ Restart

Spec == Init /\ [][Next]_vars

\* Continuations run, a shutdown ends in an exit, and the host starts the process again.
Fairness ==
    /\ \A c \in Calls : WF_vars(CallStep(c))
    /\ WF_vars(ProcessorStep)
    /\ WF_vars(up = "stopping" /\ Stop)
    /\ WF_vars(Restart)

FairSpec == Spec /\ Fairness

-----------------------------------------------------------------------------
(* What delivery promises. *)

\* The outbox keeps its promise: sent means written to the agent's socket, and a row that
\* is queued is sent, given up or evicted, whatever interleaves and wherever the process
\* stops.
Promise == INSTANCE OutboxPromise
               WITH status <- [k \in Messages |-> row[k].status],
                    given <- {k \in Messages : written[k] > 0}
KeepsPromise == Promise!Spec

\* No agent waits for another: a message that is queued while its agent is connected is
\* written to the agent's socket, or its row is evicted, while the connection lasts.
ReachedWhileOnline ==
    \A k \in Messages :
        (row[k].status = "queued" /\ []Reachable(gw, agentOf[k]))
            ~> (written[k] > 0 \/ row[k].status # "queued")
=============================================================================
