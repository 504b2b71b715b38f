---------------------------- MODULE ReleaseProofs ----------------------------
(***************************************************************************)
(* What the agent's release of a confidential ticket keeps, for any number *)
(* of calls at a time, messages and troubles.                              *)
(*                                                                         *)
(* That the agent is never ahead of the chain needs little: what is paid   *)
(* out stays so.  That an undisturbed release does not fail needs an order *)
(* of the calls.  Nothing serialises them; but each call that may change   *)
(* the snapshot or the chain holds a baton that no other holds at the same *)
(* time, since the chain accepts a payload once and the timer fires once.  *)
(*                                                                         *)
(* The second part is about the private session in which the terms of the  *)
(* ticket were negotiated.                                                 *)
(***************************************************************************)
EXTENDS ReleaseFlow, SessionPromise, TLAPS

\* A call that has seen the release executed; one that has found a snapshot.
Paid(c) ==
    \/ c.at \in {"executed", "settle", "track"}
    \/ c.at = "publish" /\ (c.stage \in {"release_pending", "settled"} \/ c.next = "settle")
Informed(c) ==
    \/ c.at \in {"send", "record", "attach", "mark", "approve", "sign", "signed", "released",
                 "execute", "executed", "settle", "track"}
    \/ c.at = "publish" /\ c.next \in {"approve", "signed", "settle"}
CallInv ==
    /\ \A w \in Slots : Paid(calls[w]) => executed
    /\ \A w \in Slots : Informed(calls[w]) => store.exists
    /\ timer => store.exists /\ ~store.disputeOpen

\* Before the snapshot exists, and with no trouble, one call prepares it and nothing else
\* happens; afterwards nobody prepares it again.
Opening(c) == c.at \in {"prepare", "initialize"}
Unprepared ==
    /\ state \in {"Open", "Settling"}
    /\ nonce = [p \in Parties |-> 0] /\ approved = {} /\ ~confirmed /\ window = "none"
    /\ ~authorized /\ ~executed /\ ~late /\ ~objected
    /\ funded # Parties => state = "Open"
    /\ ~Published("failed")
    /\ \A w \in Slots : calls[w] # Idle =>
          /\ Opening(calls[w])
          /\ state = "Open" <=> calls[w].at = "prepare"
          /\ \A v \in Slots \ {w} : calls[v] = Idle
Prepared ==
    /\ funded = Parties
    /\ state \notin {"None", "Open"}
    /\ \A w \in Slots : ~Opening(calls[w])
Disputing(c) == c.at = "record" /\ c.kind = "dispute"
Smooth ==
    /\ boot = "ready"
    /\ \A w \in Slots : calls[w] # Idle => calls[w].by # "recovery" /\ funded = Parties
    /\ IF store.exists THEN Prepared ELSE Unprepared
    /\ state = "Disputed" => store.exists /\
          (store.disputeOpen \/ \E w \in Slots : Disputing(calls[w]))
SmoothInv == trouble = "none" => Smooth

\* The batons: to record the approval of a party, to record the confirmation, to attach the
\* buyer's request, and to release.
Releasing(c) ==
    \/ c.at \in {"mark", "read", "approve", "sign", "signed", "released", "execute",
                 "executed", "settle", "track"}
    \/ c.at = "publish" /\ c.next \in {"approve", "settle"}
Baton(c) ==
    CASE c.at = "record" /\ c.kind = "approve" -> c.party
      [] c.at = "record" /\ c.kind = "confirm" -> "confirm"
      [] c.at = "attach" -> "attach"
      [] Releasing(c) -> "release"
      [] OTHER -> "none"
Held(b, cs) == \E w \in Slots : Baton(cs[w]) = b
OneHolder(cs) == \A v, w \in Slots :
    v # w /\ Baton(cs[v]) = Baton(cs[w]) => Baton(cs[v]) = "none"

\* An undisturbed deal on chain has gone straight on.
ChainInv ==
    /\ state \in {"Open", "Settling", "Completed"}
    /\ executed <=> state = "Completed"
    /\ confirmed => approved = Parties
    /\ window = "none" <=> ~confirmed
    /\ authorized => confirmed /\ window = "over"
    /\ executed => authorized
    /\ \A p \in Parties : nonce[p] = IF p \notin approved THEN 0
                                     ELSE IF p = "buyer" /\ confirmed THEN 2 ELSE 1

\* The snapshot is the chain, but for what the holder of a baton has still to write.
ApprovalsInv ==
    /\ \A p \in Parties : p \in approved <=> store.active[p] \/ Held(p, calls)
    /\ \A p \in Parties : ~(store.active[p] /\ Held(p, calls))
    /\ store.planApproved <=> BothActive(store)
    /\ store.nonce["buyer"] = IF ~store.active["buyer"] THEN 0
                              ELSE IF store.releaseConfirmed THEN 2 ELSE 1
RequestInv ==
    /\ store.request \in {0, 2}
    /\ store.confirmation = IF store.releaseConfirmed THEN 2 ELSE 0
    /\ BothActive(store) <=> store.request = 2 \/ Held("attach", calls)
    /\ ~(store.request = 2 /\ Held("attach", calls))
    /\ confirmed => store.request = 2
    /\ confirmed <=> store.releaseConfirmed \/ Held("confirm", calls)
    /\ ~(store.releaseConfirmed /\ Held("confirm", calls))
    /\ store.deadline = store.releaseConfirmed
ReleaseInv ==
    /\ ~store.disputeOpen
    /\ timer => store.releaseConfirmed /\ ~store.releaseAuthorized /\ ~Held("release", calls)
    /\ Held("release", calls) => late
    /\ late => store.releaseConfirmed /\ window = "over"
    /\ store.releaseAuthorized => store.releaseConfirmed
    /\ authorized => store.releaseAuthorized /\ (store.releaseSigned \/ Held("release", calls))
    /\ executed => store.releaseExecuted \/ Held("release", calls)
    /\ store.releaseSigned => authorized
    /\ store.releaseExecuted => executed

\* What a call finds true when it goes on, in a snapshot t; a and e say whether the release
\* is authorized and executed on chain.
PayloadOK(c, t) ==
    /\ c.at \in {"send", "record"} =>
          /\ c.kind \in {"approve", "confirm"}
          /\ c.kind = "approve" => c.nonce = 1
          /\ c.kind = "confirm" => c.party = "buyer" /\ c.nonce = 2 /\ t.request = 2
    /\ c.at = "attach" => c.nonce = 2
ReleaseOK(c, t, a, e) ==
    /\ c.at = "publish" => c.stage # "failed" /\ c.next \in {"track_awaiting", "approve", "settle"}
    /\ c.at = "mark" => c.by = "timer" /\ ~t.releaseAuthorized
    /\ c.at = "read" => c.by = "listener"
    /\ c.at \in {"read", "approve"} \/ (c.at = "publish" /\ c.next = "approve") =>
          t.releaseAuthorized /\ ~t.releaseSigned /\ ~a
    /\ c.at = "sign" => a /\ ~e /\ ~t.releaseSigned
    /\ c.at \in {"signed", "released", "execute"} => t.releaseSigned /\ ~e
    /\ c.at = "executed" => t.releaseSigned /\ ~t.releaseExecuted
    /\ c.at \in {"settle", "track"} \/ (c.at = "publish" /\ c.next = "settle") =>
          t.releaseSigned /\ t.releaseExecuted
GoesOn(c) == PayloadOK(c, store) /\ ReleaseOK(c, store, authorized, executed)
GoesOnNext(c) == PayloadOK(c, store') /\ ReleaseOK(c, store', authorized', executed')
Calm ==
    /\ ChainInv /\ ApprovalsInv /\ RequestInv /\ ReleaseInv
    /\ OneHolder(calls)
    /\ \A w \in Slots : GoesOn(calls[w])
    /\ ~Published("failed")
CalmInv == ~Disturbed /\ store.exists => Calm

\* The first part is inductive, the second relies on the first and the third on both.
Basic == TypeOK /\ SettledIsExecuted /\ CallInv
IInv == Basic /\ SmoothInv /\ CalmInv

-----------------------------------------------------------------------------
\* Calls and stages.
LEMMA IdleAt == ASSUME NEW c \in Calls PROVE c.at = "idle" <=> c = Idle
BY DEF Calls, Idle, Steps

LEMMA SlotFound ==
  ASSUME calls \in [Slots -> Calls], NEW call, Starts(call)
  PROVE  \E w \in Slots : calls[w] = Idle /\ Goes(w, call)
<1> DEFINE f == CHOOSE w \in Free : TRUE
<1>1. f \in Free
  BY DEF Starts
<1>2. f \in Slots /\ calls[f] = Idle
  BY <1>1, IdleAt DEF Free, At
<1> QED BY <1>2 DEF Starts

LEMMA MarkedStages ==
  ASSUME stages \in Seq(Stages), NEW row \in Stages,
         \A i, j \in DOMAIN stages : stages[i] = stages[j] => i = j
  PROVE  /\ Marked(row) \in Seq(Stages)
         /\ \A i, j \in DOMAIN Marked(row) : Marked(row)[i] = Marked(row)[j] => i = j
         /\ \A r : (\E i \in DOMAIN Marked(row) : Marked(row)[i] = r) <=> r = row \/ Published(r)
<1>1. CASE Published(row)
  BY <1>1 DEF Marked, Published
<1>2. CASE ~Published(row)
  <2>1. Marked(row) = Append(stages, row)
    BY <1>2 DEF Marked, Published
  <2>2. /\ Append(stages, row) \in Seq(Stages)
        /\ DOMAIN Append(stages, row) = 1..(Len(stages) + 1)
        /\ DOMAIN stages = 1..Len(stages)
        /\ \A i \in DOMAIN stages : Append(stages, row)[i] = stages[i]
        /\ Append(stages, row)[Len(stages) + 1] = row
        /\ Len(stages) \in Nat
    OBVIOUS
  <2>3. \A i \in DOMAIN Append(stages, row) : i \in DOMAIN stages \/ i = Len(stages) + 1
    BY <2>2
  <2>4. \A i, j \in DOMAIN Append(stages, row) :
            Append(stages, row)[i] = Append(stages, row)[j] => i = j
    BY <1>2, <2>2, <2>3 DEF Published
  <2>5. Len(stages) + 1 \in DOMAIN Append(stages, row)
    BY <2>2
  <2>6. \A i \in DOMAIN stages : i \in DOMAIN Append(stages, row)
    BY <2>2
  <2>7. \A r : (\E i \in DOMAIN Append(stages, row) : Append(stages, row)[i] = r)
                  <=> r = row \/ Published(r)
    BY <2>2, <2>3, <2>5, <2>6 DEF Published
  <2> QED BY <2>1, <2>2, <2>4, <2>7
<1> QED BY <1>1, <1>2

LEMMA PublishedNext ==
  ASSUME stages \in Seq(Stages), NEW row \in Stages, stages' = Marked(row),
         \A i, j \in DOMAIN stages : stages[i] = stages[j] => i = j
  PROVE  \A r : Published(r)' <=> r = row \/ Published(r)
<1>1. \A r : (\E i \in DOMAIN Marked(row) : Marked(row)[i] = r) <=> r = row \/ Published(r)
  BY MarkedStages
<1>2. SUFFICES ASSUME NEW r PROVE Published(r)' <=> r = row \/ Published(r)
  OBVIOUS
<1>3. Published(r)' <=> \E i \in DOMAIN Marked(row) : Marked(row)[i] = r
  BY DEF Published
<1> QED BY <1>1, <1>3

\* The snapshot.
LEMMA SnapshotTypes ==
  ASSUME NEW s \in Snapshots, NEW p \in Parties, NEW n \in Nat
  PROVE  /\ recordApproval(s, p, n) \in Snapshots
         /\ markRevoked(s, p, n) \in Snapshots
         /\ markDispute(s, p, n) \in Snapshots
         /\ markBuyerReleaseConfirmed(s, n) \in Snapshots
         /\ nextRoleNonce(s, p) \in Nat
         /\ BothActive(s) \in BOOLEAN
         /\ s.exists = TRUE
<1>1. [s.active EXCEPT ![p] = TRUE] \in [Parties -> BOOLEAN]
      /\ [s.active EXCEPT ![p] = FALSE] \in [Parties -> BOOLEAN]
      /\ [s.nonce EXCEPT ![p] = n] \in [Parties -> Nat]
  BY DEF Snapshots
<1>2. \A t \in Snapshots : BothActive(t) \in BOOLEAN
  BY DEF BothActive
<1>3. recordApproval(s, p, n) \in Snapshots
  <2> DEFINE new == [s EXCEPT !.active[p] = TRUE, !.nonce[p] = n]
  <2>1. new \in Snapshots
    BY <1>1 DEF Snapshots
  <2> HIDE DEF new
  <2>2. [new EXCEPT !.planApproved = BothActive(new)] \in Snapshots
    BY <1>2, <2>1 DEF Snapshots
  <2> QED BY <2>2 DEF recordApproval, new
<1>4. Withdrawn(s, p, n) \in Snapshots
  BY <1>1 DEF Withdrawn, Snapshots
<1>5. markRevoked(s, p, n) \in Snapshots /\ markDispute(s, p, n) \in Snapshots
  <2> DEFINE t == Withdrawn(s, p, n)
  <2>1. t \in Snapshots
    BY <1>4
  <2> HIDE DEF t
  <2>2. [t EXCEPT !.disputeOpen = TRUE] \in Snapshots
    BY <2>1 DEF Snapshots
  <2> QED BY <2>1, <2>2 DEF markRevoked, markDispute, t
<1>6. markBuyerReleaseConfirmed(s, n) \in Snapshots
  <2>1. [s.active EXCEPT !["buyer"] = TRUE] \in [Parties -> BOOLEAN]
        /\ [s.nonce EXCEPT !["buyer"] = n] \in [Parties -> Nat] /\ s.active["seller"] \in BOOLEAN
    BY DEF Snapshots, Parties
  <2> QED BY <2>1 DEF markBuyerReleaseConfirmed, Snapshots
<1>7. nextRoleNonce(s, p) \in Nat
  BY DEF nextRoleNonce, Snapshots
<1>8. s.exists = TRUE
  BY DEF Snapshots
<1> QED BY <1>2, <1>3, <1>5, <1>6, <1>7, <1>8

LEMMA Approving ==
  ASSUME NEW s \in Snapshots, NEW p \in Parties, NEW n \in Nat
  PROVE  LET t == recordApproval(s, p, n)
         IN  /\ t.active = [s.active EXCEPT ![p] = TRUE] /\ t.nonce = [s.nonce EXCEPT ![p] = n]
             /\ t.planApproved = BothActive(t)
             /\ t.request = s.request /\ t.confirmation = s.confirmation
             /\ t.releaseConfirmed = s.releaseConfirmed /\ t.deadline = s.deadline
             /\ t.disputeOpen = s.disputeOpen /\ t.releaseAuthorized = s.releaseAuthorized
             /\ t.releaseSigned = s.releaseSigned /\ t.releaseExecuted = s.releaseExecuted
BY DEF Snapshots, recordApproval, BothActive, Parties

LEMMA Confirming ==
  ASSUME NEW s \in Snapshots, NEW n \in Nat
  PROVE  LET t == markBuyerReleaseConfirmed(s, n)
         IN  /\ t.active = [s.active EXCEPT !["buyer"] = TRUE]
             /\ t.nonce = [s.nonce EXCEPT !["buyer"] = n]
             /\ t.planApproved = s.active["seller"]
             /\ t.request = s.request /\ t.confirmation = n
             /\ t.releaseConfirmed /\ t.deadline
             /\ t.disputeOpen = s.disputeOpen /\ ~t.releaseAuthorized
             /\ t.releaseSigned = s.releaseSigned /\ t.releaseExecuted = s.releaseExecuted
BY DEF Snapshots, markBuyerReleaseConfirmed

LEMMA RecordedType ==
  ASSUME NEW s \in Snapshots, NEW c \in Calls, c.at = "record"
  PROVE  /\ Recorded(s, c) \in Snapshots
         /\ Recorded(s, c).releaseExecuted = s.releaseExecuted
         /\ c.kind \in {"approve", "confirm"} => Recorded(s, c).disputeOpen = s.disputeOpen
         /\ s.disputeOpen => Recorded(s, c).disputeOpen
         /\ c.kind = "dispute" => Recorded(s, c).disputeOpen
<1>1. c.party \in Parties /\ c.nonce \in Nat /\ c.kind \in Kinds
  BY DEF Calls, Idle, Steps
<1>2. /\ recordApproval(s, c.party, c.nonce) \in Snapshots
      /\ markRevoked(s, c.party, c.nonce) \in Snapshots
      /\ markDispute(s, c.party, c.nonce) \in Snapshots
      /\ markBuyerReleaseConfirmed(s, c.nonce) \in Snapshots
  BY <1>1, SnapshotTypes
<1>3. CASE c.kind = "approve"
  <2>1. Recorded(s, c) = recordApproval(s, c.party, c.nonce)
    BY <1>3 DEF Recorded
  <2>2. /\ recordApproval(s, c.party, c.nonce).releaseExecuted = s.releaseExecuted
        /\ recordApproval(s, c.party, c.nonce).disputeOpen = s.disputeOpen
    BY <1>1, Approving
  <2> QED BY <1>2, <1>3, <2>1, <2>2
<1>4. CASE c.kind = "confirm"
  BY <1>1, <1>2, <1>4, Confirming DEF Recorded
<1>5. CASE c.kind = "revoke"
  BY <1>1, <1>2, <1>5 DEF Recorded, markRevoked, Withdrawn, Snapshots
<1>6. CASE c.kind = "dispute"
  BY <1>1, <1>2, <1>6 DEF Recorded, markDispute, Withdrawn, Snapshots
<1> QED BY <1>1, <1>3, <1>4, <1>5, <1>6 DEF Kinds

-----------------------------------------------------------------------------
\* Types.  Every step leads a call to another one.
LEMMA CallFields ==
  ASSUME NEW c \in Calls
  PROVE  /\ c # Idle => c.by \in Starters
         /\ c.at = "publish" => c.stage \in Stages /\
                                c.next \in {"end", "track_awaiting", "approve", "signed", "settle"}
         /\ c.at \in {"send", "record"} => /\ c.party \in Parties /\ c.kind \in Kinds
                                           /\ c.nonce \in Nat /\ c.by = "message"
         /\ c.at = "attach" => c.nonce \in Nat /\ c.by = "message"
BY DEF Calls, Idle, Steps, Starters

LEMMA CallTypes ==
  ASSUME NEW by \in Starters
  PROVE  /\ \A place \in Steps : [at |-> place, by |-> by] \in Calls
         /\ \A row \in Stages, next \in {"end", "track_awaiting", "approve", "signed", "settle"} :
               [at |-> "publish", by |-> by, stage |-> row, next |-> next] \in Calls
         /\ Idle \in Calls
BY DEF Calls

LEMMA PayloadTypes ==
  ASSUME NEW p \in Parties, NEW kind \in Kinds, NEW n \in Nat
  PROVE  /\ \A place \in {"send", "record"} :
              [at |-> place, by |-> "message", party |-> p, kind |-> kind, nonce |-> n] \in Calls
         /\ [at |-> "attach", by |-> "message", nonce |-> n] \in Calls
BY DEF Calls

LEMMA Recording ==
  ASSUME NEW c \in Calls, c.at = "send"
  PROVE  /\ [c EXCEPT !.at = "record"] =
               [at |-> "record", by |-> "message", party |-> c.party, kind |-> c.kind,
                nonce |-> c.nonce]
         /\ [c EXCEPT !.at = "record"] \in Calls
BY DEF Calls, Idle, Steps

LEMMA ChainTypes ==
  ASSUME Deal!TypeOK, NEW p \in Parties, NEW n \in Nat,
         Deal!Request \/ Deal!Submit(p, n) \/ Deal!Revoke(p, n) \/ Deal!Confirm(n)
         \/ Deal!Dispute(p, n) \/ Deal!Resolve \/ Deal!WindowEnds \/ Deal!Authorize \/ Deal!Execute
         \/ UNCHANGED chain
  PROVE  Deal!TypeOK' /\ (executed => executed')
<1>1. /\ [nonce EXCEPT ![p] = n] \in [Parties -> Nat]
      /\ [nonce EXCEPT !["buyer"] = n] \in [Parties -> Nat]
      /\ approved \cup {p} \in SUBSET Parties /\ approved \ {p} \in SUBSET Parties
      /\ {} \in SUBSET Parties
  BY DEF Deal!TypeOK, Parties
<1>2. CASE Deal!Request \/ UNCHANGED chain
  BY <1>2 DEF Deal!TypeOK, Deal!Request, Deal!consent, chain
<1>3. CASE Deal!Submit(p, n)
  BY <1>1, <1>3 DEF Deal!TypeOK, Deal!Submit, Deal!Signs
<1>4. CASE Deal!Revoke(p, n)
  BY <1>1, <1>4 DEF Deal!TypeOK, Deal!Revoke, Deal!Signs
<1>5. CASE Deal!Confirm(n)
  BY <1>1, <1>5 DEF Deal!TypeOK, Deal!Confirm, Deal!Signs
<1>6. CASE Deal!Dispute(p, n)
  BY <1>1, <1>6 DEF Deal!TypeOK, Deal!Dispute, Deal!Signs
<1>7. CASE Deal!Resolve
  BY <1>1, <1>7 DEF Deal!TypeOK, Deal!Resolve
<1>8. CASE Deal!WindowEnds
  BY <1>8 DEF Deal!TypeOK, Deal!WindowEnds
<1>9. CASE Deal!Authorize \/ Deal!Execute
  BY <1>9 DEF Deal!TypeOK, Deal!Authorize, Deal!Execute, Deal!consent
<1> QED BY <1>2, <1>3, <1>4, <1>5, <1>6, <1>7, <1>8, <1>9

-----------------------------------------------------------------------------
\* The agent is not ahead of the chain.
LEMMA BasicGives ==
  ASSUME Basic
  PROVE  /\ calls \in [Slots -> Calls] /\ stages \in Seq(Stages) /\ funded \in SUBSET Parties
         /\ \A i, j \in DOMAIN stages : stages[i] = stages[j] => i = j
         /\ store.exists <=> store \in Snapshots
         /\ store.exists \in BOOLEAN
         /\ Deal!TypeOK
<1>1. store = NoSnapshot \/ store \in Snapshots
  BY DEF Basic, TypeOK
<1>2. NoSnapshot.exists = FALSE /\ \A t \in Snapshots : t.exists = TRUE
  BY DEF NoSnapshot, Snapshots
<1> QED BY <1>1, <1>2 DEF Basic, TypeOK

\* What the call that goes on has to show.
LEMMA CallsKept ==
  ASSUME CallInv, calls \in [Slots -> Calls],
         NEW w \in Slots, NEW c \in Calls, Goes(w, c),
         executed => executed', store.exists => store.exists',
         Paid(c) => executed', Informed(c) => store.exists',
         timer' => store.exists' /\ ~store.disputeOpen'
  PROVE  CallInv' /\ calls' \in [Slots -> Calls]
BY DEF CallInv, Goes

\* Nothing but the chain, or less, is written.
LEMMA NothingWritten ==
  ASSUME Basic, UNCHANGED rows, executed => executed'
  PROVE  SettledIsExecuted'
BY DEF Basic, SettledIsExecuted, Published, Tracked, rows

\* Where a call goes that has asked for the authorization.
Returned(w, s) ==
    IF calls[w].by \in {"message", "timer"} THEN Idle
    ELSE Publishing(w, IF s.releaseAuthorized THEN "release_authorized" ELSE "seller_dispute_window",
                    IF ~s.releaseAuthorized THEN "end"
                    ELSE IF s.releaseSigned THEN "signed" ELSE "approve")
Led(w, s, over) ==
    IF Authorizes(s, over) THEN [at |-> "mark", by |-> calls[w].by] ELSE Returned(w, s)

LEMMA Returning ==
  ASSUME calls \in [Slots -> Calls], NEW w \in Slots, calls[w] # Idle,
         NEW s \in Snapshots, Returns(w, s)
  PROVE  /\ boot' = boot /\ Goes(w, Returned(w, s))
         /\ Returned(w, s) \in Calls /\ ~Paid(Returned(w, s))
<1> DEFINE row == IF s.releaseAuthorized THEN "release_authorized" ELSE "seller_dispute_window"
           next == IF ~s.releaseAuthorized THEN "end"
                   ELSE IF s.releaseSigned THEN "signed" ELSE "approve"
<1>1. calls[w].by \in Starters
  BY CallFields
<1>2. row \in Stages /\ next \in {"end", "track_awaiting", "approve", "signed", "settle"}
  BY DEF Stages
<1>3. Publishing(w, row, next) \in Calls /\ Idle \in Calls
  BY <1>1, <1>2, CallTypes DEF Publishing
<1>4. ~Paid(Publishing(w, row, next)) /\ ~Paid(Idle)
  BY DEF Paid, Publishing, Idle
<1>5. Goes(w, Returned(w, s)) /\ boot' = boot
  <2>1. CASE calls[w].by \in {"message", "timer"}
    BY <2>1 DEF Returns, Ends, Returned
  <2>2. CASE calls[w].by \notin {"message", "timer"} /\ s.releaseAuthorized
    BY <2>2 DEF Returns, Returned
  <2>3. CASE calls[w].by \notin {"message", "timer"} /\ ~s.releaseAuthorized
    BY <2>3 DEF Returns, PublishesLast, Returned
  <2> QED BY <2>1, <2>2, <2>3
<1> QED BY <1>3, <1>4, <1>5 DEF Returned

LEMMA MaybeAuthorizing ==
  ASSUME calls \in [Slots -> Calls], NEW w \in Slots, calls[w] # Idle, NEW over,
         NEW s \in Snapshots, maybeAuthorizeRelease(w, s, over)
  PROVE  /\ boot' = boot /\ timer' = TimerAfter(s, over) /\ (timer' => ~s.disputeOpen)
         /\ Goes(w, Led(w, s, over)) /\ Led(w, s, over) \in Calls /\ ~Paid(Led(w, s, over))
<1>1. timer' = TimerAfter(s, over) /\ (timer' => ~s.disputeOpen)
  BY DEF maybeAuthorizeRelease, TimerAfter, Past
<1>2. calls[w].by \in Starters
  BY CallFields
<1>3. CASE Authorizes(s, over)
  <2>1. Goes(w, [at |-> "mark", by |-> calls[w].by]) /\ boot' = boot
    BY <1>3 DEF maybeAuthorizeRelease, Moves
  <2>2. [at |-> "mark", by |-> calls[w].by] \in Calls
    BY <1>2, CallTypes DEF Steps
  <2>3. ~Paid([at |-> "mark", by |-> calls[w].by])
    BY DEF Paid
  <2> QED BY <1>1, <1>3, <2>1, <2>2, <2>3 DEF Led
<1>4. CASE ~Authorizes(s, over)
  <2>1. Returns(w, s)
    BY <1>4 DEF maybeAuthorizeRelease
  <2> QED BY <1>1, <1>4, <2>1, Returning DEF Led
<1> QED BY <1>3, <1>4

\* The rest of the types, when the calls have theirs.
LEMMA TypesKept ==
  ASSUME TypeOK, Deal!TypeOK', calls' \in [Slots -> Calls],
         funded' \in SUBSET Parties, store' \in {NoSnapshot} \cup Snapshots,
         stages' = stages \/ \E row \in Stages : stages' = Marked(row),
         timer' \in BOOLEAN, late' \in BOOLEAN, objected' \in BOOLEAN,
         boot' \in {"recover", "recovering", "finalize", "ready", "dispatched"},
         messages' \in Nat, trouble' \in {"none"} \cup Troubles
  PROVE  TypeOK'
<1>1. stages' \in Seq(Stages) /\ \A i, j \in DOMAIN stages' : stages'[i] = stages'[j] => i = j
  BY MarkedStages DEF TypeOK
<1> QED BY <1>1 DEF TypeOK

LEMMA ChainKept == ASSUME Deal!TypeOK, UNCHANGED chain PROVE Deal!TypeOK'
BY DEF Deal!TypeOK, chain

\* Steps that write no row.
LEMMA MoveBasic ==
  ASSUME Basic, Deal!TypeOK', executed => executed', UNCHANGED rows,
         late' \in BOOLEAN, trouble' \in {"none"} \cup Troubles,
         messages' \in Nat, objected' \in BOOLEAN,
         boot' \in {"recover", "recovering", "finalize", "ready", "dispatched"},
         timer' \in BOOLEAN, timer' => store.exists /\ ~store.disputeOpen,
         calls' = calls \/ \E w \in Slots, c \in Calls :
             Goes(w, c) /\ (Paid(c) => executed') /\ (Informed(c) => store.exists)
  PROVE  Basic'
<1>1. SettledIsExecuted'
  BY NothingWritten
<1>2. store' = store
  BY DEF rows
<1>3. CallInv' /\ calls' \in [Slots -> Calls]
  <2>1. CASE calls' = calls
    BY <1>2, <2>1, BasicGives DEF Basic, CallInv
  <2>2. CASE calls' # calls
    BY <1>2, <2>2, BasicGives, CallsKept DEF Basic
  <2> QED BY <2>1, <2>2
<1>4. TypeOK'
  BY <1>3, TypesKept DEF Basic, TypeOK, rows
<1> QED BY <1>1, <1>3, <1>4 DEF Basic

\* Steps that write the snapshot.
LEMMA WriteBasic ==
  ASSUME Basic, UNCHANGED <<chain, stages, tracked, funded, history>>,
         store' \in Snapshots, store'.releaseExecuted => executed,
         late' \in BOOLEAN, timer' \in BOOLEAN, timer' => ~store'.disputeOpen,
         boot' \in {"recover", "recovering", "finalize", "ready", "dispatched"},
         NEW w \in Slots, NEW c \in Calls, Goes(w, c), Paid(c) => executed
  PROVE  Basic'
<1>1. store'.exists = TRUE /\ executed' = executed /\ store'.exists
  BY DEF Snapshots, chain
<1>2. CallInv' /\ calls' \in [Slots -> Calls]
  BY <1>1, BasicGives, CallsKept DEF Basic
<1>3. TypeOK'
  BY <1>2, ChainKept, TypesKept DEF Basic, TypeOK, history
<1>4. SettledIsExecuted'
  BY <1>1 DEF Basic, SettledIsExecuted, Published, Tracked
<1> QED BY <1>2, <1>3, <1>4 DEF Basic

\* Steps that publish a stage.
LEMMA StageBasic ==
  ASSUME Basic, UNCHANGED <<chain, store, tracked, funded, timer, late, history>>,
         NEW row \in Stages, stages' = Marked(row), row \in {"release_pending", "settled"} => executed,
         boot' \in {"recover", "recovering", "finalize", "ready", "dispatched"},
         NEW w \in Slots, NEW c \in Calls, Goes(w, c),
         Paid(c) => executed, Informed(c) => store.exists
  PROVE  Basic'
<1>1. executed' = executed /\ store' = store /\ timer' = timer /\ tracked' = tracked
  BY DEF chain
<1>2. CallInv' /\ calls' \in [Slots -> Calls]
  BY <1>1, BasicGives, CallsKept DEF Basic, CallInv
<1>3. TypeOK'
  BY <1>2, ChainKept, TypesKept, BasicGives DEF Basic, TypeOK, history
<1>4. \A r : Published(r)' => r = row \/ Published(r)
  BY BasicGives, PublishedNext
<1>5. SettledIsExecuted'
  BY <1>1, <1>4 DEF Basic, SettledIsExecuted, Tracked
<1> QED BY <1>2, <1>3, <1>5 DEF Basic

\* What the calls need of where they are.
LEMMA Whereabouts ==
  ASSUME Basic, NEW w \in Slots, ~At(w, "idle")
  PROVE  /\ calls[w] \in Calls /\ calls[w] # Idle /\ calls[w].by \in Starters
         /\ Informed(calls[w]) => store \in Snapshots
         /\ Paid(calls[w]) => executed
         /\ boot \in {"recover", "recovering", "finalize", "ready", "dispatched"}
         /\ timer \in BOOLEAN /\ late \in BOOLEAN /\ trouble \in {"none"} \cup Troubles
         /\ timer => store.exists /\ ~store.disputeOpen
<1>1. calls[w] \in Calls /\ calls[w] # Idle
  BY BasicGives, IdleAt DEF At
<1> QED BY <1>1, CallFields, BasicGives DEF Basic, CallInv, TypeOK

LEMMA Ending ==
  ASSUME Basic, NEW w \in Slots, Ends(w)
  PROVE  /\ Goes(w, Idle) /\ Idle \in Calls /\ ~Paid(Idle) /\ ~Informed(Idle)
         /\ boot' \in {"recover", "recovering", "finalize", "ready", "dispatched"}
         /\ calls[w].by # "recovery" => boot' = boot
BY DEF Ends, Basic, TypeOK, Calls, Paid, Informed, Idle

LEMMA PublishBasic == ASSUME Basic, NEW w \in Slots, PublishStage(w) PROVE Basic'
<1> DEFINE c == IF calls[w].next = "end" THEN Idle
                ELSE [at |-> calls[w].next, by |-> calls[w].by]
<1>0. calls[w].at = "publish" /\ ~At(w, "idle")
  BY DEF PublishStage, At
<1>1. /\ calls[w].stage \in Stages
      /\ calls[w].next \in {"end", "track_awaiting", "approve", "signed", "settle"}
  BY <1>0, Whereabouts, CallFields
<1>2. Goes(w, c) /\ c \in Calls
      /\ boot' \in {"recover", "recovering", "finalize", "ready", "dispatched"}
  <2>1. CASE calls[w].next = "end"
    BY <2>1, Ending DEF PublishStage
  <2>2. CASE calls[w].next # "end"
    <3>1. c \in Calls
      BY <1>0, <1>1, <2>2, Whereabouts, CallTypes DEF Steps
    <3> QED BY <1>0, <2>2, <3>1, Whereabouts DEF PublishStage, Moves
  <2> QED BY <2>1, <2>2
<1>3. (Paid(c) => Paid(calls[w])) /\ (Informed(c) => Informed(calls[w]))
  BY <1>0, <1>1 DEF Paid, Informed, Idle
<1>4. UNCHANGED <<chain, store, tracked, funded, timer, late, history>>
      /\ stages' = Marked(calls[w].stage)
  BY DEF PublishStage
<1>5. calls[w].stage \in {"settled", "release_pending"} => Paid(calls[w])
  BY <1>0 DEF Paid
<1> HIDE DEF c
<1> QED BY <1>0, <1>1, <1>2, <1>3, <1>4, <1>5, StageBasic, Whereabouts, BasicGives

LEMMA PrepareBasic == ASSUME Basic, NEW w \in Slots, Prepare(w) PROVE Basic'
<1>1. calls[w].by \in Starters /\ ~At(w, "idle")
  BY Whereabouts DEF Prepare, At
<1>2. Deal!TypeOK' /\ (executed => executed')
  BY BasicGives, ChainTypes DEF Prepare, Parties
<1> DEFINE c == [at |-> "initialize", by |-> calls[w].by]
           d == Publishing(w, "failed", "end")
<1>3. c \in Calls /\ d \in Calls /\ ~Paid(c) /\ ~Paid(d) /\ ~Informed(c) /\ ~Informed(d)
  BY <1>1, CallTypes DEF Publishing, Steps, Stages, Paid, Informed
<1>4. Goes(w, c) \/ Goes(w, d)
  BY DEF Prepare, Moves, PublishesLast
<1>5. UNCHANGED <<rows, timer, boot, late, history>>
  BY DEF Prepare
<1> HIDE DEF c, d
<1> QED BY <1>1, <1>2, <1>3, <1>4, <1>5, MoveBasic, Whereabouts DEF history, Basic, TypeOK

LEMMA InitializeBasic == ASSUME Basic, NEW w \in Slots, Initialize(w) PROVE Basic'
<1>1. calls[w].by \in Starters /\ ~At(w, "idle")
  BY Whereabouts DEF Initialize, At
<1> DEFINE c == Publishing(w, "awaiting_settlement_plan_approvals", "track_awaiting")
<1>2. c \in Calls /\ ~Paid(c)
  BY <1>1, CallTypes DEF Publishing, Stages, Paid
<1>3. store' = Requested /\ Requested \in Snapshots /\ ~Requested.releaseExecuted
      /\ ~Requested.disputeOpen
  BY DEF Initialize, Requested, Snapshots, Parties
<1>4. /\ UNCHANGED <<chain, stages, tracked, funded, timer, boot, late, history>>
      /\ Goes(w, c)
  BY DEF Initialize
<1> HIDE DEF c
<1> QED BY <1>1, <1>2, <1>3, <1>4, WriteBasic, Whereabouts

LEMMA SendBasic == ASSUME Basic, NEW w \in Slots, SendPayload(w) PROVE Basic'
<1>1. calls[w].at = "send" /\ ~At(w, "idle")
  BY DEF SendPayload, At
<1>2. calls[w] \in Calls /\ calls[w].party \in Parties /\ calls[w].nonce \in Nat
  BY <1>1, Whereabouts, CallFields
<1>3. Informed(calls[w]) /\ store.exists
  BY <1>1, Whereabouts, BasicGives DEF Informed
<1>4. UNCHANGED <<rows, timer, late, history>>
  BY DEF SendPayload
<1>5. CASE Lands(calls[w]) /\ Goes(w, [calls[w] EXCEPT !.at = "record"]) /\ UNCHANGED boot
  <2>1. Deal!TypeOK' /\ (executed => executed')
    BY <1>2, <1>5, BasicGives, ChainTypes DEF Lands
  <2> DEFINE c == [calls[w] EXCEPT !.at = "record"]
  <2>2. c \in Calls /\ ~Paid(c)
    BY <1>1, <1>2, Recording DEF Paid
  <2> HIDE DEF c
  <2>3. Goes(w, c)
    BY <1>5 DEF c
  <2> QED BY <1>1, <1>3, <1>4, <1>5, <2>1, <2>2, <2>3, MoveBasic, Whereabouts DEF history, Basic, TypeOK
<1>6. CASE UNCHANGED chain /\ Ends(w)
  <2>1. Deal!TypeOK' /\ executed' = executed
    BY <1>6, BasicGives, ChainKept DEF chain
  <2> QED BY <1>1, <1>4, <1>6, <2>1, MoveBasic, Whereabouts, Ending DEF history, Basic, TypeOK
<1> QED BY <1>5, <1>6 DEF SendPayload

LEMMA RecordBasic == ASSUME Basic, NEW w \in Slots, RecordPayload(w) PROVE Basic'
<1> DEFINE new == Recorded(store, calls[w])
           over == late /\ calls[w].kind # "confirm"
<1>1. calls[w].at = "record" /\ ~At(w, "idle")
  BY DEF RecordPayload, At
<1>2. calls[w] \in Calls /\ calls[w].party \in Parties /\ calls[w].nonce \in Nat
      /\ calls[w].kind \in Kinds /\ calls[w] # Idle
  BY <1>1, Whereabouts, CallFields
<1>3. store \in Snapshots
  BY <1>1, Whereabouts DEF Informed
<1>4. new \in Snapshots /\ new.releaseExecuted = store.releaseExecuted
  BY <1>1, <1>2, <1>3, RecordedType
<1>5. store' = new /\ late' = over
      /\ UNCHANGED <<chain, stages, tracked, funded, history>>
  BY DEF RecordPayload
<1> DEFINE c == [at |-> "attach", by |-> "message", nonce |-> nextRoleNonce(new, "buyer")]
<1>6. CASE calls[w].kind = "approve" /\ ~new.disputeOpen /\ Goes(w, c) /\ UNCHANGED <<timer, boot>>
  <2>1. nextRoleNonce(new, "buyer") \in Nat
    BY <1>4, SnapshotTypes DEF Parties
  <2>2. c \in Calls /\ ~Paid(c)
    BY <2>1, PayloadTypes DEF Paid, Kinds, Parties
  <2> HIDE DEF c, new
  <2> QED BY <1>1, <1>3, <1>4, <1>5, <1>6, <2>2, WriteBasic, Whereabouts
       DEF Basic, SettledIsExecuted, Snapshots
<1>7. CASE maybeAuthorizeRelease(w, new, over)
  <2>1. /\ boot' = boot /\ timer' = TimerAfter(new, over) /\ (timer' => ~new.disputeOpen)
        /\ Goes(w, Led(w, new, over)) /\ Led(w, new, over) \in Calls /\ ~Paid(Led(w, new, over))
    BY <1>2, <1>4, <1>7, MaybeAuthorizing, BasicGives
  <2>2. timer' \in BOOLEAN
    BY <2>1 DEF TimerAfter
  <2> HIDE DEF new
  <2> QED BY <1>1, <1>3, <1>4, <1>5, <2>1, <2>2, WriteBasic, Whereabouts
       DEF Basic, SettledIsExecuted, Snapshots
<1> QED BY <1>6, <1>7 DEF RecordPayload

LEMMA AttachBasic == ASSUME Basic, NEW w \in Slots, AttachBuyerReleaseRequest(w) PROVE Basic'
<1> DEFINE new == [store EXCEPT !.request = calls[w].nonce, !.planApproved = BothActive(store)]
<1>1. calls[w].at = "attach" /\ ~At(w, "idle")
  BY DEF AttachBuyerReleaseRequest, At
<1>2. calls[w] # Idle /\ calls[w].nonce \in Nat
  BY <1>1, Whereabouts, CallFields
<1>3. store \in Snapshots
  BY <1>1, Whereabouts DEF Informed
<1>4. new \in Snapshots /\ new.releaseExecuted = store.releaseExecuted
  BY <1>2, <1>3, SnapshotTypes DEF Snapshots, BothActive
<1>5. store' = new /\ maybeAuthorizeRelease(w, new, late)
      /\ UNCHANGED <<chain, stages, tracked, funded, late, history>>
  BY DEF AttachBuyerReleaseRequest
<1>6. /\ boot' = boot /\ timer' = TimerAfter(new, late) /\ (timer' => ~new.disputeOpen)
      /\ Goes(w, Led(w, new, late)) /\ Led(w, new, late) \in Calls /\ ~Paid(Led(w, new, late))
  BY <1>2, <1>4, <1>5, MaybeAuthorizing, BasicGives
<1>7. timer' \in BOOLEAN
  BY <1>6 DEF TimerAfter
<1> HIDE DEF new
<1> QED BY <1>1, <1>3, <1>4, <1>5, <1>6, <1>7, WriteBasic, Whereabouts
     DEF Basic, SettledIsExecuted, Snapshots

LEMMA MarkBasic == ASSUME Basic, NEW w \in Slots, MarkAuthorized(w) PROVE Basic'
<1> DEFINE marked == [store EXCEPT !.releaseAuthorized = TRUE]
           c == [at |-> "read", by |-> "listener"]
<1>1. calls[w].at = "mark" /\ ~At(w, "idle") /\ calls[w] # Idle
  BY Whereabouts DEF MarkAuthorized, At
<1>2. store \in Snapshots
  BY <1>1, Whereabouts DEF Informed
<1>3. marked \in Snapshots /\ marked.releaseExecuted = store.releaseExecuted
      /\ marked.disputeOpen = store.disputeOpen
  BY <1>2 DEF Snapshots
<1>4. store' = marked /\ UNCHANGED <<chain, stages, tracked, funded, timer, late, history>>
  BY DEF MarkAuthorized
<1>5. \E d \in Calls : Goes(w, d) /\ ~Paid(d) /\ boot' = boot
  <2>1. CASE Returns(w, store)
    BY <1>1, <1>2, <2>1, Returning, BasicGives
  <2>2. CASE Returns(w, marked)
    BY <1>1, <1>3, <2>2, Returning, BasicGives
  <2>3. CASE Goes(w, c) /\ boot' = boot
    <3>1. c \in Calls /\ ~Paid(c)
      BY CallTypes DEF Paid, Starters, Steps
    <3> QED BY <2>3, <3>1
  <2> QED BY <2>1, <2>2, <2>3 DEF MarkAuthorized
<1> HIDE DEF marked
<1> QED BY <1>1, <1>2, <1>3, <1>4, <1>5, WriteBasic, Whereabouts
     DEF Basic, SettledIsExecuted, Snapshots

LEMMA ReadBasic == ASSUME Basic, NEW w \in Slots, ReadState(w) PROVE Basic'
<1>1. calls[w].at = "read" /\ ~At(w, "idle") /\ calls[w] # Idle /\ calls[w].by \in Starters
  BY Whereabouts DEF ReadState, At
<1>2. UNCHANGED <<chain, rows, late, history>>
  BY DEF ReadState
<1>3. Deal!TypeOK' /\ executed' = executed
  BY <1>2, BasicGives, ChainKept DEF chain
<1>4. CASE /\ timer' = timer
           /\ \/ Ends(w)
              \/ \E row \in Stages : PublishesLast(w, row) /\ boot' = boot
                                     /\ row \notin {"release_pending", "settled"}
  <2>1. CASE Ends(w)
    BY <1>1, <1>2, <1>3, <1>4, <2>1, MoveBasic, Whereabouts, Ending DEF history, Basic, TypeOK
  <2>2. ASSUME NEW row \in Stages, PublishesLast(w, row), boot' = boot,
               row \notin {"release_pending", "settled"}
        PROVE  Basic'
    <3> DEFINE c == Publishing(w, row, "end")
    <3>1. c \in Calls /\ ~Paid(c) /\ ~Informed(c)
      BY <1>1, <2>2, CallTypes DEF Publishing, Paid, Informed
    <3>2. Goes(w, c)
      BY <2>2 DEF PublishesLast
    <3> HIDE DEF c
    <3> QED BY <1>1, <1>2, <1>3, <1>4, <2>2, <3>1, <3>2, MoveBasic, Whereabouts
         DEF history, Basic, TypeOK
  <2> QED BY <1>4, <2>1, <2>2
<1>5. CASE store.exists /\ maybeAuthorizeRelease(w, store, late)
  <2>1. store \in Snapshots
    BY <1>5, BasicGives
  <2>2. /\ boot' = boot /\ timer' = TimerAfter(store, late) /\ (timer' => ~store.disputeOpen)
        /\ Goes(w, Led(w, store, late)) /\ Led(w, store, late) \in Calls
        /\ ~Paid(Led(w, store, late))
    BY <1>1, <1>5, <2>1, MaybeAuthorizing, BasicGives
  <2>3. timer' \in BOOLEAN
    BY <2>2 DEF TimerAfter
  <2> QED BY <1>1, <1>2, <1>3, <1>5, <2>2, <2>3, MoveBasic, Whereabouts DEF history, Basic, TypeOK
<1> QED BY <1>4, <1>5 DEF ReadState, Stages

LEMMA ApproveBasic == ASSUME Basic, NEW w \in Slots, Approve(w) PROVE Basic'
<1> DEFINE c == [at |-> "sign", by |-> calls[w].by]
           d == Publishing(w, "failed", "end")
<1>1. calls[w].by \in Starters /\ ~At(w, "idle") /\ store.exists
  BY Whereabouts, BasicGives DEF Approve, At, Informed
<1>2. Deal!TypeOK' /\ (executed => executed')
  BY BasicGives, ChainTypes DEF Approve, Parties
<1>3. c \in Calls /\ d \in Calls /\ ~Paid(c) /\ ~Paid(d) /\ ~Informed(d)
  BY <1>1, CallTypes DEF Publishing, Steps, Stages, Paid, Informed
<1>4. Goes(w, c) \/ Goes(w, d)
  BY DEF Approve, Moves, PublishesLast
<1>5. UNCHANGED <<rows, timer, boot, late, history>>
  BY DEF Approve
<1> HIDE DEF c, d
<1> QED BY <1>1, <1>2, <1>3, <1>4, <1>5, MoveBasic, Whereabouts DEF history, Basic, TypeOK

LEMMA SignBasic == ASSUME Basic, NEW w \in Slots, MarkReleaseSigned(w) PROVE Basic'
<1> DEFINE new == [store EXCEPT !.releaseAuthorized = TRUE, !.releaseSigned = TRUE]
           c == [at |-> "signed", by |-> calls[w].by]
<1>1. ~At(w, "idle") /\ calls[w].by \in Starters /\ store \in Snapshots
  BY Whereabouts DEF MarkReleaseSigned, At, Informed
<1>2. new \in Snapshots /\ new.releaseExecuted = store.releaseExecuted
      /\ new.disputeOpen = store.disputeOpen
  BY <1>1 DEF Snapshots
<1>3. store' = new /\ Goes(w, c) /\ UNCHANGED <<chain, stages, tracked, funded, timer, boot, late, history>>
  BY DEF MarkReleaseSigned, Moves
<1>4. c \in Calls /\ ~Paid(c)
  BY <1>1, CallTypes DEF Steps, Paid
<1> HIDE DEF new, c
<1> QED BY <1>1, <1>2, <1>3, <1>4, WriteBasic, Whereabouts DEF Basic, SettledIsExecuted, Snapshots

LEMMA ExecutedBasic == ASSUME Basic, NEW w \in Slots, MarkReleaseExecuted(w) PROVE Basic'
<1> DEFINE new == [store EXCEPT !.releaseExecuted = TRUE]
           c == Publishing(w, "release_pending", "settle")
<1>1. ~At(w, "idle") /\ calls[w].by \in Starters /\ store \in Snapshots /\ executed
  BY Whereabouts DEF MarkReleaseExecuted, At, Informed, Paid
<1>2. new \in Snapshots
  BY <1>1 DEF Snapshots
<1>3. store' = new /\ Goes(w, c) /\ ~timer'
      /\ timer' \in BOOLEAN /\ UNCHANGED <<chain, stages, tracked, funded, boot, late, history>>
  BY DEF MarkReleaseExecuted
<1>4. c \in Calls
  BY <1>1, CallTypes DEF Publishing, Stages
<1> HIDE DEF new, c
<1> QED BY <1>1, <1>2, <1>3, <1>4, WriteBasic, Whereabouts

LEMMA SignedBasic == ASSUME Basic, NEW w \in Slots, ReadSigned(w) PROVE Basic'
<1> DEFINE c == Publishing(w, "release_pending", "settle")
           d == [at |-> "execute", by |-> calls[w].by]
<1>1. ~At(w, "idle") /\ calls[w].by \in Starters /\ store.exists
  BY Whereabouts, BasicGives DEF ReadSigned, At, Informed
<1>2. c \in Calls /\ d \in Calls /\ ~Paid(d)
  BY <1>1, CallTypes DEF Publishing, Stages, Steps, Paid
<1>3. Goes(w, d) \/ (store.releaseExecuted /\ Goes(w, c))
  BY DEF ReadSigned, Moves
<1>4. UNCHANGED <<chain, rows, timer, boot, late, history>>
  BY DEF ReadSigned
<1>5. Deal!TypeOK' /\ executed' = executed
  BY <1>4, BasicGives, ChainKept DEF chain
<1>6. store.releaseExecuted => executed
  BY <1>1 DEF Basic, SettledIsExecuted
<1> HIDE DEF c, d
<1> QED BY <1>1, <1>2, <1>3, <1>4, <1>5, <1>6, MoveBasic, Whereabouts DEF history, Basic, TypeOK

LEMMA ExecuteBasic == ASSUME Basic, NEW w \in Slots, Execute(w) PROVE Basic'
<1> DEFINE c == [at |-> "executed", by |-> calls[w].by]
           d == Publishing(w, "failed", "end")
<1>1. calls[w].by \in Starters /\ ~At(w, "idle") /\ store.exists
  BY Whereabouts, BasicGives DEF Execute, At, Informed
<1>2. Deal!TypeOK' /\ (executed => executed')
  BY BasicGives, ChainTypes DEF Execute, Parties
<1>3. c \in Calls /\ d \in Calls /\ ~Paid(d) /\ ~Informed(d)
  BY <1>1, CallTypes DEF Publishing, Steps, Stages, Paid, Informed
<1>4. (executed' /\ Goes(w, c)) \/ Goes(w, d)
  BY DEF Execute, Moves, PublishesLast, Deal!Execute
<1>5. UNCHANGED <<rows, timer, boot, late, history>>
  BY DEF Execute
<1> HIDE DEF c, d
<1> QED BY <1>1, <1>2, <1>3, <1>4, <1>5, MoveBasic, Whereabouts DEF history, Basic, TypeOK

LEMMA PublishStepsBasic ==
  ASSUME Basic, NEW w \in Slots, PublishSigned(w) \/ PublishSettled(w)
  PROVE  Basic'
<1>1. ~At(w, "idle") /\ calls[w].by \in Starters /\ store.exists
  BY Whereabouts, BasicGives DEF PublishSigned, PublishSettled, At, Informed
<1>2. CASE PublishSigned(w)
  <2> DEFINE c == [at |-> "released", by |-> calls[w].by]
  <2>1. c \in Calls /\ ~Paid(c)
    BY <1>1, CallTypes DEF Steps, Paid
  <2>2. /\ Goes(w, c) /\ stages' = Marked("release_signed")
        /\ UNCHANGED <<chain, store, tracked, funded, timer, boot, late, history>>
    BY <1>2 DEF PublishSigned, Moves
  <2> HIDE DEF c
  <2> QED BY <1>1, <2>1, <2>2, StageBasic, Whereabouts DEF Stages
<1>3. CASE PublishSettled(w)
  <2> DEFINE c == [at |-> "track", by |-> calls[w].by]
  <2>1. c \in Calls
    BY <1>1, CallTypes DEF Steps
  <2>2. /\ Goes(w, c) /\ stages' = Marked("settled")
        /\ UNCHANGED <<chain, store, tracked, funded, timer, boot, late, history>>
    BY <1>3 DEF PublishSettled, Moves
  <2>3. executed
    BY <1>1, <1>3, Whereabouts DEF PublishSettled, At, Paid
  <2> HIDE DEF c
  <2> QED BY <1>1, <2>1, <2>2, <2>3, StageBasic, Whereabouts DEF Stages
<1> QED BY <1>2, <1>3

LEMMA TrackBasic ==
  ASSUME Basic, NEW w \in Slots, TrackAwaiting(w) \/ Track(w)
  PROVE  Basic'
<1>1. ~At(w, "idle") /\ (Track(w) => executed)
  BY Whereabouts DEF TrackAwaiting, Track, At, Paid
<1>2. Ends(w) /\ UNCHANGED <<chain, store, stages, funded, timer, late, history>>
      /\ (tracked' = "awaiting_settlement_plan_approvals" \/ executed)
  BY <1>1 DEF TrackAwaiting, Track
<1>3. executed' = executed /\ store' = store /\ timer' = timer
  BY <1>2 DEF chain
<1>4. CallInv' /\ calls' \in [Slots -> Calls]
  BY <1>2, <1>3, Ending, CallsKept, BasicGives DEF Basic, CallInv
<1>5. TypeOK'
  BY <1>2, <1>4, Ending, ChainKept, TypesKept, BasicGives DEF Basic, TypeOK, history
<1>6. SettledIsExecuted'
  BY <1>2, <1>3 DEF Basic, SettledIsExecuted, Published, Tracked
<1> QED BY <1>4, <1>5, <1>6 DEF Basic

LEMMA FailsBasic == ASSUME Basic, NEW w \in Slots, CallFails(w) PROVE Basic'
<1>1. ~At(w, "idle") /\ calls[w].by \in Starters /\ calls[w] \in Calls
  <2>1. ~At(w, "idle")
    BY DEF CallFails, At
  <2> QED BY <2>1, Whereabouts
<1> DEFINE d == Publishing(w, "failed", "end")
<1>2. d \in Calls /\ ~Paid(d) /\ ~Informed(d) /\ Idle \in Calls /\ ~Paid(Idle) /\ ~Informed(Idle)
  BY <1>1, CallTypes DEF Publishing, Stages, Paid, Informed, Idle
<1>3. /\ UNCHANGED <<rows, timer, late, messages, objected>>
      /\ trouble' \in {"none"} \cup Troubles
  BY DEF CallFails, Trouble
<1>4. /\ Goes(w, d) \/ Goes(w, Idle)
      /\ boot' \in {"recover", "recovering", "finalize", "ready", "dispatched"}
  BY <1>1, Whereabouts, Ending DEF CallFails, PublishesLast
<1>5. Deal!TypeOK' /\ (executed => executed')
  <2>1. CASE At(w, "send") /\ Lands(calls[w])
    <3>1. calls[w].party \in Parties /\ calls[w].nonce \in Nat
      BY <1>1, <2>1, CallFields DEF At
    <3> QED BY <2>1, <3>1, BasicGives, ChainTypes DEF Lands
  <2>2. CASE Deal!Request \/ Deal!Authorize \/ UNCHANGED chain
    BY <2>2, BasicGives, ChainTypes DEF Parties
  <2> QED BY <2>1, <2>2 DEF CallFails
<1> HIDE DEF d
<1> QED BY <1>1, <1>2, <1>3, <1>4, <1>5, MoveBasic, Whereabouts DEF Basic, TypeOK

\* A call that starts has seen nothing, or the snapshot.
LEMMA StartBasic ==
  ASSUME Basic, UNCHANGED <<chain, rows>>,
         late' \in BOOLEAN, trouble' \in {"none"} \cup Troubles,
         messages' \in Nat, objected' \in BOOLEAN,
         boot' \in {"recover", "recovering", "finalize", "ready", "dispatched"},
         timer' \in BOOLEAN, timer' => timer,
         NEW c \in Calls, Starts(c), ~Paid(c), Informed(c) => store.exists
  PROVE  Basic'
<1>1. Deal!TypeOK' /\ executed' = executed
  BY BasicGives, ChainKept DEF chain
<1>2. timer => store.exists /\ ~store.disputeOpen
  BY DEF Basic, CallInv
<1> QED BY <1>1, <1>2, SlotFound, BasicGives, MoveBasic

LEMMA StayBasic ==
  ASSUME Basic, Deal!TypeOK', executed => executed', UNCHANGED <<rows, calls>>,
         late' \in BOOLEAN, trouble' \in {"none"} \cup Troubles,
         messages' \in Nat, objected' \in BOOLEAN,
         boot' \in {"recover", "recovering", "finalize", "ready", "dispatched"},
         timer' \in BOOLEAN, timer' => timer
  PROVE  Basic'
<1>1. timer => store.exists /\ ~store.disputeOpen
  BY DEF Basic, CallInv
<1> QED BY <1>1, MoveBasic

LEMMA SubmissionBasic == ASSUME Basic, NEW p \in Parties, ProcessAgentSubmission(p) PROVE Basic'
<1> DEFINE c == [at |-> "prepare", by |-> "listener"]
<1>1. c \in Calls /\ ~Paid(c) /\ ~Informed(c)
  BY CallTypes DEF Steps, Starters, Paid, Informed
<1>2. /\ UNCHANGED <<chain, store, stages, tracked, timer, boot, late, messages, objected>>
      /\ funded' \in SUBSET Parties /\ trouble' \in {"none"} \cup Troubles
  BY DEF ProcessAgentSubmission, Trouble, Basic, TypeOK
<1>3. executed' = executed /\ store' = store /\ timer' = timer /\ stages' = stages
      /\ tracked' = tracked
  BY <1>2 DEF chain
<1>4. CallInv' /\ calls' \in [Slots -> Calls]
  <2>1. CASE calls' = calls
    BY <1>3, <2>1, BasicGives DEF Basic, CallInv
  <2>2. CASE Starts(c)
    BY <1>1, <1>3, <2>2, SlotFound, BasicGives, CallsKept DEF Basic, CallInv
  <2> QED BY <2>1, <2>2 DEF ProcessAgentSubmission
<1>5. TypeOK'
  BY <1>2, <1>4, ChainKept, TypesKept, BasicGives DEF Basic, TypeOK
<1>6. SettledIsExecuted'
  BY <1>3 DEF Basic, SettledIsExecuted, Published, Tracked
<1> QED BY <1>4, <1>5, <1>6 DEF Basic

LEMMA ReceiveBasic ==
  ASSUME Basic, NEW p \in Parties, NEW kind \in Kinds, ReceiveMessage(p, kind)
  PROVE  Basic'
<1> DEFINE n == PayloadNonce(p, kind)
           c == [at |-> "send", by |-> "message", party |-> p, kind |-> kind, nonce |-> n]
<1>1. store \in Snapshots
  BY BasicGives DEF ReceiveMessage
<1>2. n \in Nat
  BY <1>1, SnapshotTypes DEF PayloadNonce, Snapshots
<1>3. c \in Calls /\ ~Paid(c)
  BY <1>2, PayloadTypes DEF Paid
<1>4. Starts(c) /\ UNCHANGED <<chain, rows, timer, boot, late, trouble>>
  BY DEF ReceiveMessage
<1>5. messages' \in Nat /\ objected' \in BOOLEAN
  BY DEF ReceiveMessage, Basic, TypeOK
<1> HIDE DEF c
<1> QED BY <1>1, <1>3, <1>4, <1>5, StartBasic, BasicGives DEF Basic, TypeOK

LEMMA TimerBasic == ASSUME Basic, TimerFires PROVE Basic'
<1> DEFINE c == [at |-> "mark", by |-> "timer"]
<1>1. c \in Calls /\ ~Paid(c)
  BY CallTypes DEF Steps, Starters, Paid
<1>2. store.exists
  BY DEF Basic, CallInv, TimerFires
<1>3. UNCHANGED <<chain, rows, boot, late, history>> /\ timer' = FALSE
  BY DEF TimerFires
<1>4. CASE Starts(c)
  BY <1>1, <1>2, <1>3, <1>4, StartBasic DEF Basic, TypeOK, history
<1>5. CASE UNCHANGED calls
  BY <1>3, <1>5, StayBasic, BasicGives, ChainKept DEF Basic, TypeOK, history, chain
<1> QED BY <1>4, <1>5 DEF TimerFires

LEMMA CrashBasic == ASSUME Basic, Crash PROVE Basic'
<1>1. /\ UNCHANGED <<chain, rows, late, messages, objected>>
      /\ calls' = [w \in Slots |-> Idle] /\ timer' = FALSE /\ boot' = "recover"
      /\ trouble' \in {"none"} \cup Troubles
  BY DEF Crash, Trouble
<1>2. calls' \in [Slots -> Calls] /\ \A w \in Slots : ~Paid(calls'[w]) /\ ~Informed(calls'[w])
  BY <1>1, CallTypes DEF Calls, Paid, Informed, Idle
<1>3. CallInv'
  BY <1>1, <1>2 DEF CallInv
<1>4. TypeOK'
  BY <1>1, <1>2, ChainKept, TypesKept, BasicGives DEF Basic, TypeOK, rows
<1>5. SettledIsExecuted'
  BY <1>1, NothingWritten DEF chain
<1> QED BY <1>3, <1>4, <1>5 DEF Basic

LEMMA OthersBasic ==
  ASSUME Basic, \/ DeadlinePasses \/ WindowEnds \/ ResolveDispute
                \/ RecoverPipeline \/ FinalizeSessions \/ UNCHANGED vars
  PROVE  Basic'
<1>1. CASE DeadlinePasses \/ UNCHANGED vars
  <2>1. /\ UNCHANGED <<chain, rows, process, history>>
        /\ late' = TRUE \/ late' = late
    BY <1>1 DEF DeadlinePasses, vars
  <2>2. Deal!TypeOK' /\ executed' = executed
    BY <2>1, BasicGives, ChainKept DEF chain
  <2> QED BY <2>1, <2>2, StayBasic DEF process, history, Basic, TypeOK
<1>2. CASE WindowEnds \/ ResolveDispute
  <2>1. Deal!TypeOK' /\ (executed => executed')
    BY <1>2, BasicGives, ChainTypes DEF WindowEnds, ResolveDispute, Parties
  <2> QED BY <1>2, <2>1, StayBasic DEF WindowEnds, ResolveDispute, process, history, Basic, TypeOK
<1>3. CASE RecoverPipeline
  <2> DEFINE c == [at |-> "read", by |-> "recovery"]
  <2>1. c \in Calls /\ ~Paid(c) /\ ~Informed(c)
    BY CallTypes DEF Steps, Starters, Paid, Informed
  <2>2. /\ UNCHANGED <<chain, rows, timer, late, history>>
        /\ boot' \in {"recover", "recovering", "finalize", "ready", "dispatched"}
        /\ Starts(c) \/ UNCHANGED calls
    BY <1>3 DEF RecoverPipeline
  <2>3. CASE Starts(c)
    BY <2>1, <2>2, <2>3, StartBasic DEF Basic, TypeOK, history
  <2>4. CASE UNCHANGED calls
    BY <2>2, <2>4, StayBasic, BasicGives, ChainKept DEF Basic, TypeOK, history, chain
  <2> QED BY <2>2, <2>3, <2>4
<1>4. CASE FinalizeSessions
  <2>1. /\ UNCHANGED <<chain, store, stages, funded, calls, timer, late, history>>
        /\ boot' = "ready"
        /\ tracked' = tracked \/ (tracked = "settled_pending_session_close" /\ tracked' = "settled")
    BY <1>4 DEF FinalizeSessions
  <2>2. CallInv'
    BY <2>1 DEF Basic, CallInv, chain
  <2>3. TypeOK'
    BY <2>1, ChainKept, TypesKept, BasicGives DEF Basic, TypeOK, history
  <2>4. SettledIsExecuted'
    BY <2>1 DEF Basic, SettledIsExecuted, Published, Tracked, chain
  <2> QED BY <2>2, <2>3, <2>4 DEF Basic
<1> QED BY <1>1, <1>2, <1>3, <1>4

LEMMA InitBasic == Init => Basic
<1> SUFFICES ASSUME Init PROVE Basic
  OBVIOUS
<1>1. calls \in [Slots -> Calls]
  BY CallTypes DEF Init, Calls
<1>2. stages \in Seq(Stages) /\ \A i, j \in DOMAIN stages : stages[i] = stages[j] => i = j
  BY DEF Init, Stages
<1>3. TypeOK
  BY <1>1, <1>2 DEF Init, TypeOK, Deal!TypeOK, Parties
<1>4. CallInv
  BY <1>1 DEF Init, CallInv, Paid, Informed, Idle
<1>5. SettledIsExecuted
  BY DEF Init, SettledIsExecuted, Published, Tracked, NoSnapshot
<1> QED BY <1>3, <1>4, <1>5 DEF Basic

LEMMA BasicStep == Basic /\ [Next]_vars => Basic'
<1> SUFFICES ASSUME Basic, [Next]_vars PROVE Basic'
  OBVIOUS
<1>1. ASSUME NEW w \in Slots, Step(w) PROVE Basic'
  BY <1>1, PublishBasic, PrepareBasic, InitializeBasic, TrackBasic, SendBasic, RecordBasic,
     AttachBasic, MarkBasic, ReadBasic, ApproveBasic, SignBasic, PublishStepsBasic, SignedBasic,
     ExecuteBasic, ExecutedBasic DEF Step
<1> QED BY <1>1, FailsBasic, SubmissionBasic, ReceiveBasic, TimerBasic, CrashBasic, OthersBasic
     DEF Next

-----------------------------------------------------------------------------
\* A release without trouble is prepared once.
LEMMA SmoothMove ==
  ASSUME Basic, Smooth, store.exists, NEW w \in Slots, NEW c \in Calls, Goes(w, c),
         c # Idle => c.by # "recovery", ~Opening(c), UNCHANGED <<boot, funded>>, store'.exists,
         store.disputeOpen => store'.disputeOpen,
         state' \notin {"None", "Open"},
         state' = "Disputed" => state = "Disputed" \/ Disputing(c),
         Disputing(calls[w]) => store'.disputeOpen
  PROVE  Smooth'
<1>1. calls' = [calls EXCEPT ![w] = c] /\ calls \in [Slots -> Calls]
  BY BasicGives DEF Goes
<1>2. Prepared'
  BY <1>1 DEF Smooth, Prepared
<1>3. \A v \in Slots : calls'[v] # Idle => calls'[v].by # "recovery" /\ funded' = Parties
  BY <1>1 DEF Smooth, Prepared
<1>4. state' = "Disputed" => store'.disputeOpen \/ \E v \in Slots : Disputing(calls'[v])
  <2>1. CASE Disputing(c)
    BY <1>1, <2>1
  <2>2. CASE state = "Disputed"
    <3>1. CASE store.disputeOpen
      BY <3>1
    <3>2. ASSUME NEW v \in Slots, Disputing(calls[v])
          PROVE  store'.disputeOpen \/ \E u \in Slots : Disputing(calls'[u])
      BY <1>1, <3>2
    <3> QED BY <2>2, <3>1, <3>2 DEF Smooth
  <2> QED BY <2>1, <2>2
<1> QED BY <1>2, <1>3, <1>4 DEF Smooth

\* A call that is neither preparing nor idle is after the preparation.
LEMMA SmoothCall ==
  ASSUME Basic, Smooth, NEW w \in Slots, ~At(w, "idle")
  PROVE  /\ calls[w] # Idle /\ calls[w] \in Calls /\ calls[w].by \in Starters \ {"recovery"}
         /\ funded = Parties
         /\ ~Opening(calls[w]) => store.exists /\ store \in Snapshots
                                  /\ state \notin {"None", "Open"}
         /\ Opening(calls[w]) => ~store.exists /\ Unprepared
<1>1. calls[w] # Idle /\ calls[w] \in Calls /\ calls[w].by \in Starters
  BY Whereabouts
<1> QED BY <1>1, BasicGives DEF Smooth, Prepared, Unprepared

\* Steps that write at most the chain or the timer.
LEMMA SmoothQuiet ==
  ASSUME Basic, Smooth, store.exists, NEW w \in Slots, NEW c \in Calls, Goes(w, c),
         c # Idle => c.by # "recovery", ~Opening(c), UNCHANGED <<boot, funded, store>>,
         state' \notin {"None", "Open"},
         state' = "Disputed" => state = "Disputed" \/ Disputing(c),
         calls[w].at # "record"
  PROVE  Smooth'
<1>1. ~Disputing(calls[w])
  BY DEF Disputing
<1> QED BY <1>1, SmoothMove

LEMMA PrepareSmooth == ASSUME Basic, Smooth, NEW w \in Slots, Prepare(w) PROVE Smooth'
<1> DEFINE c == [at |-> "initialize", by |-> calls[w].by]
<1>1. Opening(calls[w]) /\ ~At(w, "idle")
  BY DEF Opening, Prepare, At
<1>2. calls[w] # Idle /\ Unprepared /\ ~store.exists /\ calls[w].by # "recovery" /\ funded = Parties
  BY <1>1, SmoothCall
<1>3. state = "Open" /\ \A v \in Slots \ {w} : calls[v] = Idle
  BY <1>2 DEF Unprepared, Prepare, At
<1>4. Deal!Request /\ Goes(w, c) /\ UNCHANGED <<rows, timer, boot, late, history>>
  BY <1>3 DEF Prepare, Moves
<1>5. calls' = [calls EXCEPT ![w] = c] /\ calls \in [Slots -> Calls]
  BY <1>4, BasicGives DEF Goes
<1>6. state' = "Settling" /\ UNCHANGED <<nonce, approved, confirmed, window, authorized, executed>>
  BY <1>4 DEF Deal!Request, Deal!consent
<1>7. Unprepared'
  <2>1. \A v \in Slots : calls'[v] # Idle =>
          /\ Opening(calls'[v])
          /\ state' = "Open" <=> calls'[v].at = "prepare"
          /\ \A u \in Slots \ {v} : calls'[u] = Idle
    BY <1>3, <1>5, <1>6 DEF Opening
  <2>2. (~Published("failed"))' /\ funded' = Parties /\ late' = late /\ objected' = objected
    BY <1>2, <1>4 DEF Unprepared, Published, rows, history
  <2> QED BY <1>2, <1>6, <2>1, <2>2 DEF Unprepared
<1>8. \A v \in Slots : calls'[v] # Idle => calls'[v].by # "recovery" /\ funded' = Parties
  BY <1>2, <1>3, <1>4, <1>5 DEF rows
<1>9. boot' = "ready" /\ ~store'.exists
  BY <1>2, <1>4 DEF Smooth, rows
<1> QED BY <1>6, <1>7, <1>8, <1>9 DEF Smooth

LEMMA InitializeSmooth == ASSUME Basic, Smooth, NEW w \in Slots, Initialize(w) PROVE Smooth'
<1> DEFINE c == Publishing(w, "awaiting_settlement_plan_approvals", "track_awaiting")
<1>1. Opening(calls[w]) /\ ~At(w, "idle") /\ calls[w].at # "prepare"
  BY DEF Opening, Initialize, At
<1>2. calls[w] # Idle /\ Unprepared /\ ~store.exists /\ calls[w].by # "recovery" /\ funded = Parties
  BY <1>1, SmoothCall
<1>3. state = "Settling" /\ \A v \in Slots \ {w} : calls[v] = Idle
  BY <1>1, <1>2 DEF Unprepared
<1>4. /\ Goes(w, c) /\ store' = Requested
      /\ UNCHANGED <<chain, stages, tracked, funded, timer, boot, late, history>>
  BY DEF Initialize
<1>5. calls' = [calls EXCEPT ![w] = c] /\ calls \in [Slots -> Calls]
  BY <1>4, BasicGives DEF Goes
<1>6. state' = "Settling" /\ store'.exists /\ funded' = Parties /\ boot' = "ready"
  BY <1>2, <1>3, <1>4 DEF chain, Requested, Smooth
<1>7. \A v \in Slots : /\ ~Opening(calls'[v])
                       /\ calls'[v] # Idle => calls'[v].by # "recovery"
  BY <1>2, <1>3, <1>5 DEF Opening, Idle, Publishing
<1>8. Prepared'
  BY <1>6, <1>7 DEF Prepared
<1> QED BY <1>6, <1>7, <1>8 DEF Smooth

LEMMA SubmissionSmooth ==
  ASSUME Basic, Smooth, NEW p \in Parties, ProcessAgentSubmission(p), trouble' = "none"
  PROVE  Smooth'
<1> DEFINE c == [at |-> "prepare", by |-> "listener"]
<1>1. p \notin funded /\ funded' = funded \cup {p}
      /\ UNCHANGED <<chain, store, stages, tracked, timer, boot, late, messages, objected>>
  BY DEF ProcessAgentSubmission, Trouble
<1>2. funded # Parties /\ ~store.exists /\ Unprepared /\ state = "Open"
      /\ \A w \in Slots : calls[w] = Idle
  BY <1>1 DEF Smooth, Prepared, Unprepared
<1>3. state' = "Open" /\ ~store'.exists /\ boot' = "ready"
  BY <1>1, <1>2 DEF chain, Smooth
<1>4. \A v \in Slots : calls'[v] # Idle =>
          /\ funded' = Parties /\ calls'[v] = c
          /\ \A u \in Slots \ {v} : calls'[u] = Idle
  <2>1. CASE funded' = Parties
    <3>1. PICK w \in Slots : Goes(w, c)
      BY <2>1, SlotFound, BasicGives DEF ProcessAgentSubmission
    <3>2. calls' = [calls EXCEPT ![w] = c] /\ calls \in [Slots -> Calls]
      BY <3>1, BasicGives DEF Goes
    <3> QED BY <1>2, <2>1, <3>2
  <2>2. CASE funded' # Parties
    <3>1. calls' = calls
      BY <2>2 DEF ProcessAgentSubmission
    <3> QED BY <1>2, <3>1
  <2> QED BY <2>1, <2>2
<1>5. Unprepared'
  <2>1. \A v \in Slots : calls'[v] # Idle =>
          /\ Opening(calls'[v])
          /\ state' = "Open" <=> calls'[v].at = "prepare"
          /\ \A u \in Slots \ {v} : calls'[u] = Idle
    BY <1>3, <1>4 DEF Opening
  <2>2. (~Published("failed"))'
    BY <1>1, <1>2 DEF Unprepared, Published
  <2> QED BY <1>1, <1>2, <1>3, <2>1, <2>2 DEF Unprepared, chain
<1>6. \A v \in Slots : calls'[v] # Idle => calls'[v].by # "recovery" /\ funded' = Parties
  BY <1>4
<1> QED BY <1>3, <1>5, <1>6 DEF Smooth

LEMMA AfterPlaces ==
  ASSUME NEW w \in Slots, NEW place \in Steps \ {"prepare", "initialize"}, Moves(w, place),
         calls[w].by \in Starters \ {"recovery"}
  PROVE  \E c \in Calls : Goes(w, c) /\ c.by # "recovery" /\ ~Opening(c) /\ c.at = place
<1>1. [at |-> place, by |-> calls[w].by] \in Calls
  BY CallTypes
<1> QED BY <1>1 DEF Moves, Opening

LEMMA AfterPublishing ==
  ASSUME NEW w \in Slots, NEW row \in Stages,
         NEW next \in {"end", "track_awaiting", "approve", "signed", "settle"},
         calls[w].by \in Starters \ {"recovery"}
  PROVE  LET c == Publishing(w, row, next)
         IN  c \in Calls /\ c.by # "recovery" /\ ~Opening(c) /\ c.at = "publish"
BY CallTypes DEF Publishing, Opening

LEMMA AfterReturning ==
  ASSUME NEW w \in Slots, calls[w].by \in Starters \ {"recovery"}, NEW s, NEW over
  PROVE  LET c == Returned(w, s)
             d == Led(w, s, over)
         IN  (c # Idle => c.by # "recovery") /\ ~Opening(c) /\ (d # Idle => d.by # "recovery")
             /\ ~Opening(d)
BY DEF Returned, Led, Publishing, Opening, Idle

LEMMA NotOpeningIdle == ~Opening(Idle) /\ Idle \in Calls
BY DEF Opening, Idle, Calls

\* Steps that end the call, publish, or change the chain only.
LEMMA QuietStepsSmooth ==
  ASSUME Basic, Smooth, NEW w \in Slots,
         \/ PublishStage(w) \/ TrackAwaiting(w) \/ Track(w) \/ Approve(w) \/ PublishSigned(w)
         \/ ReadSigned(w) \/ Execute(w) \/ PublishSettled(w)
  PROVE  Smooth'
<1>1. ~At(w, "idle") /\ ~Opening(calls[w]) /\ calls[w].at # "record"
  BY DEF PublishStage, TrackAwaiting, Track, Approve, PublishSigned, ReadSigned, Execute,
         PublishSettled, At, Opening
<1>2. /\ calls[w] # Idle /\ calls[w] \in Calls /\ calls[w].by \in Starters \ {"recovery"}
      /\ store.exists /\ state \notin {"None", "Open"}
  BY <1>1, SmoothCall
<1>3. UNCHANGED <<funded, store>>
  BY DEF PublishStage, TrackAwaiting, Track, Approve, PublishSigned, ReadSigned, Execute,
         PublishSettled, rows
<1>4. state' \in {state, "Completed"}
  BY DEF PublishStage, TrackAwaiting, Track, Approve, PublishSigned, ReadSigned, Execute,
         PublishSettled, chain, Deal!Authorize, Deal!Execute
<1>5. CASE Ends(w)
  <2>1. Goes(w, Idle) /\ boot' = boot
    BY <1>2, <1>5, Ending
  <2> QED BY <1>1, <1>2, <1>3, <1>4, <2>1, NotOpeningIdle, SmoothQuiet
<1>6. CASE boot' = boot /\ \E place \in Steps \ {"prepare", "initialize"} : Moves(w, place)
  <2>1. PICK c \in Calls : Goes(w, c) /\ c.by # "recovery" /\ ~Opening(c)
    BY <1>2, <1>6, AfterPlaces
  <2> QED BY <1>1, <1>2, <1>3, <1>4, <1>6, <2>1, SmoothQuiet
<1>7. CASE boot' = boot /\ \E row \in Stages, next \in {"end", "settle"} :
                              Goes(w, Publishing(w, row, next))
  <2>1. PICK c \in Calls : Goes(w, c) /\ c.by # "recovery" /\ ~Opening(c)
    BY <1>2, <1>7, AfterPublishing
  <2> QED BY <1>1, <1>2, <1>3, <1>4, <1>7, <2>1, SmoothQuiet
<1>8. CASE PublishStage(w)
  <2>1. calls[w].next \in {"end", "track_awaiting", "approve", "signed", "settle"}
    BY <1>2, <1>8, CallFields DEF PublishStage, At
  <2> QED BY <1>5, <1>6, <1>8, <2>1 DEF PublishStage, Steps
<1>9. CASE TrackAwaiting(w) \/ Track(w)
  BY <1>5, <1>9 DEF TrackAwaiting, Track
<1>10. CASE PublishSigned(w) \/ PublishSettled(w)
  BY <1>6, <1>10 DEF PublishSigned, PublishSettled, Steps
<1>11. CASE Approve(w) \/ ReadSigned(w) \/ Execute(w)
  BY <1>6, <1>7, <1>11 DEF Approve, ReadSigned, Execute, PublishesLast, Steps, Stages
<1> QED BY <1>8, <1>9, <1>10, <1>11

LEMMA SendSmooth == ASSUME Basic, Smooth, NEW w \in Slots, SendPayload(w) PROVE Smooth'
<1>1. ~At(w, "idle") /\ ~Opening(calls[w]) /\ calls[w].at = "send"
  BY DEF SendPayload, At, Opening
<1>2. /\ calls[w] # Idle /\ calls[w] \in Calls /\ calls[w].by \in Starters \ {"recovery"}
      /\ store.exists /\ state \notin {"None", "Open"}
  BY <1>1, SmoothCall
<1>3. UNCHANGED <<funded, store>>
  BY DEF SendPayload, rows
<1>4. CASE Lands(calls[w]) /\ Goes(w, [calls[w] EXCEPT !.at = "record"]) /\ UNCHANGED boot
  <2> DEFINE c == [calls[w] EXCEPT !.at = "record"]
  <2>1. c \in Calls /\ c.by # "recovery" /\ ~Opening(c)
        /\ c.at = "record" /\ c.kind = calls[w].kind
    BY <1>1, <1>2, Recording DEF Opening
  <2>2. state' = state \/ (state' = "Disputed" /\ Disputing(c))
    BY <1>4, <2>1
       DEF Lands, Disputing, Deal!Submit, Deal!Confirm, Deal!Revoke, Deal!Dispute
  <2> HIDE DEF c
  <2>3. Goes(w, c)
    BY <1>4 DEF c
  <2> QED BY <1>1, <1>2, <1>3, <1>4, <2>1, <2>2, <2>3, SmoothQuiet
<1>5. CASE UNCHANGED chain /\ Ends(w)
  <2>1. Goes(w, Idle) /\ boot' = boot /\ state' = state
    BY <1>2, <1>5, Ending DEF chain
  <2> QED BY <1>1, <1>2, <1>3, <2>1, NotOpeningIdle, SmoothQuiet
<1> QED BY <1>4, <1>5 DEF SendPayload

LEMMA RecordSmooth == ASSUME Basic, Smooth, NEW w \in Slots, RecordPayload(w) PROVE Smooth'
<1> DEFINE new == Recorded(store, calls[w])
           over == late /\ calls[w].kind # "confirm"
           c == [at |-> "attach", by |-> "message", nonce |-> nextRoleNonce(new, "buyer")]
<1>1. ~At(w, "idle") /\ ~Opening(calls[w]) /\ calls[w].at = "record"
  BY DEF RecordPayload, At, Opening
<1>2. /\ calls[w] # Idle /\ calls[w] \in Calls /\ calls[w].by \in Starters \ {"recovery"}
      /\ store.exists /\ store \in Snapshots /\ state \notin {"None", "Open"}
  BY <1>1, SmoothCall
<1>3. /\ new \in Snapshots /\ new.exists /\ (store.disputeOpen => new.disputeOpen)
      /\ Disputing(calls[w]) => new.disputeOpen
  BY <1>1, <1>2, RecordedType, SnapshotTypes DEF Disputing, Parties
<1>4. store' = new /\ UNCHANGED <<funded, state>>
  BY DEF RecordPayload, chain
<1>5. CASE Goes(w, c) /\ UNCHANGED boot
  <2>1. nextRoleNonce(new, "buyer") \in Nat
    BY <1>3, SnapshotTypes DEF Parties
  <2>2. c \in Calls /\ c.by # "recovery" /\ ~Opening(c) /\ ~Disputing(c)
    BY <2>1, PayloadTypes DEF Kinds, Parties, Opening, Disputing
  <2> HIDE DEF c, new
  <2> QED BY <1>2, <1>3, <1>4, <1>5, <2>2, SmoothMove
<1>6. CASE maybeAuthorizeRelease(w, new, over)
  <2>1. boot' = boot /\ Goes(w, Led(w, new, over)) /\ Led(w, new, over) \in Calls
    BY <1>2, <1>3, <1>6, MaybeAuthorizing, BasicGives
  <2>2. /\ Led(w, new, over) # Idle => Led(w, new, over).by # "recovery"
        /\ ~Opening(Led(w, new, over))
    BY <1>2, AfterReturning
  <2> HIDE DEF new, over
  <2> QED BY <1>2, <1>3, <1>4, <2>1, <2>2, SmoothMove
<1> QED BY <1>5, <1>6 DEF RecordPayload

LEMMA AttachSmooth ==
  ASSUME Basic, Smooth, NEW w \in Slots, AttachBuyerReleaseRequest(w)
  PROVE  Smooth'
<1> DEFINE new == [store EXCEPT !.request = calls[w].nonce, !.planApproved = BothActive(store)]
<1>1. ~At(w, "idle") /\ ~Opening(calls[w]) /\ calls[w].at = "attach" /\ ~Disputing(calls[w])
  BY DEF AttachBuyerReleaseRequest, At, Opening, Disputing
<1>2. /\ calls[w] # Idle /\ calls[w].by \in Starters \ {"recovery"} /\ calls[w].nonce \in Nat
      /\ store.exists /\ store \in Snapshots /\ state \notin {"None", "Open"}
  BY <1>1, SmoothCall, CallFields
<1>3. new \in Snapshots /\ new.exists /\ new.disputeOpen = store.disputeOpen
  BY <1>2, SnapshotTypes DEF Snapshots, BothActive
<1>4. store' = new /\ UNCHANGED <<funded, state>> /\ maybeAuthorizeRelease(w, new, late)
  BY DEF AttachBuyerReleaseRequest, chain
<1>5. boot' = boot /\ Goes(w, Led(w, new, late)) /\ Led(w, new, late) \in Calls
  BY <1>2, <1>3, <1>4, MaybeAuthorizing, BasicGives
<1>6. /\ Led(w, new, late) # Idle => Led(w, new, late).by # "recovery"
      /\ ~Opening(Led(w, new, late))
  BY <1>2, AfterReturning
<1> HIDE DEF new
<1> QED BY <1>1, <1>2, <1>3, <1>4, <1>5, <1>6, SmoothMove

LEMMA MarksSmooth ==
  ASSUME Basic, Smooth, NEW w \in Slots,
         MarkAuthorized(w) \/ MarkReleaseSigned(w) \/ MarkReleaseExecuted(w)
  PROVE  Smooth'
<1>1. ~At(w, "idle") /\ ~Opening(calls[w]) /\ ~Disputing(calls[w])
  BY DEF MarkAuthorized, MarkReleaseSigned, MarkReleaseExecuted, At, Opening, Disputing
<1>2. /\ calls[w] # Idle /\ calls[w] \in Calls /\ calls[w].by \in Starters \ {"recovery"}
      /\ store.exists /\ store \in Snapshots /\ state \notin {"None", "Open"}
  BY <1>1, SmoothCall
<1> DEFINE marked == [store EXCEPT !.releaseAuthorized = TRUE]
           signed == [store EXCEPT !.releaseAuthorized = TRUE, !.releaseSigned = TRUE]
           done == [store EXCEPT !.releaseExecuted = TRUE]
<1>3. /\ marked \in Snapshots /\ marked.exists /\ marked.disputeOpen = store.disputeOpen
      /\ signed.exists /\ signed.disputeOpen = store.disputeOpen
      /\ done.exists /\ done.disputeOpen = store.disputeOpen
  BY <1>2 DEF Snapshots
<1>4. UNCHANGED <<funded, state>>
  BY DEF MarkAuthorized, MarkReleaseSigned, MarkReleaseExecuted, chain
<1>5. store' \in {marked, signed, done}
  BY DEF MarkAuthorized, MarkReleaseSigned, MarkReleaseExecuted
<1>6. store'.exists /\ store'.disputeOpen = store.disputeOpen
  BY <1>3, <1>5
<1>7. boot' = boot /\ \E c \in Calls : Goes(w, c) /\ (c # Idle => c.by # "recovery") /\ ~Opening(c)
  <2>1. CASE MarkAuthorized(w)
    <3>1. CASE Returns(w, store)
      <4>1. boot' = boot /\ Goes(w, Returned(w, store)) /\ Returned(w, store) \in Calls
        BY <1>2, <3>1, Returning, BasicGives
      <4>2. (Returned(w, store) # Idle => Returned(w, store).by # "recovery")
            /\ ~Opening(Returned(w, store))
        BY <1>2, AfterReturning
      <4> QED BY <4>1, <4>2
    <3>2. CASE Returns(w, marked)
      <4> HIDE DEF marked
      <4>1. boot' = boot /\ Goes(w, Returned(w, marked)) /\ Returned(w, marked) \in Calls
        BY <1>2, <1>3, <3>2, Returning, BasicGives
      <4>2. (Returned(w, marked) # Idle => Returned(w, marked).by # "recovery")
            /\ ~Opening(Returned(w, marked))
        BY <1>2, AfterReturning
      <4> QED BY <4>1, <4>2
    <3>3. CASE Goes(w, [at |-> "read", by |-> "listener"]) /\ UNCHANGED boot
      <4>1. [at |-> "read", by |-> "listener"] \in Calls
        BY CallTypes DEF Steps, Starters
      <4> QED BY <3>3, <4>1 DEF Opening
    <3> QED BY <2>1, <3>1, <3>2, <3>3 DEF MarkAuthorized
  <2>2. CASE MarkReleaseSigned(w)
    BY <1>2, <2>2, AfterPlaces DEF MarkReleaseSigned, Steps
  <2>3. CASE MarkReleaseExecuted(w)
    <3>1. Goes(w, Publishing(w, "release_pending", "settle")) /\ boot' = boot
      BY <2>3 DEF MarkReleaseExecuted
    <3> QED BY <1>2, <3>1, AfterPublishing DEF Stages
  <2> QED BY <2>1, <2>2, <2>3
<1> HIDE DEF marked, signed, done
<1> QED BY <1>1, <1>2, <1>4, <1>6, <1>7, SmoothMove

LEMMA ReadSmooth == ASSUME Basic, Smooth, NEW w \in Slots, ReadState(w) PROVE Smooth'
<1>1. ~At(w, "idle") /\ ~Opening(calls[w]) /\ calls[w].at # "record"
  BY DEF ReadState, At, Opening
<1>2. /\ calls[w] # Idle /\ calls[w].by \in Starters \ {"recovery"}
      /\ store.exists /\ store \in Snapshots /\ state \notin {"None", "Open"}
  BY <1>1, SmoothCall
<1>3. UNCHANGED <<funded, store, state>>
  BY DEF ReadState, rows, chain
<1>4. CASE boot' = boot /\ \E row \in Stages : PublishesLast(w, row)
  <2>1. PICK row \in Stages : Goes(w, Publishing(w, row, "end"))
    BY <1>4 DEF PublishesLast
  <2> QED BY <1>1, <1>2, <1>3, <1>4, <2>1, AfterPublishing, SmoothQuiet
<1>5. CASE maybeAuthorizeRelease(w, store, late)
  <2>1. boot' = boot /\ Goes(w, Led(w, store, late)) /\ Led(w, store, late) \in Calls
    BY <1>2, <1>5, MaybeAuthorizing, BasicGives
  <2>2. /\ Led(w, store, late) # Idle => Led(w, store, late).by # "recovery"
        /\ ~Opening(Led(w, store, late))
    BY <1>2, AfterReturning
  <2> QED BY <1>1, <1>2, <1>3, <2>1, <2>2, SmoothQuiet
<1> QED BY <1>2, <1>4, <1>5 DEF ReadState, Stages

LEMMA StartSmooth ==
  ASSUME Basic, Smooth, store.exists, UNCHANGED <<chain, rows, boot>>,
         NEW c \in Calls, Starts(c), c.by # "recovery", ~Opening(c)
  PROVE  Smooth'
<1>1. PICK w \in Slots : calls[w] = Idle /\ Goes(w, c)
  BY SlotFound, BasicGives
<1>2. calls[w].at # "record" /\ state \notin {"None", "Open"} /\ UNCHANGED <<funded, store, state>>
  BY <1>1 DEF Idle, Smooth, Prepared, rows, chain
<1> QED BY <1>1, <1>2, SmoothQuiet

LEMMA StaySmooth ==
  ASSUME Smooth, UNCHANGED <<calls, boot, store, funded>>,
         state' \in {state, "Settling"} \ {"None", "Open"} \/ state' = state,
         ~store.exists => UNCHANGED <<chain, stages, late, objected>>
  PROVE  Smooth'
<1>1. CASE store.exists
  BY <1>1 DEF Smooth, Prepared
<1>2. CASE ~store.exists
  <2>1. Unprepared'
    BY <1>2 DEF Smooth, Unprepared, chain, Published
  <2> QED BY <1>2, <2>1 DEF Smooth, chain
<1> QED BY <1>1, <1>2

LEMMA OthersSmooth ==
  ASSUME Basic, Smooth, trouble' = "none",
         \/ \E p \in Parties, kind \in Kinds : ReceiveMessage(p, kind)
         \/ TimerFires \/ DeadlinePasses \/ WindowEnds \/ ResolveDispute
         \/ Crash \/ RecoverPipeline \/ FinalizeSessions \/ UNCHANGED vars
  PROVE  Smooth'
<1>1. ASSUME NEW p \in Parties, NEW kind \in Kinds, ReceiveMessage(p, kind)
      PROVE  Smooth'
  <2> DEFINE c == [at |-> "send", by |-> "message", party |-> p, kind |-> kind,
                   nonce |-> PayloadNonce(p, kind)]
  <2>1. store \in Snapshots /\ store.exists
    BY <1>1, BasicGives DEF ReceiveMessage
  <2>2. PayloadNonce(p, kind) \in Nat
    BY <2>1, SnapshotTypes DEF PayloadNonce, Snapshots
  <2>3. c \in Calls /\ c.by # "recovery" /\ ~Opening(c)
    BY <2>2, PayloadTypes DEF Opening
  <2>4. Starts(c) /\ UNCHANGED <<chain, rows, boot>>
    BY <1>1 DEF ReceiveMessage
  <2> HIDE DEF c
  <2> QED BY <2>1, <2>3, <2>4, StartSmooth
<1>2. CASE TimerFires
  <2> DEFINE c == [at |-> "mark", by |-> "timer"]
  <2>1. c \in Calls /\ c.by # "recovery" /\ ~Opening(c)
    BY CallTypes DEF Steps, Starters, Opening
  <2>2. UNCHANGED <<chain, rows, boot, late, history>> /\ store.exists
    BY <1>2 DEF TimerFires, Basic, CallInv
  <2>3. Starts(c) \/ UNCHANGED calls
    BY <1>2 DEF TimerFires
  <2> HIDE DEF c
  <2>4. CASE Starts(c)
    BY <2>1, <2>2, <2>4, StartSmooth
  <2>5. CASE UNCHANGED calls
    BY <2>2, <2>5, StaySmooth DEF chain, rows, history
  <2> QED BY <2>3, <2>4, <2>5
<1>3. CASE DeadlinePasses
  BY <1>3, StaySmooth DEF DeadlinePasses, chain, rows, process
<1>4. CASE WindowEnds
  <2>1. store.exists
    BY <1>4 DEF WindowEnds, Deal!WindowEnds, Smooth, Unprepared
  <2> QED BY <1>4, <2>1, StaySmooth DEF WindowEnds, Deal!WindowEnds, rows, process
<1>5. CASE ResolveDispute
  <2>1. state = "Disputed" /\ state' = "Settling" /\ store.exists
    BY <1>5 DEF ResolveDispute, Deal!Resolve, Smooth
  <2> QED BY <1>5, <2>1, StaySmooth DEF ResolveDispute, rows, process
<1>6. CASE Crash \/ RecoverPipeline \/ FinalizeSessions
  BY <1>6 DEF Crash, Trouble, RecoverPipeline, FinalizeSessions, Smooth
<1>7. CASE UNCHANGED vars
  BY <1>7, StaySmooth DEF vars, chain, rows, process, history
<1> QED BY <1>1, <1>2, <1>3, <1>4, <1>5, <1>6, <1>7

\* What has gone wrong is not forgotten.
LEMMA StepHistory == ASSUME NEW w \in Slots, Step(w) PROVE UNCHANGED history
BY DEF Step, PublishStage, Prepare, Initialize, TrackAwaiting, SendPayload, RecordPayload,
       AttachBuyerReleaseRequest, MarkAuthorized, ReadState, Approve, MarkReleaseSigned,
       PublishSigned, ReadSigned, Execute, MarkReleaseExecuted, PublishSettled, Track

LEMMA History ==
  ASSUME [Next]_vars
  PROVE  (trouble' = "none" => trouble = "none") /\ (objected => objected')
<1>1. ASSUME NEW w \in Slots, Step(w)
      PROVE  UNCHANGED history
  BY <1>1, StepHistory
<1>2. ASSUME NEW w \in Slots, CallFails(w)
      PROVE  trouble' = "fault" /\ objected' = objected
  BY <1>2 DEF CallFails, Trouble
<1>3. ASSUME NEW p \in Parties, ProcessAgentSubmission(p)
      PROVE  trouble' \in {trouble, "repeat"} /\ objected' = objected
  BY <1>3 DEF ProcessAgentSubmission, Trouble
<1>4. ASSUME NEW p \in Parties, NEW kind \in Kinds, ReceiveMessage(p, kind)
      PROVE  trouble' = trouble /\ (objected => objected')
  BY <1>4 DEF ReceiveMessage
<1>5. CASE \/ TimerFires \/ DeadlinePasses \/ WindowEnds \/ ResolveDispute
           \/ RecoverPipeline \/ FinalizeSessions \/ UNCHANGED vars
  <2>1. UNCHANGED history
    BY <1>5 DEF TimerFires, DeadlinePasses, WindowEnds, ResolveDispute, RecoverPipeline,
                FinalizeSessions, vars
  <2> QED BY <2>1 DEF history
<1>6. CASE Crash
  BY <1>6 DEF Crash, Trouble
<1>7. CASE \E w \in Slots : Step(w)
  BY <1>1, <1>7 DEF history
<1> QED BY <1>2, <1>3, <1>4, <1>5, <1>6, <1>7 DEF Next

LEMMA SmoothStep == ASSUME Basic, SmoothInv, [Next]_vars PROVE SmoothInv'
<1> SUFFICES ASSUME trouble' = "none" PROVE Smooth'
  BY DEF SmoothInv
<1>1. Smooth
  BY History DEF SmoothInv
<1>2. ASSUME NEW w \in Slots, Step(w) PROVE Smooth'
  BY <1>1, <1>2, PrepareSmooth, InitializeSmooth, QuietStepsSmooth, SendSmooth, RecordSmooth,
     AttachSmooth, MarksSmooth, ReadSmooth DEF Step
<1>3. ASSUME NEW w \in Slots, CallFails(w) PROVE FALSE
  BY <1>3 DEF CallFails, Trouble
<1> QED BY <1>1, <1>2, <1>3, SubmissionSmooth, OthersSmooth DEF Next

LEMMA InitSmooth == Init => SmoothInv
BY DEF Init, SmoothInv, Smooth, Unprepared, Idle, NoSnapshot, Published

-----------------------------------------------------------------------------
\* An undisturbed release goes through.  A call may take up a baton nobody holds.
LEMMA HandedOver ==
  ASSUME calls \in [Slots -> Calls], OneHolder(calls), NEW w \in Slots, NEW c \in Calls, Goes(w, c),
         Baton(c) \in {"none", Baton(calls[w])} \/ ~Held(Baton(c), calls)
  PROVE  /\ OneHolder(calls')
         /\ \A b : b # "none" =>
               (Held(b, calls') <=> b = Baton(c) \/ (b # Baton(calls[w]) /\ Held(b, calls)))
         /\ Held(Baton(calls[w]), calls)
<1>1. calls'[w] = c /\ \A v \in Slots \ {w} : calls'[v] = calls[v]
  BY DEF Goes
<1>2. OneHolder(calls')
  <2> SUFFICES ASSUME NEW v \in Slots, NEW u \in Slots, v # u, Baton(calls'[v]) = Baton(calls'[u])
               PROVE  Baton(calls'[v]) = "none"
    BY DEF OneHolder
  <2>1. CASE v # w /\ u # w
    BY <1>1, <2>1 DEF OneHolder
  <2>2. ASSUME NEW x \in Slots \ {w}, Baton(calls[x]) = Baton(c)
        PROVE  Baton(c) = "none"
    BY <2>2 DEF OneHolder, Held
  <2> QED BY <1>1, <2>1, <2>2
<1>3. ASSUME NEW b, b # "none"
      PROVE  Held(b, calls') <=> b = Baton(c) \/ (b # Baton(calls[w]) /\ Held(b, calls))
  <2>1. ASSUME Held(b, calls')
        PROVE  b = Baton(c) \/ (b # Baton(calls[w]) /\ Held(b, calls))
    BY <1>1, <1>3, <2>1 DEF OneHolder, Held
  <2>2. ASSUME b = Baton(c) \/ (b # Baton(calls[w]) /\ Held(b, calls))
        PROVE  Held(b, calls')
    BY <1>1, <2>2 DEF Held
  <2> QED BY <2>1, <2>2
<1> QED BY <1>2, <1>3 DEF Held

LEMMA Batons ==
  ASSUME NEW c \in Calls
  PROVE  /\ c.at = "record" /\ c.kind = "approve" => Baton(c) = c.party
         /\ c.at = "record" /\ c.kind = "confirm" => Baton(c) = "confirm"
         /\ c.at = "attach" => Baton(c) = "attach"
         /\ Baton(c) = "release" <=> Releasing(c)
         /\ c.at \in {"idle", "send", "track_awaiting", "prepare", "initialize"} => Baton(c) = "none"
         /\ c.at = "publish" /\ c.next \notin {"approve", "settle"} => Baton(c) = "none"
<1>1. c.at = "record" => c.party \in Parties
  BY CallFields
<1> QED BY <1>1 DEF Baton, Releasing, Parties

\* The others go on as before, unless somebody else wrote about the release.
LEMMA OthersGoOn ==
  ASSUME calls \in [Slots -> Calls], OneHolder(calls), \A v \in Slots : GoesOn(calls[v]),
         NEW w \in Slots, NEW c \in Calls, Goes(w, c), GoesOnNext(c),
         store.request = 2 => store'.request = 2,
         \/ UNCHANGED <<store, authorized, executed>>
         \/ Baton(calls[w]) = "release"
         \/ ~Held("release", calls)
  PROVE  \A v \in Slots : GoesOn(calls[v])'
<1> SUFFICES ASSUME NEW v \in Slots PROVE GoesOn(calls[v])'
  OBVIOUS
<1>1. calls'[w] = c /\ (v # w => calls'[v] = calls[v]) /\ calls[v] \in Calls
  BY DEF Goes
<1>2. GoesOn(calls[v])' <=> GoesOnNext(calls'[v])
  BY DEF GoesOn, GoesOnNext
<1>3. CASE v = w
  BY <1>1, <1>2, <1>3
<1>4. CASE v # w /\ UNCHANGED <<store, authorized, executed>>
  BY <1>1, <1>2, <1>4 DEF GoesOn, GoesOnNext
<1>5. CASE v # w /\ Baton(calls[v]) # "release"
  <2>1. ~Releasing(calls[v])
    BY <1>1, <1>5, Batons
  <2>2. PayloadOK(calls[v], store')
    BY DEF GoesOn, PayloadOK
  <2>3. ReleaseOK(calls[v], store', authorized', executed')
    BY <2>1 DEF GoesOn, ReleaseOK, Releasing
  <2> QED BY <1>1, <1>2, <1>5, <2>2, <2>3 DEF GoesOnNext
<1>6. v # w /\ Baton(calls[v]) = "release" =>
          Baton(calls[w]) # "release" /\ Held("release", calls)
  BY DEF OneHolder, Held
<1> QED BY <1>3, <1>4, <1>5, <1>6

\* A step of one call keeps the invariant when the four parts hold after it.
LEMMA CalmMove ==
  ASSUME Basic, Calm, NEW w \in Slots, NEW c \in Calls, Goes(w, c),
         Baton(c) \in {"none", Baton(calls[w])} \/ ~Held(Baton(c), calls),
         GoesOnNext(c),
         store.request = 2 => store'.request = 2,
         \/ UNCHANGED <<store, authorized, executed>>
         \/ Baton(calls[w]) = "release"
         \/ ~Held("release", calls),
         (ChainInv /\ ApprovalsInv /\ RequestInv /\ ReleaseInv)',
         stages' = stages \/ \E row \in Stages \ {"failed"} : stages' = Marked(row)
  PROVE  Calm'
<1>1. OneHolder(calls') /\ \A v \in Slots : GoesOn(calls[v])'
  BY HandedOver, OthersGoOn, BasicGives DEF Calm
<1>2. (~Published("failed"))'
  <2>1. CASE stages' = stages
    BY <2>1 DEF Calm, Published
  <2>2. ASSUME NEW row \in Stages \ {"failed"}, stages' = Marked(row)
        PROVE  (~Published("failed"))'
    BY <2>2, PublishedNext, BasicGives DEF Calm
  <2> QED BY <2>1, <2>2
<1> QED BY <1>1, <1>2 DEF Calm

\* One that writes neither the chain nor the snapshot, and may give up the release when all
\* of it is written.
LEMMA CalmSame ==
  ASSUME Basic, Calm, NEW w \in Slots, NEW c \in Calls, Goes(w, c),
         \/ Baton(c) = Baton(calls[w])
         \/ /\ Baton(c) = "none" /\ Baton(calls[w]) = "release"
            /\ store.releaseSigned /\ store.releaseExecuted,
         GoesOn(c), UNCHANGED <<chain, store, timer, late>>,
         stages' = stages \/ \E row \in Stages \ {"failed"} : stages' = Marked(row)
  PROVE  Calm'
<1>1. \A b : b # "none" =>
          (Held(b, calls') <=> b = Baton(c) \/ (b # Baton(calls[w]) /\ Held(b, calls)))
      /\ Held(Baton(calls[w]), calls)
  BY HandedOver, BasicGives DEF Calm
<1>2. \A b \in Parties \cup {"attach", "confirm"} : Held(b, calls') <=> Held(b, calls)
  BY <1>1 DEF Parties
<1>3. Held("release", calls') => Held("release", calls)
  BY <1>1
<1>4. ~Held("release", calls') /\ Held("release", calls) =>
          store.releaseSigned /\ store.releaseExecuted
  BY <1>1
<1>5. ChainInv'
  BY DEF Calm, ChainInv, chain
<1>6. ApprovalsInv'
  BY <1>2 DEF Calm, ApprovalsInv, chain, BothActive
<1>7. RequestInv'
  BY <1>2 DEF Calm, RequestInv, chain, BothActive
<1>8. ReleaseInv'
  BY <1>3, <1>4 DEF Calm, ReleaseInv, chain
<1>9. GoesOnNext(c) /\ UNCHANGED <<store, authorized, executed>>
  BY DEF GoesOn, GoesOnNext, chain
<1> QED BY <1>5, <1>6, <1>7, <1>8, <1>9, CalmMove

\* How far the deal is.
LEMMA CalmGives ==
  ASSUME Basic, Smooth, Calm, store.exists
  PROVE  /\ store \in Snapshots /\ boot = "ready"
         /\ BothActive(store) <=> store.active["buyer"] /\ store.active["seller"]
         /\ state \in {"Settling", "Completed"}
         /\ store.releaseConfirmed => /\ confirmed /\ store.request = 2 /\ store.planApproved
                                      /\ BothActive(store) /\ store.deadline
         /\ ~store.releaseConfirmed => ~late /\ ~timer /\ ~Held("release", calls)
                                       /\ ~store.releaseAuthorized /\ ~authorized /\ ~executed
                                       /\ ~store.releaseSigned /\ ~store.releaseExecuted
         /\ \A w \in Slots : GoesOn(calls[w]) /\ ~Opening(calls[w])
         /\ \A w \in Slots : Baton(calls[w]) = "release" =>
                late /\ store.releaseConfirmed /\ window = "over" /\ ~timer
<1>1. store \in Snapshots /\ boot = "ready" /\ state \in {"Settling", "Completed"}
  BY BasicGives DEF Smooth, Prepared, Calm, ChainInv
<1>2. BothActive(store) <=> store.active["buyer"] /\ store.active["seller"]
  BY DEF BothActive, Parties
<1>3. store.releaseConfirmed => /\ confirmed /\ store.request = 2 /\ store.planApproved
                                /\ BothActive(store) /\ store.deadline
  BY DEF Calm, RequestInv, ApprovalsInv
<1>4. ~store.releaseConfirmed => ~late /\ ~timer /\ ~Held("release", calls)
                                 /\ ~store.releaseAuthorized /\ ~authorized /\ ~executed
                                 /\ ~store.releaseSigned /\ ~store.releaseExecuted
  BY DEF Calm, ReleaseInv, ChainInv
<1>5. \A w \in Slots : GoesOn(calls[w]) /\ ~Opening(calls[w])
  BY DEF Calm, Smooth, Prepared
<1>6. \A w \in Slots : Baton(calls[w]) = "release" =>
          late /\ store.releaseConfirmed /\ window = "over" /\ ~timer
  BY DEF Calm, ReleaseInv, Held
<1> QED BY <1>1, <1>2, <1>3, <1>4, <1>5, <1>6

LEMMA PublishCalm ==
  ASSUME Basic, Smooth, Calm, store.exists, NEW w \in Slots, PublishStage(w)
  PROVE  Calm'
<1> DEFINE c == [at |-> calls[w].next, by |-> calls[w].by]
<1>1. calls[w].at = "publish" /\ ~At(w, "idle") /\ GoesOn(calls[w])
  BY CalmGives DEF PublishStage, At
<1>2. /\ calls[w] \in Calls /\ calls[w].by \in Starters /\ calls[w].stage \in Stages \ {"failed"}
      /\ calls[w].next \in {"track_awaiting", "approve", "settle"}
  BY <1>1, Whereabouts, CallFields DEF GoesOn, ReleaseOK
<1>3. c \in Calls /\ c.at = calls[w].next
  BY <1>2, CallTypes DEF Steps
<1>4. Baton(c) = Baton(calls[w])
  BY <1>1, <1>2, <1>3 DEF Baton, Releasing
<1>5. GoesOn(c)
  BY <1>1, <1>2, <1>3 DEF GoesOn, PayloadOK, ReleaseOK
<1>6. Goes(w, c) /\ stages' = Marked(calls[w].stage) /\ UNCHANGED <<chain, store, timer, late>>
  BY <1>2 DEF PublishStage, Moves
<1> HIDE DEF c
<1> QED BY <1>2, <1>3, <1>4, <1>5, <1>6, CalmSame

LEMMA EndsCalm ==
  ASSUME Basic, Smooth, Calm, store.exists, NEW w \in Slots,
         \/ TrackAwaiting(w) \/ Track(w)
         \/ At(w, "send") /\ Ends(w) /\ UNCHANGED <<chain, rows, timer, late>>
  PROVE  Calm'
<1>1. calls[w].at \in {"send", "track_awaiting", "track"} /\ ~At(w, "idle")
  BY DEF TrackAwaiting, Track, At
<1>2. calls[w] \in Calls /\ GoesOn(calls[w])
  BY <1>1, Whereabouts, CalmGives
<1>3. Goes(w, Idle) /\ UNCHANGED <<chain, store, timer, late, stages>>
  BY DEF TrackAwaiting, Track, Ends, rows
<1>4. Baton(Idle) = "none" /\ GoesOn(Idle) /\ Idle \in Calls
  BY CallTypes DEF Baton, Releasing, Idle, GoesOn, PayloadOK, ReleaseOK, Calls
<1>5. CASE calls[w].at = "track"
  <2>1. Baton(calls[w]) = "release" /\ store.releaseSigned /\ store.releaseExecuted
    BY <1>2, <1>5 DEF Baton, Releasing, GoesOn, ReleaseOK
  <2> QED BY <1>3, <1>4, <2>1, CalmSame
<1>6. CASE calls[w].at # "track"
  <2>1. Baton(calls[w]) = "none"
    BY <1>1, <1>2, <1>6, Batons
  <2> QED BY <1>3, <1>4, <2>1, CalmSame
<1> QED BY <1>5, <1>6

LEMMA SignedCalm ==
  ASSUME Basic, Smooth, Calm, store.exists, NEW w \in Slots,
         PublishSigned(w) \/ ReadSigned(w) \/ PublishSettled(w)
  PROVE  Calm'
<1> DEFINE place == IF At(w, "signed") THEN "released" ELSE IF At(w, "released") THEN "execute"
                    ELSE "track"
           c == [at |-> place, by |-> calls[w].by]
<1>1. calls[w].at \in {"signed", "released", "settle"} /\ ~At(w, "idle")
  BY DEF PublishSigned, ReadSigned, PublishSettled, At
<1>2. calls[w] \in Calls /\ calls[w].by \in Starters /\ GoesOn(calls[w])
  BY <1>1, Whereabouts, CalmGives
<1>3. c \in Calls
  BY <1>2, CallTypes DEF Steps
<1>4. Baton(c) = Baton(calls[w]) /\ GoesOn(c)
  BY <1>1, <1>2 DEF Baton, Releasing, GoesOn, PayloadOK, ReleaseOK, At
<1>5. ReadSigned(w) => ~store.releaseExecuted
  BY <1>2 DEF ReadSigned, At, GoesOn, ReleaseOK, Calm, ReleaseInv
<1>6. Goes(w, c) /\ UNCHANGED <<chain, store, timer, late>>
  BY <1>5 DEF PublishSigned, ReadSigned, PublishSettled, Moves, rows, At
<1>7. stages' = stages \/ \E row \in Stages \ {"failed"} : stages' = Marked(row)
  BY DEF PublishSigned, ReadSigned, PublishSettled, rows, Stages
<1> HIDE DEF c
<1> QED BY <1>3, <1>4, <1>6, <1>7, CalmSame

LEMMA ReadCalm ==
  ASSUME Basic, Smooth, Calm, store.exists, NEW w \in Slots, ReadState(w)
  PROVE  Calm'
<1> DEFINE c == Publishing(w, "release_authorized", "approve")
<1>1. calls[w].at = "read" /\ ~At(w, "idle")
  BY DEF ReadState, At
<1>2. calls[w] \in Calls /\ calls[w].by = "listener" /\ GoesOn(calls[w]) /\ calls[w] # Idle
      /\ store.releaseAuthorized /\ ~store.releaseSigned /\ ~authorized
  BY <1>1, Whereabouts, CalmGives DEF GoesOn, ReleaseOK
<1>3. Baton(calls[w]) = "release"
  BY <1>1 DEF Baton, Releasing
<1>4. store \in Snapshots /\ BothActive(store) /\ store.releaseConfirmed /\ ~timer
  BY <1>3, CalmGives
<1>5. ~store.disputeOpen
  BY DEF Calm, ReleaseInv
<1>6. maybeAuthorizeRelease(w, store, late) /\ UNCHANGED <<chain, rows, late>>
  BY <1>4, <1>5 DEF ReadState
<1>7. timer' = TimerAfter(store, late) /\ Goes(w, Led(w, store, late))
  BY <1>2, <1>4, <1>6, MaybeAuthorizing, BasicGives
<1>8. Past(store)
  BY <1>2 DEF Past
<1>9. timer' = FALSE /\ Led(w, store, late) = c
  BY <1>2, <1>7, <1>8 DEF TimerAfter, Led, Authorizes, AwaitsDeadline, Returned
<1>10. timer' = timer
  BY <1>4, <1>9 DEF Basic, TypeOK
<1>11. c \in Calls
  BY <1>2, CallTypes DEF Publishing, Stages, Starters
<1>12. Baton(c) = "release" /\ GoesOn(c)
  BY <1>2 DEF Baton, Releasing, GoesOn, PayloadOK, ReleaseOK, Publishing
<1> HIDE DEF c
<1> QED BY <1>3, <1>6, <1>7, <1>9, <1>10, <1>11, <1>12, CalmSame DEF rows

\* Another call, that takes nothing up.
LEMMA ReceiveCalm ==
  ASSUME Basic, Smooth, Calm, store.exists, NEW p \in Parties, NEW kind \in Kinds,
         ReceiveMessage(p, kind), ~objected'
  PROVE  Calm'
<1> DEFINE c == [at |-> "send", by |-> "message", party |-> p, kind |-> kind,
                 nonce |-> PayloadNonce(p, kind)]
<1>1. kind \in {"approve", "confirm"} /\ UNCHANGED <<chain, rows, timer, late>> /\ Starts(c)
      /\ (kind = "confirm" => p = "buyer" /\ store.request # 0)
  BY DEF ReceiveMessage, Kinds
<1>2. store.request \in {0, 2} /\ PayloadNonce(p, kind) \in Nat
  BY <1>1 DEF Calm, RequestInv, PayloadNonce
<1>3. c \in Calls
  BY <1>2, PayloadTypes
<1>4. Baton(c) = "none" /\ Baton(Idle) = "none"
  BY DEF Baton, Releasing, Idle
<1>5. GoesOn(c)
  BY <1>1, <1>2 DEF GoesOn, PayloadOK, ReleaseOK, PayloadNonce
<1> HIDE DEF c
<1>6. PICK w \in Slots : calls[w] = Idle /\ Goes(w, c)
  BY <1>1, SlotFound, BasicGives
<1> QED BY <1>1, <1>3, <1>4, <1>5, <1>6, CalmSame DEF rows

\* The timer takes the release up.
LEMMA TimerCalm == ASSUME Basic, Smooth, Calm, store.exists, TimerFires PROVE Calm'
<1> DEFINE c == [at |-> "mark", by |-> "timer"]
<1>1. timer /\ late /\ timer' = FALSE /\ UNCHANGED <<chain, rows, late>>
  BY DEF TimerFires
<1>2. store.releaseConfirmed /\ ~store.releaseAuthorized /\ ~Held("release", calls)
      /\ ~store.disputeOpen
  BY <1>1 DEF Calm, ReleaseInv
<1>3. ~authorized /\ ~executed /\ ~store.releaseExecuted /\ ~store.releaseSigned
  BY <1>2 DEF Calm, ReleaseInv, ChainInv
<1>4. Authorizes(store, TRUE)
  BY <1>2, <1>3, CalmGives DEF Authorizes, AwaitsDeadline, Past
<1>5. Starts(c)
  BY <1>4 DEF TimerFires
<1>6. c \in Calls /\ Baton(c) = "release" /\ Baton(Idle) = "none"
  BY CallTypes DEF Steps, Starters, Baton, Releasing, Idle
<1>7. PICK w \in Slots : calls[w] = Idle /\ Goes(w, c)
  BY <1>5, SlotFound, BasicGives
<1>8. \A b : b # "none" => (Held(b, calls') <=> b = "release" \/ Held(b, calls))
  BY <1>2, <1>6, <1>7, HandedOver, BasicGives DEF Calm
<1>9. \A b \in Parties \cup {"attach", "confirm"} : Held(b, calls') <=> Held(b, calls)
  BY <1>8 DEF Parties
<1>10. store' = store /\ UNCHANGED chain /\ stages' = stages
  BY <1>1 DEF rows
<1>11. GoesOnNext(c)
  BY <1>2, <1>10 DEF GoesOnNext, PayloadOK, ReleaseOK
<1>12. ChainInv' /\ ApprovalsInv' /\ RequestInv'
  BY <1>9, <1>10 DEF Calm, ChainInv, ApprovalsInv, RequestInv, chain, BothActive
<1>13. ReleaseInv'
  BY <1>1, <1>2, <1>3, <1>10 DEF Calm, ReleaseInv, chain
<1> HIDE DEF c
<1> QED BY <1>2, <1>6, <1>7, <1>10, <1>11, <1>12, <1>13, CalmMove DEF chain

\* Clocks.
LEMMA ClocksCalm ==
  ASSUME Basic, Smooth, Calm, store.exists, DeadlinePasses \/ WindowEnds \/ UNCHANGED vars
  PROVE  Calm'
<1>1. /\ UNCHANGED <<rows, calls, timer>>
      /\ UNCHANGED <<state, nonce, approved, confirmed, authorized, executed>>
  BY DEF DeadlinePasses, WindowEnds, Deal!WindowEnds, vars, chain, process
<1>2. store' = store /\ stages' = stages
  BY <1>1 DEF rows
<1>3. window' = window \/ (window = "open" /\ window' = "over")
  BY DEF DeadlinePasses, WindowEnds, Deal!WindowEnds, vars, chain
<1>4. late' = late \/ (late' = TRUE /\ window # "open" /\ window' = window /\ store.deadline)
  BY DEF DeadlinePasses, WindowEnds, vars, chain
<1>5. ChainInv' /\ ApprovalsInv' /\ RequestInv'
  BY <1>1, <1>2, <1>3 DEF Calm, ChainInv, ApprovalsInv, RequestInv, BothActive
<1>6. window \in {"none", "open", "over"} /\ (store.deadline => store.releaseConfirmed /\ confirmed)
  BY BasicGives DEF Deal!TypeOK, Calm, RequestInv
<1>7. ReleaseInv'
  BY <1>1, <1>2, <1>3, <1>4, <1>6 DEF Calm, ReleaseInv, ChainInv
<1>8. OneHolder(calls') /\ \A w \in Slots : GoesOn(calls[w])'
  BY <1>1, <1>2 DEF Calm, GoesOn
<1>9. (~Published("failed"))'
  BY <1>2 DEF Calm, Published
<1> QED BY <1>5, <1>7, <1>8, <1>9 DEF Calm

\* The agent's own transactions: the chain accepts them.
LEMMA ApproveCalm ==
  ASSUME Basic, Smooth, Calm, store.exists, NEW w \in Slots, Approve(w)
  PROVE  Calm'
<1> DEFINE c == [at |-> "sign", by |-> calls[w].by]
<1>1. calls[w].at = "approve" /\ ~At(w, "idle")
  BY DEF Approve, At
<1>2. calls[w] \in Calls /\ calls[w].by \in Starters /\ Baton(calls[w]) = "release"
      /\ store.releaseAuthorized /\ ~store.releaseSigned /\ ~authorized
  BY <1>1, Whereabouts, CalmGives DEF GoesOn, ReleaseOK, Baton, Releasing
<1>3. store.releaseConfirmed /\ confirmed /\ window = "over" /\ state \in {"Settling", "Completed"}
      /\ late /\ ~timer
  BY <1>2, CalmGives
<1>4. ~executed /\ approved = Parties /\ state = "Settling"
  BY <1>2, <1>3 DEF Calm, ChainInv
<1>5. Deal!CanAuthorize
  BY <1>2, <1>3, <1>4 DEF Deal!CanAuthorize, Deal!Negotiable
<1>6. Deal!Authorize /\ Goes(w, c) /\ UNCHANGED <<rows, timer, late>>
  BY <1>5 DEF Approve, Moves
<1>7. /\ authorized' = TRUE /\ UNCHANGED <<state, nonce, approved, confirmed, window, executed>>
      /\ store' = store /\ stages' = stages
  BY <1>6 DEF Deal!Authorize, rows
<1>8. c \in Calls /\ Baton(c) = "release" /\ GoesOnNext(c)
  BY <1>2, <1>4, <1>7, CallTypes DEF Steps, Baton, Releasing, GoesOnNext, PayloadOK, ReleaseOK
<1> HIDE DEF c
<1>9. \A b : b # "none" => (Held(b, calls') <=> Held(b, calls))
      /\ Held("release", calls)
  BY <1>2, <1>6, <1>8, HandedOver, BasicGives DEF Calm
<1>10. \A b \in Parties \cup {"attach", "confirm", "release"} : Held(b, calls') <=> Held(b, calls)
  BY <1>9 DEF Parties
<1>11. ChainInv' /\ ApprovalsInv' /\ RequestInv'
  BY <1>3, <1>7, <1>10 DEF Calm, ChainInv, ApprovalsInv, RequestInv, BothActive
<1>12. ReleaseInv'
  BY <1>2, <1>3, <1>6, <1>7, <1>9, <1>10 DEF Calm, ReleaseInv
<1> QED BY <1>2, <1>6, <1>7, <1>8, <1>11, <1>12, CalmMove

LEMMA ExecuteCalm ==
  ASSUME Basic, Smooth, Calm, store.exists, NEW w \in Slots, Execute(w)
  PROVE  Calm'
<1> DEFINE c == [at |-> "executed", by |-> calls[w].by]
<1>1. calls[w].at = "execute" /\ ~At(w, "idle")
  BY DEF Execute, At
<1>2. calls[w] \in Calls /\ calls[w].by \in Starters /\ Baton(calls[w]) = "release"
      /\ store.releaseSigned /\ ~executed
  BY <1>1, Whereabouts, CalmGives DEF GoesOn, ReleaseOK, Baton, Releasing
<1>3. store.releaseConfirmed /\ confirmed /\ window = "over" /\ state \in {"Settling", "Completed"}
      /\ late /\ ~timer
  BY <1>2, CalmGives
<1>4. authorized /\ state = "Settling" /\ ~store.releaseExecuted
  BY <1>2, <1>3 DEF Calm, ChainInv, ReleaseInv
<1>5. Deal!CanExecute
  BY <1>2, <1>3, <1>4 DEF Deal!CanExecute
<1>6. Deal!Execute /\ Goes(w, c) /\ UNCHANGED <<rows, timer, late>>
  BY <1>5 DEF Execute, Moves
<1>7. /\ executed' = TRUE /\ state' = "Completed"
      /\ UNCHANGED <<nonce, approved, confirmed, window, authorized>>
      /\ store' = store /\ stages' = stages
  BY <1>6 DEF Deal!Execute, Deal!consent, rows
<1>8. c \in Calls /\ Baton(c) = "release" /\ GoesOnNext(c)
  BY <1>2, <1>4, <1>7, CallTypes DEF Steps, Baton, Releasing, GoesOnNext, PayloadOK, ReleaseOK
<1> HIDE DEF c
<1>9. \A b : b # "none" => (Held(b, calls') <=> Held(b, calls))
      /\ Held("release", calls)
  BY <1>2, <1>6, <1>8, HandedOver, BasicGives DEF Calm
<1>10. \A b \in Parties \cup {"attach", "confirm", "release"} : Held(b, calls') <=> Held(b, calls)
  BY <1>9 DEF Parties
<1>11. ChainInv' /\ ApprovalsInv' /\ RequestInv'
  BY <1>4, <1>7, <1>10 DEF Calm, ChainInv, ApprovalsInv, RequestInv, BothActive
<1>12. ReleaseInv'
  BY <1>2, <1>3, <1>6, <1>7, <1>9, <1>10 DEF Calm, ReleaseInv
<1> QED BY <1>2, <1>6, <1>7, <1>8, <1>11, <1>12, CalmMove

\* A payload lands: the chain accepts each once.
LEMMA ApprovalLands ==
  ASSUME Basic, Smooth, Calm, store.exists, NEW w \in Slots, At(w, "send"),
         calls[w].kind = "approve", Lands(calls[w]),
         Goes(w, [calls[w] EXCEPT !.at = "record"]), UNCHANGED <<rows, timer, late>>
  PROVE  Calm'
<1> DEFINE p == calls[w].party
           c == [calls[w] EXCEPT !.at = "record"]
<1>1. /\ calls[w] \in Calls /\ p \in Parties /\ calls[w].nonce = 1 /\ calls[w].at = "send"
      /\ Baton(calls[w]) = "none"
  <2>1. calls[w].at = "send" /\ ~At(w, "idle")
    BY DEF At
  <2> QED BY <2>1, Whereabouts, CallFields, CalmGives, Batons DEF GoesOn, PayloadOK
<1>2. Deal!Submit(p, 1)
  BY <1>1 DEF Lands
<1>3. /\ nonce[p] < 1 /\ nonce' = [nonce EXCEPT ![p] = 1] /\ approved' = approved \cup {p}
      /\ confirmed' = (confirmed /\ p # "buyer") /\ window' = "none"
      /\ UNCHANGED <<state, authorized, executed>> /\ ~authorized /\ ~executed
  BY <1>2 DEF Deal!Submit, Deal!CanSubmit, Deal!Fresh, Deal!Signs, Deal!Negotiable
<1>4. p \notin approved /\ ~confirmed /\ nonce \in [Parties -> Nat]
  BY <1>1, <1>3, BasicGives DEF Deal!TypeOK, Calm, ChainInv
<1>5. ~store.active[p] /\ ~Held(p, calls) /\ ~store.releaseConfirmed /\ ~late
  BY <1>1, <1>4, CalmGives DEF Calm, ApprovalsInv, RequestInv
<1>6. c \in Calls /\ c.at = "record" /\ c.kind = "approve" /\ c.party = p /\ c.nonce = 1
  BY <1>1, Recording
<1>7. Goes(w, c)
  OBVIOUS
<1> HIDE DEF c
<1>8. Baton(c) = p
  BY <1>6, Batons
<1>9. store' = store /\ stages' = stages
  BY DEF rows
<1>10. GoesOnNext(c)
  BY <1>6 DEF GoesOnNext, PayloadOK, ReleaseOK
<1>11. \A b : b # "none" => (Held(b, calls') <=> b = p \/ Held(b, calls))
  BY <1>1, <1>5, <1>7, <1>6, <1>8, HandedOver, BasicGives DEF Calm
<1>12. \A b \in {"attach", "confirm", "release"} : Held(b, calls') <=> Held(b, calls)
  BY <1>1, <1>11 DEF Parties
<1>13. \A q \in Parties : Held(q, calls') <=> q = p \/ Held(q, calls)
  BY <1>11 DEF Parties
<1>14. ChainInv'
  <2>1. \A q \in Parties : q # p => nonce'[q] = nonce[q]
    BY <1>3, <1>4
  <2>2. nonce'[p] = 1
    BY <1>1, <1>3, <1>4
  <2> QED BY <1>3, <1>4, <2>1, <2>2 DEF Calm, ChainInv
<1>15. ApprovalsInv'
  BY <1>3, <1>5, <1>9, <1>13 DEF Calm, ApprovalsInv, BothActive
<1>16. RequestInv'
  BY <1>3, <1>4, <1>9, <1>12 DEF Calm, RequestInv, BothActive
<1>17. ReleaseInv'
  BY <1>3, <1>5, <1>9, <1>12 DEF Calm, ReleaseInv
<1> QED BY <1>3, <1>5, <1>6, <1>7, <1>8, <1>9, <1>10, <1>14, <1>15, <1>16, <1>17, CalmMove

LEMMA ConfirmationLands ==
  ASSUME Basic, Smooth, Calm, store.exists, NEW w \in Slots, At(w, "send"),
         calls[w].kind = "confirm", Lands(calls[w]),
         Goes(w, [calls[w] EXCEPT !.at = "record"]), UNCHANGED <<rows, timer, late>>
  PROVE  Calm'
<1> DEFINE c == [calls[w] EXCEPT !.at = "record"]
<1>1. /\ calls[w] \in Calls /\ calls[w].party = "buyer" /\ calls[w].nonce = 2
      /\ store.request = 2 /\ Baton(calls[w]) = "none" /\ calls[w].at = "send"
  <2>1. calls[w].at = "send" /\ ~At(w, "idle")
    BY DEF At
  <2> QED BY <2>1, Whereabouts, CalmGives, Batons DEF GoesOn, PayloadOK
<1>2. Deal!Confirm(2)
  BY <1>1 DEF Lands
<1>3. /\ nonce["buyer"] < 2 /\ nonce' = [nonce EXCEPT !["buyer"] = 2] /\ approved = Parties
      /\ confirmed' = TRUE /\ window' \in {"open", "over"}
      /\ UNCHANGED <<state, approved, authorized, executed>> /\ ~authorized /\ ~executed
  BY <1>2 DEF Deal!Confirm, Deal!CanConfirm, Deal!CanSubmit, Deal!Fresh, Deal!Signs,
              Deal!Negotiable
<1>4. ~confirmed /\ nonce \in [Parties -> Nat] /\ "buyer" \in Parties
  <2>1. "buyer" \in Parties
    BY DEF Parties
  <2> QED BY <1>3, <2>1, BasicGives DEF Deal!TypeOK, Calm, ChainInv
<1>5. ~Held("confirm", calls) /\ ~store.releaseConfirmed /\ ~late /\ ~Held("release", calls)
  BY <1>4, CalmGives DEF Calm, RequestInv
<1>6. c \in Calls /\ c.at = "record" /\ c.kind = "confirm" /\ c.party = "buyer" /\ c.nonce = 2
  BY <1>1, Recording
<1>7. Goes(w, c)
  OBVIOUS
<1> HIDE DEF c
<1>8. Baton(c) = "confirm"
  BY <1>6, Batons
<1>9. store' = store /\ stages' = stages
  BY DEF rows
<1>10. GoesOnNext(c)
  BY <1>1, <1>6, <1>9 DEF GoesOnNext, PayloadOK, ReleaseOK
<1>11. \A b : b # "none" => (Held(b, calls') <=> b = "confirm" \/ Held(b, calls))
  BY <1>1, <1>5, <1>6, <1>7, <1>8, HandedOver, BasicGives DEF Calm
<1>12. \A b \in Parties \cup {"attach", "release"} : Held(b, calls') <=> Held(b, calls)
  BY <1>11 DEF Parties
<1>13. Held("confirm", calls')
  BY <1>11
<1>14. ChainInv'
  <2>1. nonce'["buyer"] = 2 /\ nonce'["seller"] = nonce["seller"]
    BY <1>3, <1>4 DEF Parties
  <2> QED BY <1>3, <1>4, <2>1 DEF Calm, ChainInv, Parties
<1>15. ApprovalsInv'
  BY <1>3, <1>9, <1>12 DEF Calm, ApprovalsInv, BothActive
<1>16. RequestInv'
  BY <1>1, <1>3, <1>5, <1>9, <1>12, <1>13 DEF Calm, RequestInv, BothActive
<1>17. ReleaseInv'
  BY <1>3, <1>5, <1>9, <1>12 DEF Calm, ReleaseInv
<1> QED BY <1>3, <1>5, <1>6, <1>7, <1>8, <1>9, <1>10, <1>14, <1>15, <1>16, <1>17, CalmMove

LEMMA SendCalm ==
  ASSUME Basic, Smooth, Calm, store.exists, NEW w \in Slots, SendPayload(w)
  PROVE  Calm'
<1>1. At(w, "send") /\ UNCHANGED <<rows, timer, late>>
  BY DEF SendPayload
<1>2. calls[w].kind \in {"approve", "confirm"}
  BY <1>1, CalmGives DEF GoesOn, PayloadOK, At
<1> QED BY <1>1, <1>2, ApprovalLands, ConfirmationLands, EndsCalm DEF SendPayload

\* The deadline is not awaited: nothing is scheduled, and a handler returns.
LEMMA NothingToAuthorize ==
  ASSUME Basic, NEW w \in Slots, calls[w] # Idle, calls[w].by = "message", ~timer, NEW over,
         NEW s \in Snapshots, ~AwaitsDeadline(s) \/ ~over, maybeAuthorizeRelease(w, s, over)
  PROVE  Goes(w, Idle) /\ timer' = (~Past(s) /\ AwaitsDeadline(s))
<1>1. ~Authorizes(s, over)
  BY DEF Authorizes
<1>2. timer' = TimerAfter(s, over) /\ Goes(w, Led(w, s, over))
  BY MaybeAuthorizing, BasicGives
<1> QED BY <1>1, <1>2 DEF TimerAfter, Led, Returned

LEMMA ApprovalRecorded ==
  ASSUME Basic, Smooth, Calm, store.exists, NEW w \in Slots, RecordPayload(w),
         calls[w].kind = "approve"
  PROVE  Calm'
<1> DEFINE p == calls[w].party
           new == recordApproval(store, p, 1)
           attach == [at |-> "attach", by |-> "message", nonce |-> 2]
           c == IF BothActive(new) THEN attach ELSE Idle
<1>1. /\ calls[w] \in Calls /\ calls[w] # Idle /\ p \in Parties /\ calls[w].nonce = 1
      /\ calls[w].at = "record" /\ Baton(calls[w]) = p /\ calls[w].by = "message"
  <2>1. calls[w].at = "record" /\ ~At(w, "idle")
    BY DEF RecordPayload, At
  <2> QED BY <2>1, Whereabouts, CallFields, CalmGives, Batons DEF GoesOn, PayloadOK
<1>2. Held(p, calls) /\ ~store.active[p] /\ p \in approved
  BY <1>1 DEF Held, Calm, ApprovalsInv
<1>3. store \in Snapshots /\ store.active \in [Parties -> BOOLEAN] /\ store.nonce \in [Parties -> Nat]
      /\ "buyer" \in Parties
  BY CalmGives DEF Snapshots, Parties
<1>4. /\ ~BothActive(store) /\ ~store.releaseConfirmed /\ store.request = 0
      /\ ~Held("attach", calls) /\ store.confirmation = 0 /\ ~confirmed /\ ~store.deadline
      /\ ~Held("confirm", calls)
  BY <1>1, <1>2, CalmGives DEF BothActive, Calm, RequestInv
<1>5. /\ ~late /\ ~timer /\ ~Held("release", calls) /\ ~store.releaseAuthorized
      /\ ~authorized /\ ~executed /\ ~store.releaseSigned /\ ~store.releaseExecuted
  BY <1>4, CalmGives
<1>6. /\ new.active = [store.active EXCEPT ![p] = TRUE]
      /\ new.nonce = [store.nonce EXCEPT ![p] = 1]
      /\ new.planApproved = BothActive(new)
      /\ new.request = 0 /\ new.confirmation = 0 /\ ~new.releaseConfirmed /\ ~new.deadline
      /\ new.disputeOpen = store.disputeOpen /\ ~new.releaseAuthorized
      /\ ~new.releaseSigned /\ ~new.releaseExecuted /\ new \in Snapshots
  <2>1. 1 \in Nat
    OBVIOUS
  <2>2. new \in Snapshots
    BY <1>1, <1>3, <2>1, SnapshotTypes
  <2> QED BY <1>1, <1>3, <1>4, <1>5, <2>1, <2>2, Approving
<1>7. ~new.disputeOpen /\ Recorded(store, calls[w]) = new
  BY <1>1, <1>6 DEF Recorded, Calm, ReleaseInv
<1> DEFINE over == late /\ calls[w].kind # "confirm"
<1>8. store' = new /\ late' = over /\ UNCHANGED <<chain, stages>>
  <2> HIDE DEF new
  <2> QED BY <1>7 DEF RecordPayload
<1>9. BothActive(new) => nextRoleNonce(new, "buyer") = 2
  <2>1. new.nonce["buyer"] = IF p = "buyer" THEN 1 ELSE store.nonce["buyer"]
    BY <1>3, <1>6
  <2>2. BothActive(new) => (p = "buyer" \/ store.active["buyer"])
    BY <1>1, <1>3, <1>6 DEF BothActive
  <2>3. store.active["buyer"] => store.nonce["buyer"] = 1
    BY <1>4 DEF Calm, ApprovalsInv
  <2> QED BY <1>6, <2>1, <2>2, <2>3 DEF nextRoleNonce
<1> HIDE DEF new
<1>10. Goes(w, c) /\ timer' = FALSE
  <2>1. CASE BothActive(new)
    <3>1. timer' = timer /\ Goes(w, attach)
      BY <1>6, <1>7, <1>9, <2>1 DEF RecordPayload
    <3> QED BY <1>5, <2>1, <3>1 DEF Basic, TypeOK
  <2>2. CASE ~BothActive(new)
    <3>1. maybeAuthorizeRelease(w, new, over)
      BY <1>7, <2>2 DEF RecordPayload
    <3>2. ~AwaitsDeadline(new)
      BY <1>6 DEF AwaitsDeadline
    <3> QED BY <1>1, <1>5, <1>6, <2>2, <3>1, <3>2, NothingToAuthorize
  <2> QED BY <2>1, <2>2
<1>11. c \in Calls /\ Baton(c) = (IF BothActive(new) THEN "attach" ELSE "none") /\ GoesOnNext(c)
  <2>1. attach \in Calls /\ Idle \in Calls
    BY DEF Calls
  <2>2. Baton(attach) = "attach" /\ Baton(Idle) = "none"
    BY DEF Baton, Releasing, Idle
  <2>3. GoesOnNext(attach) /\ GoesOnNext(Idle)
    BY DEF GoesOnNext, PayloadOK, ReleaseOK, Idle
  <2> QED BY <2>1, <2>2, <2>3
<1> HIDE DEF c, attach
<1>12. \A b : b # "none" => (Held(b, calls') <=> b = Baton(c) \/ (b # p /\ Held(b, calls)))
  BY <1>1, <1>4, <1>10, <1>11, HandedOver, BasicGives DEF Calm
<1>13. /\ \A q \in Parties : Held(q, calls') <=> q # p /\ Held(q, calls)
       /\ ~Held("confirm", calls') /\ ~Held("release", calls')
       /\ Held("attach", calls') <=> BothActive(new)
  BY <1>1, <1>4, <1>5, <1>11, <1>12 DEF Parties
<1>14. ChainInv'
  BY <1>8 DEF Calm, ChainInv, chain
<1>15. ApprovalsInv'
  <2>1. \A q \in Parties : q # p => new.active[q] = store.active[q]
    BY <1>3, <1>6
  <2>2. new.active[p] = TRUE
    BY <1>1, <1>3, <1>6
  <2>3. new.nonce["buyer"] = IF ~new.active["buyer"] THEN 0 ELSE 1
    <3>1. CASE p = "buyer"
      BY <1>3, <1>6, <2>2, <3>1
    <3>2. CASE p # "buyer"
      <4>1. new.nonce["buyer"] = store.nonce["buyer"] /\ new.active["buyer"] = store.active["buyer"]
        BY <1>3, <1>6, <2>1, <3>2
      <4> QED BY <1>4, <4>1 DEF Calm, ApprovalsInv
    <3> QED BY <3>1, <3>2
  <2>4. \A q \in Parties : q \in approved <=> new.active[q] \/ Held(q, calls')
    BY <1>2, <1>13, <2>1, <2>2 DEF Calm, ApprovalsInv
  <2>5. \A q \in Parties : ~(new.active[q] /\ Held(q, calls'))
    BY <1>13, <2>1 DEF Calm, ApprovalsInv
  <2> QED BY <1>6, <1>8, <2>3, <2>4, <2>5 DEF ApprovalsInv, chain, BothActive
<1>16. RequestInv'
  <2>1. new.deadline = FALSE /\ new.releaseConfirmed = FALSE
    BY <1>6 DEF Snapshots
  <2>2. confirmed' = confirmed /\ store' = new
    BY <1>8 DEF chain
  <2>3. new.request = 0 /\ new.confirmation = 0
    BY <1>6
  <2>4. /\ BothActive(new) <=> Held("attach", calls')
        /\ ~Held("confirm", calls') /\ ~confirmed
    BY <1>4, <1>13
  <2>5. (BothActive(store))' <=> store'.request = 2 \/ Held("attach", calls')
    BY <2>2, <2>3, <2>4
  <2>6. confirmed' <=> store'.releaseConfirmed \/ Held("confirm", calls')
    BY <2>1, <2>2, <2>4
  <2>7. store'.request = 0 /\ store'.confirmation = 0 /\ ~store'.releaseConfirmed
        /\ store'.deadline = store'.releaseConfirmed
    BY <2>1, <2>2, <2>3
  <2> QED BY <2>2, <2>4, <2>5, <2>6, <2>7 DEF RequestInv
<1>17. ReleaseInv'
  BY <1>5, <1>6, <1>7, <1>8, <1>10, <1>13 DEF ReleaseInv, chain
<1> QED BY <1>4, <1>5, <1>8, <1>10, <1>11, <1>14, <1>15, <1>16, <1>17, CalmMove

LEMMA ConfirmationRecorded ==
  ASSUME Basic, Smooth, Calm, store.exists, NEW w \in Slots, RecordPayload(w),
         calls[w].kind = "confirm"
  PROVE  Calm'
<1> DEFINE new == markBuyerReleaseConfirmed(store, 2)
<1>1. /\ calls[w] \in Calls /\ calls[w] # Idle /\ calls[w].nonce = 2
      /\ calls[w].at = "record" /\ Baton(calls[w]) = "confirm" /\ calls[w].by = "message"
  <2>1. calls[w].at = "record" /\ ~At(w, "idle")
    BY DEF RecordPayload, At
  <2> QED BY <2>1, Whereabouts, CallFields, CalmGives, Batons DEF GoesOn, PayloadOK
<1>2. Held("confirm", calls) /\ ~store.releaseConfirmed /\ confirmed /\ store.request = 2
  BY <1>1 DEF Held, Calm, RequestInv
<1>3. /\ ~late /\ ~timer /\ ~Held("release", calls) /\ ~store.releaseAuthorized
      /\ ~authorized /\ ~executed /\ ~store.releaseSigned /\ ~store.releaseExecuted
  BY <1>2, CalmGives
<1>4. /\ store \in Snapshots /\ store.active \in [Parties -> BOOLEAN]
      /\ store.nonce \in [Parties -> Nat]
      /\ store.active["buyer"] /\ store.active["seller"] /\ ~Held("attach", calls)
      /\ ~store.disputeOpen
  <2>1. BothActive(store) /\ ~Held("attach", calls) /\ ~store.disputeOpen
    BY <1>2 DEF Calm, RequestInv, ReleaseInv
  <2>2. store \in Snapshots /\ store.active["buyer"] /\ store.active["seller"]
    BY <2>1, CalmGives
  <2> QED BY <2>1, <2>2 DEF Snapshots
<1>5. /\ new.active = [store.active EXCEPT !["buyer"] = TRUE]
      /\ new.nonce = [store.nonce EXCEPT !["buyer"] = 2]
      /\ new.planApproved = store.active["seller"]
      /\ new.request = store.request /\ new.confirmation = 2
      /\ new.releaseConfirmed /\ new.deadline
      /\ new.disputeOpen = store.disputeOpen /\ ~new.releaseAuthorized
      /\ new.releaseSigned = store.releaseSigned /\ new.releaseExecuted = store.releaseExecuted
      /\ new \in Snapshots
  <2>1. 2 \in Nat /\ "buyer" \in Parties
    BY DEF Parties
  <2>2. new \in Snapshots
    BY <1>4, <2>1, SnapshotTypes
  <2> QED BY <1>4, <2>1, <2>2, Confirming
<1>6. Recorded(store, calls[w]) = new
  BY <1>1 DEF Recorded
<1> HIDE DEF new
<1> DEFINE over == late /\ calls[w].kind # "confirm"
<1>7. store' = new /\ late' = over /\ UNCHANGED <<chain, stages>> /\ ~over
      /\ maybeAuthorizeRelease(w, new, over)
  BY <1>6 DEF RecordPayload
<1> HIDE DEF over
<1>8. Goes(w, Idle) /\ timer' = (~Past(new) /\ AwaitsDeadline(new))
  BY <1>1, <1>3, <1>5, <1>7, NothingToAuthorize
<1>9. Idle \in Calls /\ Baton(Idle) = "none" /\ GoesOnNext(Idle)
  BY CallTypes DEF Calls, Baton, Releasing, Idle, GoesOnNext, PayloadOK, ReleaseOK
<1>10. \A b : b # "none" => (Held(b, calls') <=> b # "confirm" /\ Held(b, calls))
  BY <1>1, <1>8, <1>9, HandedOver, BasicGives DEF Calm
<1>11. /\ \A q \in Parties : Held(q, calls') <=> Held(q, calls)
       /\ ~Held("confirm", calls') /\ ~Held("release", calls') /\ ~Held("attach", calls')
  BY <1>3, <1>4, <1>10 DEF Parties
<1>12. /\ \A q \in Parties : new.active[q] <=> store.active[q]
       /\ new.nonce["buyer"] = 2 /\ BothActive(new)
       /\ new.active["buyer"]
  <2>1. (\A q \in Parties : new.active[q] <=> store.active[q]) /\ new.nonce["buyer"] = 2
    BY <1>4, <1>5 DEF Parties
  <2> QED BY <1>4, <2>1 DEF BothActive, Parties
<1>13. ChainInv'
  BY <1>7 DEF Calm, ChainInv, chain
<1>14. ApprovalsInv'
  <2>1. new.planApproved <=> BothActive(new)
    BY <1>4, <1>5, <1>12
  <2>2. \A q \in Parties : (q \in approved' <=> store'.active[q] \/ Held(q, calls'))
                           /\ ~(store'.active[q] /\ Held(q, calls'))
    BY <1>7, <1>11, <1>12 DEF Calm, ApprovalsInv, chain
  <2>3. (BothActive(store))' <=> store'.planApproved
    BY <1>7, <2>1
  <2> QED BY <1>5, <1>7, <1>12, <2>2, <2>3 DEF ApprovalsInv
<1>15. RequestInv'
  <2>1. confirmed' = confirmed /\ store' = new /\ (BothActive(store))'
    BY <1>7, <1>12 DEF chain
  <2>2. store'.deadline = store'.releaseConfirmed
    BY <1>5, <2>1 DEF Snapshots
  <2> QED BY <1>2, <1>5, <1>11, <2>1, <2>2 DEF RequestInv
<1>16. ReleaseInv'
  BY <1>3, <1>4, <1>5, <1>7, <1>11 DEF ReleaseInv, chain
<1> QED BY <1>2, <1>3, <1>5, <1>7, <1>8, <1>9, <1>13, <1>14, <1>15, <1>16, CalmMove

LEMMA RecordCalm ==
  ASSUME Basic, Smooth, Calm, store.exists, NEW w \in Slots, RecordPayload(w)
  PROVE  Calm'
<1>1. calls[w].kind \in {"approve", "confirm"}
  BY CalmGives DEF RecordPayload, At, GoesOn, PayloadOK
<1> QED BY <1>1, ApprovalRecorded, ConfirmationRecorded

LEMMA AttachCalm ==
  ASSUME Basic, Smooth, Calm, store.exists, NEW w \in Slots, AttachBuyerReleaseRequest(w)
  PROVE  Calm'
<1> DEFINE new == [store EXCEPT !.request = calls[w].nonce, !.planApproved = BothActive(store)]
<1>1. /\ calls[w] \in Calls /\ calls[w] # Idle /\ calls[w].nonce = 2
      /\ Baton(calls[w]) = "attach" /\ calls[w].by = "message"
  <2>1. calls[w].at = "attach" /\ ~At(w, "idle")
    BY DEF AttachBuyerReleaseRequest, At
  <2> QED BY <2>1, Whereabouts, CallFields, CalmGives, Batons DEF GoesOn, PayloadOK
<1>2. Held("attach", calls) /\ BothActive(store) /\ store.request = 0 /\ ~confirmed
      /\ ~store.releaseConfirmed /\ ~Held("confirm", calls)
  BY <1>1 DEF Held, Calm, RequestInv
<1>3. /\ ~late /\ ~timer /\ ~Held("release", calls) /\ ~store.releaseAuthorized
      /\ ~authorized /\ ~executed /\ ~store.releaseSigned /\ ~store.releaseExecuted
      /\ store \in Snapshots
  BY <1>2, CalmGives
<1>4. new \in Snapshots
  <2>1. BothActive(store) \in BOOLEAN /\ 2 \in Nat
    BY DEF BothActive
  <2> QED BY <1>1, <1>3, <2>1 DEF Snapshots
<1>5. /\ new.request = 2 /\ new.planApproved = BothActive(store)
      /\ new.active = store.active /\ new.nonce = store.nonce
      /\ new.confirmation = store.confirmation /\ new.releaseConfirmed = store.releaseConfirmed
      /\ new.deadline = store.deadline /\ new.disputeOpen = store.disputeOpen
      /\ new.releaseAuthorized = store.releaseAuthorized
      /\ new.releaseSigned = store.releaseSigned /\ new.releaseExecuted = store.releaseExecuted
  BY <1>1, <1>3 DEF Snapshots
<1>6. store' = new /\ maybeAuthorizeRelease(w, new, late) /\ UNCHANGED <<chain, stages, late>>
  BY DEF AttachBuyerReleaseRequest
<1> HIDE DEF new
<1>7. ~AwaitsDeadline(new)
  BY <1>2, <1>5 DEF AwaitsDeadline
<1>8. Goes(w, Idle) /\ timer' = FALSE
  BY <1>1, <1>3, <1>4, <1>6, <1>7, NothingToAuthorize
<1>9. Idle \in Calls /\ Baton(Idle) = "none" /\ GoesOnNext(Idle)
  BY CallTypes DEF Calls, Baton, Releasing, Idle, GoesOnNext, PayloadOK, ReleaseOK
<1>10. \A b : b # "none" => (Held(b, calls') <=> b # "attach" /\ Held(b, calls))
  BY <1>1, <1>8, <1>9, HandedOver, BasicGives DEF Calm
<1>11. /\ \A q \in Parties : Held(q, calls') <=> Held(q, calls)
       /\ ~Held("confirm", calls') /\ ~Held("release", calls') /\ ~Held("attach", calls')
  BY <1>2, <1>3, <1>10 DEF Parties
<1>12. (BothActive(store))' <=> BothActive(store)
  BY <1>5, <1>6 DEF BothActive
<1>13. ChainInv'
  BY <1>6 DEF Calm, ChainInv, chain
<1>14. ApprovalsInv'
  BY <1>5, <1>6, <1>11, <1>12 DEF Calm, ApprovalsInv, chain
<1>15. RequestInv'
  <2>1. confirmed' = confirmed /\ store' = new /\ (BothActive(store))'
    BY <1>2, <1>6, <1>12 DEF chain
  <2>2. store'.confirmation = 0 /\ store'.deadline = store'.releaseConfirmed
    BY <1>2, <1>5, <2>1 DEF Calm, RequestInv
  <2> QED BY <1>2, <1>5, <1>11, <2>1, <2>2 DEF RequestInv
<1>16. ReleaseInv'
  BY <1>3, <1>5, <1>6, <1>8, <1>11 DEF Calm, ReleaseInv, chain
<1> QED BY <1>2, <1>3, <1>5, <1>6, <1>8, <1>9, <1>13, <1>14, <1>15, <1>16, CalmMove

\* The snapshot is marked by whoever releases.
LEMMA MarksCalm ==
  ASSUME Basic, Smooth, Calm, store.exists, NEW w \in Slots, Baton(calls[w]) = "release",
         NEW c \in Calls, Goes(w, c), Baton(c) = "release", GoesOnNext(c),
         UNCHANGED <<chain, stages, late>>, ~timer',
         NEW a \in BOOLEAN, NEW t \in BOOLEAN, NEW e \in BOOLEAN,
         store' = [store EXCEPT !.releaseAuthorized = a, !.releaseSigned = t, !.releaseExecuted = e],
         store.releaseAuthorized => a, t => a /\ authorized, e => executed,
         store.releaseSigned => t, store.releaseExecuted => e
  PROVE  Calm'
<1>1. store \in Snapshots /\ late /\ store.releaseConfirmed
  BY CalmGives
<1>2. /\ store'.active = store.active /\ store'.nonce = store.nonce
      /\ store'.request = store.request /\ store'.confirmation = store.confirmation
      /\ store'.planApproved = store.planApproved
      /\ store'.releaseConfirmed = store.releaseConfirmed /\ store'.deadline = store.deadline
      /\ store'.disputeOpen = store.disputeOpen
      /\ store'.releaseAuthorized = a /\ store'.releaseSigned = t /\ store'.releaseExecuted = e
  BY <1>1 DEF Snapshots
<1>3. \A b : b # "none" => (Held(b, calls') <=> Held(b, calls))
      /\ Held("release", calls)
  BY HandedOver, BasicGives DEF Calm
<1>4. \A b \in Parties \cup {"attach", "confirm", "release"} : Held(b, calls') <=> Held(b, calls)
  BY <1>3 DEF Parties
<1>5. (BothActive(store))' <=> BothActive(store)
  BY <1>2 DEF BothActive
<1>6. ChainInv'
  BY DEF Calm, ChainInv, chain
<1>7. ApprovalsInv' /\ RequestInv'
  BY <1>2, <1>4, <1>5 DEF Calm, ApprovalsInv, RequestInv, chain
<1>8. ReleaseInv'
  BY <1>1, <1>2, <1>3, <1>4 DEF Calm, ReleaseInv, chain
<1> QED BY <1>2, <1>6, <1>7, <1>8, CalmMove

LEMMA MarkCalm ==
  ASSUME Basic, Smooth, Calm, store.exists, NEW w \in Slots, MarkAuthorized(w)
  PROVE  Calm'
<1> DEFINE c == [at |-> "read", by |-> "listener"]
<1>1. /\ Baton(calls[w]) = "release" /\ calls[w].by = "timer" /\ ~store.releaseAuthorized
      /\ calls[w].at = "mark"
  <2>1. calls[w].at = "mark"
    BY DEF MarkAuthorized, At
  <2> QED BY <2>1, CalmGives DEF GoesOn, ReleaseOK, Baton, Releasing
<1>2. ~timer /\ store \in Snapshots /\ boot = "ready"
  BY <1>1, CalmGives
<1>3. ~authorized /\ ~executed /\ store.releaseSigned = FALSE /\ store.releaseExecuted = FALSE
      /\ ~store.disputeOpen
  BY <1>1, <1>2 DEF Calm, ReleaseInv, ChainInv, Snapshots
<1>4. [store EXCEPT !.releaseAuthorized = TRUE].disputeOpen = store.disputeOpen
      /\ [store EXCEPT !.releaseAuthorized = TRUE] =
            [store EXCEPT !.releaseAuthorized = TRUE, !.releaseSigned = FALSE,
                          !.releaseExecuted = FALSE]
  BY <1>2, <1>3 DEF Snapshots
<1>5. Goes(w, c) /\ store' = [store EXCEPT !.releaseAuthorized = TRUE]
      /\ UNCHANGED <<chain, stages, late>> /\ timer' = timer
  BY <1>1, <1>2, <1>3, <1>4 DEF MarkAuthorized
<1>6. c \in Calls /\ Baton(c) = "release"
  BY CallTypes DEF Steps, Starters, Baton, Releasing
<1>7. GoesOnNext(c)
  <2>1. store'.releaseAuthorized /\ ~store'.releaseSigned /\ ~authorized'
    BY <1>2, <1>3, <1>5 DEF Snapshots, chain
  <2> QED BY <2>1 DEF GoesOnNext, PayloadOK, ReleaseOK
<1> HIDE DEF c
<1>8. store' = [store EXCEPT !.releaseAuthorized = TRUE, !.releaseSigned = FALSE,
                             !.releaseExecuted = FALSE]
  BY <1>4, <1>5
<1> QED BY <1>1, <1>2, <1>3, <1>5, <1>6, <1>7, <1>8, MarksCalm

LEMMA SignCalm ==
  ASSUME Basic, Smooth, Calm, store.exists, NEW w \in Slots, MarkReleaseSigned(w)
  PROVE  Calm'
<1> DEFINE c == [at |-> "signed", by |-> calls[w].by]
<1>1. /\ Baton(calls[w]) = "release" /\ authorized /\ ~executed /\ calls[w].by \in Starters
  <2>1. calls[w].at = "sign" /\ ~At(w, "idle")
    BY DEF MarkReleaseSigned, At
  <2> QED BY <2>1, Whereabouts, CalmGives DEF GoesOn, ReleaseOK, Baton, Releasing
<1>2. ~timer /\ store \in Snapshots
  BY <1>1, CalmGives
<1>3. store.releaseExecuted = FALSE
  BY <1>1, <1>2 DEF Calm, ReleaseInv, Snapshots
<1>4. /\ store' = [store EXCEPT !.releaseAuthorized = TRUE, !.releaseSigned = TRUE] /\ Goes(w, c)
      /\ UNCHANGED <<chain, stages, late>> /\ timer' = timer
  BY DEF MarkReleaseSigned, Moves
<1>5. c \in Calls /\ Baton(c) = "release"
  BY <1>1, CallTypes DEF Steps, Baton, Releasing
<1>6. GoesOnNext(c)
  <2>1. store'.releaseSigned /\ ~executed'
    BY <1>1, <1>2, <1>4 DEF Snapshots, chain
  <2> QED BY <2>1 DEF GoesOnNext, PayloadOK, ReleaseOK
<1> HIDE DEF c
<1>7. store' = [store EXCEPT !.releaseAuthorized = TRUE, !.releaseSigned = TRUE,
                             !.releaseExecuted = FALSE]
  BY <1>2, <1>3, <1>4 DEF Snapshots
<1> QED BY <1>1, <1>2, <1>3, <1>4, <1>5, <1>6, <1>7, MarksCalm

LEMMA ExecutedCalm ==
  ASSUME Basic, Smooth, Calm, store.exists, NEW w \in Slots, MarkReleaseExecuted(w)
  PROVE  Calm'
<1> DEFINE c == Publishing(w, "release_pending", "settle")
<1>1. /\ Baton(calls[w]) = "release" /\ executed /\ calls[w].by \in Starters
      /\ store.releaseSigned
  <2>1. calls[w].at = "executed" /\ ~At(w, "idle")
    BY DEF MarkReleaseExecuted, At
  <2> QED BY <2>1, Whereabouts, CalmGives DEF GoesOn, ReleaseOK, Baton, Releasing, Paid
<1>2. ~timer /\ store \in Snapshots
  BY <1>1, CalmGives
<1>3. authorized /\ store.releaseAuthorized = TRUE /\ store.releaseSigned = TRUE
  BY <1>1, <1>2 DEF Calm, ReleaseInv, ChainInv, Snapshots
<1>4. /\ store' = [store EXCEPT !.releaseExecuted = TRUE] /\ Goes(w, c)
      /\ UNCHANGED <<chain, stages, late>> /\ timer' = FALSE
  BY DEF MarkReleaseExecuted
<1>5. c \in Calls /\ Baton(c) = "release"
  BY <1>1, CallTypes DEF Publishing, Stages, Baton, Releasing
<1>6. GoesOnNext(c)
  <2>1. store'.releaseSigned /\ store'.releaseExecuted
    BY <1>2, <1>3, <1>4 DEF Snapshots
  <2> QED BY <2>1 DEF GoesOnNext, PayloadOK, ReleaseOK, Publishing
<1> HIDE DEF c
<1>7. store' = [store EXCEPT !.releaseAuthorized = TRUE, !.releaseSigned = TRUE,
                             !.releaseExecuted = TRUE]
  BY <1>2, <1>3, <1>4 DEF Snapshots
<1> QED BY <1>1, <1>2, <1>3, <1>4, <1>5, <1>6, <1>7, MarksCalm

\* The beginning: the parties are asked.
LEMMA InitializeCalm == ASSUME Basic, Smooth, NEW w \in Slots, Initialize(w) PROVE Calm'
<1> DEFINE c == Publishing(w, "awaiting_settlement_plan_approvals", "track_awaiting")
<1>1. Opening(calls[w]) /\ ~At(w, "idle") /\ calls[w].at # "prepare"
  BY DEF Opening, Initialize, At
<1>2. calls[w] # Idle /\ Unprepared /\ calls[w].by \in Starters
  BY <1>1, SmoothCall, Whereabouts
<1>3. state = "Settling" /\ \A v \in Slots \ {w} : calls[v] = Idle
  BY <1>1, <1>2 DEF Unprepared
<1>4. /\ Goes(w, c) /\ store' = Requested
      /\ UNCHANGED <<chain, stages, tracked, funded, timer, boot, late, history>>
  BY DEF Initialize
<1>5. calls' = [calls EXCEPT ![w] = c] /\ calls \in [Slots -> Calls]
  BY <1>4, BasicGives DEF Goes
<1>6. \A v \in Slots : calls'[v] \in {c, Idle}
  BY <1>3, <1>5
<1>7. Baton(c) = "none" /\ Baton(Idle) = "none"
  BY DEF Baton, Releasing, Idle, Publishing
<1>8. GoesOnNext(c) /\ GoesOnNext(Idle)
  BY DEF GoesOnNext, PayloadOK, ReleaseOK, Idle, Publishing
<1> HIDE DEF c
<1>9. OneHolder(calls') /\ \A b : b # "none" => ~Held(b, calls')
  BY <1>6, <1>7 DEF OneHolder, Held
<1>10. \A v \in Slots : GoesOn(calls[v])'
  BY <1>6, <1>8 DEF GoesOn, GoesOnNext
<1>11. /\ nonce = [p \in Parties |-> 0] /\ approved = {} /\ ~confirmed /\ window = "none"
       /\ ~authorized /\ ~executed /\ ~late /\ ~Published("failed") /\ ~timer
  <2>1. ~timer
    BY <1>1, SmoothCall DEF Basic, CallInv
  <2> QED BY <1>2, <2>1 DEF Unprepared
<1>12. UNCHANGED <<state, nonce, approved, confirmed, window, authorized, executed>>
       /\ late' = late /\ timer' = timer /\ stages' = stages
  BY <1>4 DEF chain
<1>13. ChainInv'
  BY <1>3, <1>11, <1>12 DEF ChainInv, Parties
<1>14. /\ \A p \in Parties : ~Requested.active[p] /\ Requested.nonce[p] = 0
       /\ Requested.request = 0 /\ Requested.confirmation = 0 /\ Requested.planApproved = FALSE
       /\ Requested.releaseConfirmed = FALSE /\ Requested.deadline = FALSE
       /\ ~Requested.disputeOpen /\ ~Requested.releaseAuthorized /\ ~Requested.releaseSigned
       /\ ~Requested.releaseExecuted /\ "buyer" \in Parties
  BY DEF Requested, Parties
<1>15. (\A p \in Parties : ~Held(p, calls')) /\ ~Held("attach", calls')
       /\ ~Held("confirm", calls') /\ ~Held("release", calls')
  BY <1>9 DEF Parties
<1>16. ~(BothActive(store))'
  BY <1>4, <1>14 DEF BothActive
<1>17. ApprovalsInv'
  BY <1>4, <1>11, <1>12, <1>14, <1>15, <1>16 DEF ApprovalsInv
<1>18. RequestInv'
  <2>1. ~confirmed' /\ store' = Requested
    BY <1>4, <1>11, <1>12
  <2>2. /\ store'.request = 0 /\ store'.confirmation = 0
        /\ ~store'.releaseConfirmed /\ store'.deadline = store'.releaseConfirmed
    BY <1>14, <2>1
  <2> QED BY <1>15, <1>16, <2>1, <2>2 DEF RequestInv
<1>19. ReleaseInv'
  BY <1>4, <1>11, <1>12, <1>14, <1>15 DEF ReleaseInv
<1>20. (~Published("failed"))'
  BY <1>11, <1>12 DEF Published
<1> QED BY <1>9, <1>10, <1>13, <1>17, <1>18, <1>19, <1>20 DEF Calm

\* Every step of an undisturbed release.
LEMMA CalmStep ==
  ASSUME Basic, SmoothInv, CalmInv, [Next]_vars
  PROVE  CalmInv'
<1> SUFFICES ASSUME ~Disturbed', store'.exists PROVE Calm'
  BY DEF CalmInv, Disturbed
<1>1. trouble' = "none" /\ trouble = "none" /\ ~objected /\ ~objected'
  BY History DEF Disturbed
<1>2. Smooth /\ (store.exists => Calm)
  BY <1>1 DEF SmoothInv, CalmInv, Disturbed
<1>3. ASSUME NEW w \in Slots, CallFails(w) PROVE FALSE
  BY <1>1, <1>3 DEF CallFails, Trouble
<1>4. ~Crash
  BY <1>1 DEF Crash, Trouble
<1>5. CASE ~store.exists
  <2>1. ASSUME NEW w \in Slots, Step(w) PROVE Initialize(w)
    <3>1. CASE Informed(calls[w])
      BY <1>5, <3>1 DEF Basic, CallInv
    <3>2. CASE ~Informed(calls[w]) /\ ~Initialize(w)
      <4>1. store' = store
        BY <2>1, <3>2
           DEF Step, Informed, At, PublishStage, Prepare, TrackAwaiting, SendPayload,
               RecordPayload, AttachBuyerReleaseRequest, MarkAuthorized, ReadState, Approve,
               MarkReleaseSigned, PublishSigned, ReadSigned, Execute, MarkReleaseExecuted,
               PublishSettled, Track, rows
      <4> QED BY <1>5, <4>1
    <3> QED BY <3>1, <3>2
  <2>2. CASE \E w \in Slots : Step(w)
    BY <1>2, <2>1, <2>2, InitializeCalm
  <2>3. CASE ~\E w \in Slots : Step(w)
    <3>1. store' = store
      BY <1>3, <1>4, <2>3
         DEF Next, ProcessAgentSubmission, ReceiveMessage, TimerFires, DeadlinePasses,
             WindowEnds, ResolveDispute, RecoverPipeline, FinalizeSessions, vars, rows
    <3> QED BY <1>5, <3>1
  <2> QED BY <2>2, <2>3
<1>6. CASE store.exists
  <2>1. Calm
    BY <1>2, <1>6
  <2>2. ASSUME NEW w \in Slots, Step(w) PROVE Calm'
    <3>1. ~Prepare(w) /\ ~Initialize(w)
      BY <1>2, <1>6, <2>1, CalmGives DEF Opening, Prepare, Initialize, At
    <3> QED BY <1>2, <1>6, <2>1, <2>2, <3>1, PublishCalm, EndsCalm, SignedCalm, ReadCalm,
               SendCalm, RecordCalm, AttachCalm, MarkCalm, ApproveCalm, SignCalm, ExecuteCalm,
               ExecutedCalm DEF Step
  <2>3. ASSUME NEW p \in Parties, ProcessAgentSubmission(p) PROVE FALSE
    BY <1>1, <1>2, <1>6, <2>3 DEF ProcessAgentSubmission, Trouble, Smooth, Prepared
  <2>4. ASSUME NEW p \in Parties, NEW kind \in Kinds, ReceiveMessage(p, kind) PROVE Calm'
    BY <1>1, <1>2, <1>6, <2>1, <2>4, ReceiveCalm
  <2>5. ~ResolveDispute
    BY <2>1 DEF ResolveDispute, Deal!Resolve, Calm, ChainInv
  <2>6. ~RecoverPipeline /\ ~FinalizeSessions
    BY <1>2 DEF RecoverPipeline, FinalizeSessions, Smooth
  <2> QED BY <1>2, <1>3, <1>4, <1>6, <2>1, <2>2, <2>3, <2>4, <2>5, <2>6, TimerCalm, ClocksCalm
          DEF Next
<1> QED BY <1>5, <1>6, BasicGives

-----------------------------------------------------------------------------
\* The invariant.
LEMMA InitInv == Init => IInv
BY InitBasic, InitSmooth DEF IInv, CalmInv, Init, NoSnapshot

LEMMA NextKeeps == IInv /\ [Next]_vars => IInv'
BY BasicStep, SmoothStep, CalmStep DEF IInv

LEMMA Inductive == Spec => []IInv
BY InitInv, NextKeeps, PTL DEF Spec

\* Every variable has its type and a stage has one row, however the handlers, the timer,
\* the listener, a crash and a restart interleave.
THEOREM TypeCorrect == Spec => []TypeOK
<1>1. IInv => TypeOK
  BY DEF IInv, Basic
<1> QED BY <1>1, Inductive, PTL

\* What the agent has written down as settled, in a stage, a snapshot or the tracker, has
\* been paid out: executeConfidentialRelease comes before all of them, and no dispute, fault
\* or restart undoes an execution.
THEOREM SettledWasExecuted == Spec => []SettledIsExecuted
<1>1. IInv => SettledIsExecuted
  BY DEF IInv, Basic
<1> QED BY <1>1, Inductive, PTL

\* The pipeline of an undisturbed release never publishes failed: the chain accepts every
\* transaction the agent sends on its own, for any number of calls in progress.
THEOREM FailsOnlyForAReason == Spec => []FailsForAReason
<1>1. ASSUME IInv PROVE FailsForAReason
  <2> SUFFICES ASSUME ~Disturbed PROVE ~Published("failed")
    BY DEF FailsForAReason
  <2>1. CASE store.exists
    BY <1>1, <2>1 DEF IInv, CalmInv, Calm
  <2>2. CASE ~store.exists
    BY <1>1, <2>2 DEF IInv, SmoothInv, Smooth, Unprepared, Disturbed
  <2> QED BY <2>1, <2>2
<1>2. IInv => FailsForAReason
  BY <1>1
<1> QED BY <1>2, Inductive, PTL

\* When no call is in progress the snapshot of an undisturbed release is the deal on chain,
\* and the chain accepts the answer to the request the buyer was sent; a dispute on chain
\* is in the snapshot.
THEOREM SnapshotIsTheChain == Spec => []SnapshotAgrees
<1>1. ASSUME IInv PROVE SnapshotAgrees
  <2> SUFFICES ASSUME AtRest, trouble = "none", store.exists
               PROVE  /\ state = "Disputed" => store.disputeOpen /\ ~timer
                      /\ ~objected =>
                            /\ store.planApproved <=> approved = Parties
                            /\ store.releaseConfirmed <=> confirmed
                            /\ store.releaseSigned <=> authorized
                            /\ store.releaseExecuted <=> executed
                            /\ store.planApproved /\ ~confirmed => Deal!CanConfirm(store.request)
    BY DEF SnapshotAgrees
  <2>1. Basic /\ Smooth
    BY <1>1 DEF IInv, SmoothInv
  <2>2. \A w \in Slots : calls[w] = Idle
    BY <2>1, BasicGives, IdleAt DEF AtRest, At
  <2>3. state = "Disputed" => store.disputeOpen /\ ~timer
    BY <2>1, <2>2 DEF Smooth, Disputing, Idle, Basic, CallInv
  <2>4. ASSUME ~objected
        PROVE  /\ store.planApproved <=> approved = Parties
               /\ store.releaseConfirmed <=> confirmed
               /\ store.releaseSigned <=> authorized
               /\ store.releaseExecuted <=> executed
               /\ store.planApproved /\ ~confirmed => Deal!CanConfirm(store.request)
    <3>1. Calm
      BY <1>1, <2>4 DEF IInv, CalmInv, Disturbed
    <3>2. \A b : b # "none" => ~Held(b, calls)
      BY <2>2 DEF Held, Baton, Releasing, Idle
    <3>3. (\A p \in Parties : ~Held(p, calls)) /\ ~Held("attach", calls)
          /\ ~Held("confirm", calls) /\ ~Held("release", calls)
      BY <3>2 DEF Parties
    <3>4. store.planApproved <=> approved = Parties
      <4>1. \A p \in Parties : p \in approved <=> store.active[p]
        BY <3>1, <3>3 DEF Calm, ApprovalsInv
      <4>2. approved \in SUBSET Parties
        BY <2>1, BasicGives DEF Deal!TypeOK
      <4>3. store.planApproved <=> \A p \in Parties : store.active[p]
        BY <3>1 DEF Calm, ApprovalsInv, BothActive
      <4> QED BY <4>1, <4>2, <4>3
    <3>5. store.releaseConfirmed <=> confirmed
      BY <3>1, <3>3 DEF Calm, RequestInv
    <3>6. (store.releaseSigned <=> authorized) /\ (store.releaseExecuted <=> executed)
      BY <3>1, <3>3 DEF Calm, ReleaseInv
    <3>7. ASSUME store.planApproved, ~confirmed PROVE Deal!CanConfirm(store.request)
      <4>1. store.request = 2 /\ approved = Parties /\ ~authorized /\ ~executed
        BY <3>1, <3>3, <3>4, <3>7 DEF Calm, ApprovalsInv, RequestInv, ChainInv
      <4>2. state = "Settling"
        BY <2>1, <3>1, <4>1 DEF Smooth, Prepared, Calm, ChainInv
      <4>3. nonce["buyer"] = 1
        BY <3>1, <3>7, <4>1 DEF Calm, ChainInv, Parties
      <4> QED BY <4>1, <4>2, <4>3
              DEF Deal!CanConfirm, Deal!CanSubmit, Deal!Negotiable, Deal!Fresh
    <3> QED BY <3>4, <3>5, <3>6, <3>7
  <2> QED BY <2>3, <2>4
<1>2. IInv => SnapshotAgrees
  BY <1>1
<1> QED BY <1>2, Inductive, PTL

-----------------------------------------------------------------------------
(***************************************************************************)
(* The private session in which the terms of such a ticket were            *)
(* negotiated, before its release: what the rollup service keeps of it,    *)
(* for any terms, number of retries and number of crashes.  It has a state *)
(* of its own.  The invariant says how far the account has come for each   *)
(* step under way or waiting in a queue: a step that may forget the        *)
(* session or close its permission is reached only after the account has   *)
(* left the validator.                                                     *)
(***************************************************************************)
CONSTANTS Terms, RetryMax, MaxCrashes

VARIABLES live, crashes, permq, pc

Session == INSTANCE NegotiationSession

\* While a session is being opened its account is untouched and nothing else knows it.
SessionOpening ==
    /\ stage = "new" => owner = "none"
    /\ stage \in {"init", "permission"} => owner = "program"
    /\ stage = "delegated" => owner = "validator"
    /\ stage = "done" => owner \in {"program", "validator", "returning"}
    /\ stage # "done" => /\ base = Session!Fresh /\ live = Session!Fresh /\ perm # "closed"
                         /\ owner # "returning"
                         /\ active = "none" /\ queue = 0 /\ permq = 0 /\ journal = Session!NoRow
                         /\ \A p \in Session!Closers : pc[p] = "idle"

\* What has been committed has left the validator.
CommittedInv ==
    /\ \A p \in Session!Closers : pc[p] = "return" => owner # "validator"
    /\ \A p \in Session!Closers : pc[p] = "permission" => owner = "program"
    /\ permq > 0 \/ journal.phase = "pending_per_close" =>
          owner # "validator" /\ (mode = "delegated" => owner = "program")

\* A queued session has been tried.
QueuedInv == journal.phase = "pending_er_undelegation" => journal.attempts > 0

\* What is about to be committed has been scrubbed.
ScrubInv ==
    private =>
        /\ \A p \in Session!Closers :
               pc[p] = "commit" /\ owner = "validator" => live.status = "handoff"
        /\ live.status = "handoff" => live.terms = NoTerms \/ "late" \in mishaps
        /\ stage = "done" /\ owner \in {"returning", "program"} =>
              live.terms = NoTerms \/ mishaps \cap {"late", "retried"} # {}

SessionInv ==
    /\ Session!TypeOK /\ SessionOpening /\ CommittedInv /\ QueuedInv /\ ScrubInv
    /\ NothingForgotten /\ PermissionOutlivesSession /\ ScrubbedOrLate
-----------------------------------------------------------------------------
USE DEF Session!NegotiationAssumption, Session!Closers, Session!Copies, Session!Fresh,
   Session!Phases, Session!NoRow, Session!Mishaps

LEMMA AttemptsGrow ==
    ASSUME Session!NegotiationAssumption, NEW n \in 0..RetryMax
    PROVE  Session!NextAttempt(n) \in 0..RetryMax /\ Session!NextAttempt(n) > 0
  BY DEF Session!NextAttempt

LEMMA OwnerReturnsKeeps ==
    ASSUME Session!NegotiationAssumption
    PROVE  SessionInv /\ Session!OwnerReturns => SessionInv'
  BY DEF Session!OwnerReturns, Session!chain, Session!memory, SessionInv, Session!TypeOK,
     SessionOpening, CommittedInv, QueuedInv, ScrubInv, NothingForgotten,
     PermissionOutlivesSession, ScrubbedOrLate, GivenUp

LEMMA InitializeKeeps ==
    ASSUME Session!NegotiationAssumption
    PROVE  SessionInv /\ Session!initializeSession => SessionInv'
  BY DEF Session!initializeSession, Session!chain, Session!memory, SessionInv, Session!TypeOK,
     SessionOpening, CommittedInv, QueuedInv, ScrubInv, NothingForgotten,
     PermissionOutlivesSession, ScrubbedOrLate, GivenUp

LEMMA CreatePermissionKeeps ==
    ASSUME Session!NegotiationAssumption
    PROVE  SessionInv /\ Session!createPrivatePermission => SessionInv'
  BY DEF Session!createPrivatePermission, Session!chain, Session!memory, SessionInv,
     Session!TypeOK, SessionOpening, CommittedInv, QueuedInv, ScrubInv, NothingForgotten,
     PermissionOutlivesSession, ScrubbedOrLate, GivenUp

LEMMA DelegateKeeps ==
    ASSUME Session!NegotiationAssumption
    PROVE  SessionInv /\ Session!delegateSession => SessionInv'
  BY DEF Session!delegateSession, Session!chain, Session!memory, SessionInv, Session!TypeOK,
     SessionOpening, CommittedInv, QueuedInv, ScrubInv, NothingForgotten,
     PermissionOutlivesSession, ScrubbedOrLate, GivenUp

LEMMA RegisterKeeps ==
    ASSUME Session!NegotiationAssumption
    PROVE  SessionInv /\ Session!registerSession => SessionInv'
  BY DEF Session!registerSession, Session!chain, Session!memory, SessionInv, Session!TypeOK,
     SessionOpening, CommittedInv, QueuedInv, ScrubInv, NothingForgotten,
     PermissionOutlivesSession, ScrubbedOrLate, GivenUp

LEMMA OpenFailsKeeps ==
    ASSUME Session!NegotiationAssumption
    PROVE  SessionInv /\ Session!openFails => SessionInv'
  BY DEF Session!openFails, Session!Opening, Session!chain, Session!memory, SessionInv,
     Session!TypeOK, SessionOpening, CommittedInv, QueuedInv, ScrubInv, NothingForgotten,
     PermissionOutlivesSession, ScrubbedOrLate, GivenUp

LEMMA ConsensusKeeps ==
    ASSUME Session!NegotiationAssumption
    PROVE  SessionInv /\ Session!finalizeRollupConsensus => SessionInv'
  BY DEF Session!finalizeRollupConsensus, Session!Lands, Session!reach_consensus, Session!chain,
     Session!memory, SessionInv, Session!TypeOK, SessionOpening, CommittedInv, QueuedInv,
     ScrubInv, NothingForgotten, PermissionOutlivesSession,
     ScrubbedOrLate, GivenUp

LEMMA RecordProofKeeps ==
    ASSUME Session!NegotiationAssumption
    PROVE  SessionInv /\ Session!recordPrivateHandoffProof => SessionInv'
  BY DEF Session!recordPrivateHandoffProof, Session!Fails, Session!Lands,
     Session!record_private_handoff_proof, Session!chain, Session!memory, SessionInv,
     Session!TypeOK, SessionOpening, CommittedInv, QueuedInv, ScrubInv, NothingForgotten,
     PermissionOutlivesSession, ScrubbedOrLate, GivenUp

LEMMA CompleteKeeps ==
    ASSUME Session!NegotiationAssumption
    PROVE  SessionInv /\ Session!completeSession => SessionInv'
  BY DEF Session!completeSession, Session!chain, Session!memory, SessionInv, Session!TypeOK,
     SessionOpening, CommittedInv, QueuedInv, ScrubInv, NothingForgotten,
     PermissionOutlivesSession, ScrubbedOrLate, GivenUp

LEMMA CrashKeeps ==
    ASSUME Session!NegotiationAssumption
    PROVE  SessionInv /\ Session!crash => SessionInv'
  <1> SUFFICES ASSUME SessionInv, Session!crash PROVE SessionInv' OBVIOUS
  <1> USE DEF Session!crash, Session!Opening, Session!chain
  <1>1. Session!TypeOK'
    <2>1. crashes' \in 0..MaxCrashes BY DEF SessionInv, Session!TypeOK
    <2>2. 0 \in 0..RetryMax OBVIOUS
    <2>3. stage' \in {"new", "init", "permission", "delegated", "done", "failed"}
      BY DEF SessionInv, Session!TypeOK
    <2>4. pc' \in [Session!Closers -> {"idle", "prepare", "commit", "return", "permission"}] OBVIOUS
    <2>5. up' \in BOOLEAN OBVIOUS
    <2>6. UNCHANGED <<private, owner, base, live, perm, mode, journal, mishaps>> OBVIOUS
    <2>7. QED BY <2>1, <2>2, <2>3, <2>4, <2>5, <2>6 DEF SessionInv, Session!TypeOK
  <1>2. \A p \in Session!Closers : pc'[p] = "idle" OBVIOUS
  <1>3. SessionOpening'
    <2>1. CASE stage \in Session!Opening \ {"new"} BY <1>2, <2>1 DEF SessionInv, Session!TypeOK,
      SessionOpening
    <2>2. CASE stage \notin Session!Opening \ {"new"} BY <1>2, <2>2 DEF SessionInv,
      Session!TypeOK, SessionOpening
    <2>3. QED BY <2>1, <2>2
  <1>4. CommittedInv' BY <1>2 DEF SessionInv, CommittedInv
  <1>5. QueuedInv' BY DEF SessionInv, QueuedInv
  <1>6. stage' = "done" <=> stage = "done" BY DEF SessionInv, Session!TypeOK
  <1>7. ScrubInv' BY <1>2, <1>6 DEF SessionInv, ScrubInv
  <1>8. NothingForgotten' /\ PermissionOutlivesSession' /\ ScrubbedOrLate'
    BY <1>6 DEF SessionInv, NothingForgotten, PermissionOutlivesSession,
       ScrubbedOrLate
  <1>9. QED BY <1>1, <1>3, <1>4, <1>5, <1>7, <1>8 DEF SessionInv

LEMMA ReconcileKeeps ==
    ASSUME Session!NegotiationAssumption
    PROVE  SessionInv /\ Session!reconcile => SessionInv'
  <1> SUFFICES ASSUME SessionInv, Session!reconcile PROVE SessionInv' OBVIOUS
  <1> USE DEF Session!reconcile, Session!chain, Session!memory
  <1>1. Session!TypeOK'
    <2>1. journal.attempts \in 0..RetryMax BY DEF SessionInv, Session!TypeOK
    <2>2. queue' \in 0..RetryMax /\ permq' \in 0..RetryMax BY <2>1 DEF SessionInv, Session!TypeOK
    <2>3. active' \in {"none", "timed", "untimed"} /\ mishaps' \subseteq Session!Mishaps
      BY DEF SessionInv, Session!TypeOK
    <2>4. QED BY <2>2, <2>3 DEF SessionInv, Session!TypeOK
  <1>2. journal.phase # "none" => stage = "done" BY DEF SessionInv, SessionOpening
  <1>3. SessionOpening'
    <2>1. CASE journal.phase = "none" BY <2>1 DEF SessionInv, SessionOpening
    <2>2. CASE stage = "done" BY <2>2 DEF SessionInv, SessionOpening
    <2>3. QED BY <1>2, <2>1, <2>2
  <1>4. CommittedInv' BY DEF SessionInv, Session!TypeOK, CommittedInv
  <1>5. QueuedInv' BY DEF SessionInv, QueuedInv
  <1>6. mishaps \subseteq mishaps' OBVIOUS
  <1>7. ScrubInv' BY <1>6 DEF SessionInv, ScrubInv
  <1>8. NothingForgotten'
    <2>1. SUFFICES ASSUME stage = "done", owner = "validator"
                   PROVE  /\ journal.phase # "none"
                          /\ ~GivenUp' => active' # "none" \/ queue' > 0
      BY DEF NothingForgotten
    <2>2. journal.phase \in {"active", "pending_er_undelegation"}
      BY <2>1 DEF SessionInv, Session!TypeOK, NothingForgotten, CommittedInv
    <2>3. CASE journal.phase = "active" BY <2>3 DEF GivenUp
    <2>4. CASE journal.phase = "pending_er_undelegation" BY <2>4 DEF SessionInv, QueuedInv
    <2>5. QED BY <2>2, <2>3, <2>4
  <1>9. PermissionOutlivesSession' BY DEF SessionInv, PermissionOutlivesSession
  <1>10. ScrubbedOrLate' BY <1>6 DEF SessionInv, ScrubbedOrLate
  <1>11. QED BY <1>1, <1>3, <1>4, <1>5, <1>7, <1>8, <1>9, <1>10 DEF SessionInv

LEMMA SubmitKeeps ==
    ASSUME Session!NegotiationAssumption, SessionInv, NEW t \in Terms,
           Session!submitRollupTerms(t)
    PROVE  SessionInv'
  BY DEF Session!submitRollupTerms, Session!Lands, Session!negotiate_terms, Session!chain,
     Session!memory, SessionInv, Session!TypeOK, SessionOpening, CommittedInv, QueuedInv,
     ScrubInv, NothingForgotten, PermissionOutlivesSession,
     ScrubbedOrLate, GivenUp

LEMMA BeginKeeps ==
    ASSUME Session!NegotiationAssumption, SessionInv, NEW p \in Session!Closers,
           Session!begin(p)
    PROVE  SessionInv'
  BY DEF Session!begin, Session!chain, Session!memory, SessionInv, Session!TypeOK, SessionOpening,
     CommittedInv, QueuedInv, ScrubInv, NothingForgotten,
     PermissionOutlivesSession, ScrubbedOrLate, GivenUp

\* Giving up a step leaves the session tracked, or queues it; the scrub may have landed.
LEMMA ThrowKeeps ==
    ASSUME Session!NegotiationAssumption, SessionInv, NEW p \in Session!Closers,
           Session!Throw(p), stage = "done",
           live' = live \/ (owner = "validator" /\ live' = Session!prepare_private_handoff),
           UNCHANGED <<private, stage, owner, base, perm, mode, up, crashes, permq>>
    PROVE  SessionInv'
  <1> USE DEF Session!Throw, Session!prepare_private_handoff
  <1>1. 1 \in 0..RetryMax OBVIOUS
  <1>2. \A c \in Session!Closers : pc'[c] = pc[c] \/ pc'[c] = "idle" BY DEF SessionInv,
      Session!TypeOK
  <1>3. mishaps \subseteq mishaps' OBVIOUS
  <1>4. Session!TypeOK'
    <2>1. queue' \in 0..RetryMax /\ journal' \in [phase: Session!Phases, attempts: 0..RetryMax]
      BY <1>1 DEF SessionInv, Session!TypeOK
    <2>2. active' \in {"none", "timed", "untimed"} /\ mishaps' \subseteq Session!Mishaps
      BY DEF SessionInv, Session!TypeOK
    <2>3. pc' \in [Session!Closers -> {"idle", "prepare", "commit", "return", "permission"}]
      BY DEF SessionInv, Session!TypeOK
    <2>4. live' \in Session!Copies BY DEF SessionInv, Session!TypeOK
    <2>5. QED BY <2>1, <2>2, <2>3, <2>4 DEF SessionInv, Session!TypeOK
  <1>5. SessionOpening' BY DEF SessionInv, SessionOpening
  <1>6. CommittedInv'
    <2>1. journal'.phase = "pending_per_close" => journal' = journal OBVIOUS
    <2>2. QED BY <1>2, <2>1 DEF SessionInv, CommittedInv
  <1>7. QueuedInv' BY DEF SessionInv, QueuedInv
  <1>8. ScrubInv' BY <1>2, <1>3 DEF SessionInv, ScrubInv
  <1>9. NothingForgotten' BY DEF SessionInv, NothingForgotten, GivenUp
  <1>10. PermissionOutlivesSession' BY DEF SessionInv, PermissionOutlivesSession
  <1>11. ScrubbedOrLate' BY <1>3 DEF SessionInv, ScrubbedOrLate
  <1>12. QED BY <1>4, <1>5, <1>6, <1>7, <1>8, <1>9, <1>10, <1>11 DEF SessionInv

LEMMA PrepareKeeps ==
    ASSUME Session!NegotiationAssumption, SessionInv, NEW p \in Session!Closers,
           Session!closerStep(p), Session!preparePrivateHandoff(p)
    PROVE  SessionInv'
  <1> USE DEF Session!closerStep, Session!chain, Session!memory
  <1>0. stage = "done" BY DEF Session!preparePrivateHandoff, SessionInv, SessionOpening
  <1>1. CASE /\ Session!Lands(Session!prepare_private_handoff, "validator")
             /\ Session!Goto(p, "commit")
    BY <1>1 DEF Session!preparePrivateHandoff, Session!Goto, Session!Lands,
       Session!prepare_private_handoff, SessionInv, Session!TypeOK, SessionOpening, CommittedInv,
       QueuedInv, ScrubInv, NothingForgotten, PermissionOutlivesSession,
       ScrubbedOrLate, GivenUp
  <1>2. CASE Session!Lands(Session!prepare_private_handoff, "validator") /\ Session!Throw(p)
    BY <1>0, <1>2, ThrowKeeps DEF Session!preparePrivateHandoff, Session!Lands
  <1>3. CASE UNCHANGED Session!chain /\ Session!Throw(p)
    BY <1>0, <1>3, ThrowKeeps DEF Session!preparePrivateHandoff
  <1>4. QED BY <1>1, <1>2, <1>3 DEF Session!preparePrivateHandoff, Session!Fails

LEMMA CommitKeeps ==
    ASSUME Session!NegotiationAssumption, SessionInv, NEW p \in Session!Closers,
           Session!closerStep(p), Session!commitSession(p)
    PROVE  SessionInv'
  BY DEF Session!closerStep, Session!commitSession, Session!Goto, Session!Throw, Session!Done,
     Session!Fails, Session!Lands, Session!reach_consensus, Session!commit_private_permission,
     Session!chain, Session!memory, SessionInv, Session!TypeOK, SessionOpening, CommittedInv,
     QueuedInv, ScrubInv, NothingForgotten, PermissionOutlivesSession,
     ScrubbedOrLate, GivenUp

\* Queueing a permission forgets nothing that is still with the validator.
LEMMA QueuePermissionKeeps ==
    ASSUME Session!NegotiationAssumption, SessionInv, NEW p \in Session!Closers,
           Session!queuePermissionCloseRetry(p), stage = "done",
           owner # "validator", mode = "delegated" => owner = "program",
           perm' \in {perm, "closed"}, UNCHANGED <<private, stage, Session!chain, mode, up, crashes>>
    PROVE  SessionInv'
  <1> USE DEF Session!queuePermissionCloseRetry, Session!Done, Session!chain
  <1>1. permq' \in 0..RetryMax BY AttemptsGrow DEF SessionInv, Session!TypeOK
  <1>2. Session!TypeOK' BY <1>1 DEF SessionInv, Session!TypeOK
  <1>3. SessionOpening' BY DEF SessionInv, SessionOpening
  <1>4. \A c \in Session!Closers : pc'[c] = pc[c] \/ pc'[c] = "idle" BY DEF SessionInv,
      Session!TypeOK
  <1>5. CommittedInv' BY <1>4 DEF SessionInv, CommittedInv
  <1>6. ScrubInv' BY <1>4 DEF SessionInv, ScrubInv
  <1>7. /\ PermissionOutlivesSession' /\ QueuedInv'
        /\ NothingForgotten' /\ ScrubbedOrLate'
    BY DEF SessionInv, PermissionOutlivesSession, QueuedInv, NothingForgotten,
       ScrubbedOrLate, SessionOpening
  <1>8. QED BY <1>2, <1>3, <1>5, <1>6, <1>7 DEF SessionInv

LEMMA AwaitKeeps ==
    ASSUME Session!NegotiationAssumption, SessionInv, NEW p \in Session!Closers,
           Session!closerStep(p), Session!waitForOwnerReturn(p)
    PROVE  SessionInv'
  <1> USE DEF Session!closerStep, Session!chain, Session!memory
  <1>0. stage = "done" BY DEF Session!waitForOwnerReturn, SessionInv, SessionOpening
  <1>1. CASE owner = "program" /\ Session!Goto(p, "permission") /\ UNCHANGED permq
    BY <1>1 DEF Session!waitForOwnerReturn, Session!Goto, SessionInv, Session!TypeOK,
       SessionOpening, CommittedInv, QueuedInv, ScrubInv, NothingForgotten,
       PermissionOutlivesSession, ScrubbedOrLate, GivenUp
  <1>2. CASE mode = "delegated" /\ Session!Throw(p) /\ UNCHANGED permq
    BY <1>0, <1>2, ThrowKeeps DEF Session!waitForOwnerReturn
  <1>3. CASE mode = "fallback" /\ Session!queuePermissionCloseRetry(p)
    <2>1. stage = "done" /\ owner # "validator"
      BY DEF Session!waitForOwnerReturn, SessionInv, SessionOpening, CommittedInv
    <2>2. QED BY <1>3, <2>1, QueuePermissionKeeps DEF Session!waitForOwnerReturn
  <1>4. QED BY <1>1, <1>2, <1>3 DEF Session!waitForOwnerReturn

LEMMA CloseKeeps ==
    ASSUME Session!NegotiationAssumption, SessionInv, NEW p \in Session!Closers,
           Session!closerStep(p), Session!closePermissionOnL1(p)
    PROVE  SessionInv'
  <1> USE DEF Session!closerStep, Session!chain, Session!memory
  <1>1. CASE perm = "open" /\ perm' = "closed" /\ Session!Done(p) /\ UNCHANGED permq
    BY <1>1 DEF Session!closePermissionOnL1, Session!Done, SessionInv, Session!TypeOK,
       SessionOpening, CommittedInv, QueuedInv, ScrubInv, NothingForgotten,
       PermissionOutlivesSession, ScrubbedOrLate, GivenUp
  <1>2. CASE perm' \in {perm, "closed"} /\ Session!queuePermissionCloseRetry(p)
    <2>1. stage = "done" /\ owner = "program"
      BY DEF Session!closePermissionOnL1, SessionInv, SessionOpening, CommittedInv
    <2>2. QED BY <1>2, <2>1, QueuePermissionKeeps DEF Session!closePermissionOnL1
  <1>3. QED BY <1>1, <1>2 DEF Session!closePermissionOnL1

LEMMA RetryKeeps ==
    ASSUME Session!NegotiationAssumption
    PROVE  SessionInv /\ Session!retryFailedUndelegations => SessionInv'
  BY AttemptsGrow DEF Session!retryFailedUndelegations, Session!Fails, Session!Lands,
     Session!reach_consensus, Session!chain, Session!memory, SessionInv, Session!TypeOK,
     SessionOpening, CommittedInv, QueuedInv, ScrubInv, NothingForgotten,
     PermissionOutlivesSession, ScrubbedOrLate, GivenUp

LEMMA RetryPermissionKeeps ==
    ASSUME Session!NegotiationAssumption
    PROVE  SessionInv /\ Session!retryFailedPermissionCloses => SessionInv'
  BY AttemptsGrow DEF Session!retryFailedPermissionCloses, Session!chain, Session!memory,
     SessionInv, Session!TypeOK, SessionOpening, CommittedInv, QueuedInv, ScrubInv,
     NothingForgotten, PermissionOutlivesSession, ScrubbedOrLate,
     GivenUp

LEMMA SessionNext ==
    ASSUME Session!NegotiationAssumption
    PROVE  SessionInv /\ [Session!Next]_(Session!vars) => SessionInv'
  <1> SUFFICES ASSUME SessionInv, [Session!Next]_(Session!vars) PROVE SessionInv' OBVIOUS
  <1>1. ASSUME NEW t \in Terms, Session!submitRollupTerms(t) PROVE SessionInv'
    BY <1>1, SubmitKeeps
  <1>2. ASSUME NEW p \in Session!Closers, Session!begin(p) PROVE SessionInv' BY <1>2, BeginKeeps
  <1>3. ASSUME Session!timeoutFires PROVE SessionInv'
    <2>1. Session!begin("force") BY <1>3 DEF Session!timeoutFires
    <2>2. QED BY <2>1, BeginKeeps
  <1>4. ASSUME NEW p \in Session!Closers, Session!closerStep(p) PROVE SessionInv'
    BY <1>4, PrepareKeeps, CommitKeeps, AwaitKeeps, CloseKeeps DEF Session!closerStep
  <1>5. ASSUME UNCHANGED Session!vars PROVE SessionInv'
    BY <1>5 DEF Session!vars, Session!chain, Session!memory, SessionInv, Session!TypeOK,
       SessionOpening, CommittedInv, QueuedInv, ScrubInv, NothingForgotten,
       PermissionOutlivesSession, ScrubbedOrLate, GivenUp
  <1>6. QED
    BY <1>1, <1>2, <1>3, <1>4, <1>5, OwnerReturnsKeeps, InitializeKeeps, CreatePermissionKeeps,
       DelegateKeeps, RegisterKeeps, OpenFailsKeeps, ConsensusKeeps, RecordProofKeeps,
       CompleteKeeps, CrashKeeps, ReconcileKeeps, RetryKeeps, RetryPermissionKeeps
    DEF Session!Next

LEMMA SessionInvariant ==
    ASSUME Session!NegotiationAssumption
    PROVE  Session!Spec => []SessionInv
  <1>1. Session!Init => SessionInv
    BY DEF Session!Init, SessionInv, Session!TypeOK, SessionOpening, CommittedInv, QueuedInv,
       ScrubInv, NothingForgotten, PermissionOutlivesSession,
       ScrubbedOrLate, GivenUp
  <1>2. QED BY <1>1, SessionNext, PTL DEF Session!Spec

LEMMA SessionGives ==
    SessionInv => /\ Session!TypeOK /\ NothingForgotten
                  /\ PermissionOutlivesSession /\ ScrubbedOrLate
  BY DEF SessionInv
-----------------------------------------------------------------------------
\* Every variable keeps its type, whatever fails; attempts stay below the limit.
THEOREM SessionTypeCorrect ==
    ASSUME Session!NegotiationAssumption
    PROVE  Session!Spec => []Session!TypeOK
  BY SessionInvariant, SessionGives, PTL

\* An opened session that is still with the validator is in the journal, and tracked in
\* memory unless the service gave it up, whichever closers, retries and crashes interleave.
THEOREM SessionsAreRemembered ==
    ASSUME Session!NegotiationAssumption
    PROVE  Session!Spec => []NothingForgotten
  BY SessionInvariant, SessionGives, PTL

\* The permission of a delegated private session is closed only once the session is back.
THEOREM PermissionsOutliveSessions ==
    ASSUME Session!NegotiationAssumption
    PROVE  Session!Spec => []PermissionOutlivesSession
  BY SessionInvariant, SessionGives, PTL

\* Terms of a private session reach L1 only if written after the scrub, or by the retry loop.
THEOREM TermsAreScrubbed ==
    ASSUME Session!NegotiationAssumption
    PROVE  Session!Spec => []ScrubbedOrLate
  BY SessionInvariant, SessionGives, PTL
=============================================================================
