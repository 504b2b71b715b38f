---------------------------- MODULE DepositProofs ----------------------------
(***************************************************************************)
(* Theorems about DepositWatch, for any amounts, transfers, watchers and   *)
(* faults.  A deposit is reported by whoever confirms its row, and a row   *)
(* is confirmed once, or by who could not write it; what stands behind a   *)
(* report is a transfer of its sender and amount, or an account that holds *)
(* everything, but for the rent and the dust.                              *)
(***************************************************************************)
EXTENDS DepositWatch, TLAPS

\* The deposits a transfer can stand for.
PaidBy(x) == {t \in Deposits :
    /\ x.from = IF t = "SellerCollateral" THEN "seller" ELSE "buyer"
    /\ Alike(x, t) \/ (t # "SellerCollateral" /\ Grouped(x))}
\* The deposits some transfer stands for, or that are of nothing.
Backed(xs) == {t \in Deposits : Amount(Deal, t) = 0 \/ \E i \in DOMAIN xs : t \in PaidBy(xs[i])}
FullyPaid(sum) == sum + Rent + Dust >= AmountOf(Deposits)
Covered(ts) == ts \subseteq Backed(transfers) \/ FullyPaid(received)

\* There is an account, and room for its history.
AccountInv ==
    /\ status \in {"Created", "CollateralLocked", "PaymentLocked", "Refunded"}
    /\ Len(transfers) <= scene.transfers

\* A poll has a watcher, and marks what is flagged in f.
PollOK(q, f) ==
    /\ q \in Polls
    /\ q.pc # "idle" => q.of \in Watchers /\ q.seen \subseteq f
    /\ q.pc = "record" => q.left # {}
PollInv == \A p \in Pollers : PollOK(poll[p], locked)

\* A scan has a watcher and reads what is there; what it is about to confirm was paid, by the
\* transfer it looks at or by all of them.
Confirming(s) == s.pc \in {"confirm", "store"}
Totalling(s) == s.pc \in {"total", "totalStore"}
ScanOK(s, n, xs, sum) ==
    /\ s \in Scans(n)
    /\ s.pc # "idle" => s.of \in Watchers
    /\ s.balance <= sum + Rent
    /\ s.upto <= Len(xs)
    /\ s.pc = "look" \/ Confirming(s) => s.at >= 1
    /\ Confirming(s) => s.at <= s.upto /\ s.todo # {} /\ s.todo \subseteq PaidBy(xs[s.at])
    /\ Totalling(s) => s.todo # {} /\ s.balance + Dust >= AmountOf(Deposits)
ScanInv == \A w \in Scanners : ScanOK(scan[w], scene.transfers, transfers, received)

\* A scan begins with a poll of the account.
PairInv == \A w \in Scanners : poll[w].pc # "idle" => scan[w].pc = "polling"

\* What counts as deposited: the flags, the rows, and the events that are not handled yet.
Reported == {queue[i] : i \in DOMAIN queue}
            \cup IF handling = Nobody THEN {} ELSE {handling.type}
Claimed == locked \cup confirmed \cup Reported

\* A deposit that somebody is about to report is confirmed, is reported by nobody yet who wrote
\* its row, and nobody else is about to report it.
Reporting(s) == s.pc \in {"store", "totalStore"}
ReportInv ==
    /\ \A t \in Deposits : t \notin confirmed => published[t] <= unwritten[t]
    /\ \A w \in Scanners : Reporting(scan[w]) =>
           /\ First(scan[w].todo) \in confirmed
           /\ published[First(scan[w].todo)] <= unwritten[First(scan[w].todo)]
           /\ \A v \in Scanners \ {w} : Reporting(scan[v]) =>
                  First(scan[v].todo) # First(scan[w].todo)

\* What counts as deposited is covered by what the account received.
CoverInv == Covered(Claimed)

IInv == /\ TypeOK /\ AccountInv /\ PollInv /\ ScanInv /\ PairInv /\ ReportInv
        /\ ReportedOnce /\ CoverInv

\* What no step takes back.
Later ==
    /\ scene' = scene
    /\ locked \subseteq locked' /\ received <= received'
    /\ Len(transfers) <= Len(transfers')
    /\ \A i \in DOMAIN transfers : transfers'[i] = transfers[i]

-----------------------------------------------------------------------------
\* Operators.
LEMMA AmountType ==
  /\ \A t \in Deposits : Amount(Deal, t) \in Nat
  /\ \A ts \in SUBSET Deposits : AmountOf(ts) \in Nat
BY WatchAssumption DEF Amount, AmountOf, Flagged, Deposits

LEMMA AmountGrows ==
  ASSUME NEW ts, NEW us \in SUBSET Deposits, ts \subseteq us
  PROVE  AmountOf(ts) <= AmountOf(us)
<1>1. \A t \in Deposits : Amount(Deal, t) \in Nat
  BY AmountType
<1>2. \A t \in Deposits : Flagged(Deal, ts, t) \in Nat /\ Flagged(Deal, us, t) \in Nat
                         /\ Flagged(Deal, ts, t) <= Flagged(Deal, us, t)
  BY <1>1 DEF Flagged
<1> QED BY <1>2 DEF AmountOf, Deposits

LEMMA FirstIn ==
  ASSUME NEW ts \in SUBSET Deposits, ts # {}
  PROVE  First(ts) \in ts /\ First(ts) \in Deposits
<1>1. Rank["BuyerCollateral"] = 1 /\ Rank["SellerCollateral"] = 2 /\ Rank["BuyerPayment"] = 3
  BY DEF Rank
<1>2. \E t \in ts : \A u \in ts : Rank[t] <= Rank[u]
  <2>1. CASE "BuyerCollateral" \in ts
    BY <1>1, <2>1 DEF Deposits
  <2>2. CASE "BuyerCollateral" \notin ts /\ "SellerCollateral" \in ts
    BY <1>1, <2>2 DEF Deposits
  <2>3. CASE ts = {"BuyerPayment"}
    BY <1>1, <2>3
  <2> QED BY <2>1, <2>2, <2>3 DEF Deposits
<1> QED BY <1>2 DEF First

\* A transfer is taken only for what it can stand for.
LEMMA IdentifiedPaid ==
  ASSUME NEW E, NEW x \in Transfers
  PROVE  Identified(E, x) \subseteq PaidBy(x)
BY DEF Identified, PaidBy, Deposits, Transfers

LEMMA BackedGrows ==
  ASSUME TypeOK, Later
  PROVE  Backed(transfers) \subseteq Backed(transfers')
<1>1. DOMAIN transfers \subseteq DOMAIN transfers'
  BY DEF TypeOK, Later
<1> QED BY <1>1 DEF Backed, Later

-----------------------------------------------------------------------------
\* The account.
LEMMA Received ==
  ASSUME TypeOK, NEW x \in Transfers, Receive(x)
  PROVE  /\ transfers' \in Seq(Transfers) /\ received' \in Nat
         /\ received <= received' /\ returned' \in 0..received'
         /\ Len(transfers') = Len(transfers) + 1
         /\ \A i \in DOMAIN transfers : transfers'[i] = transfers[i]
         /\ PaidBy(x) \subseteq Backed(transfers')
<1>1. /\ transfers \in Seq(Transfers) /\ received \in Nat /\ x.amount \in Nat
      /\ transfers' = Append(transfers, x) /\ received' = received + x.amount
      /\ returned \in 0..received /\ returned' = returned
  BY DEF TypeOK, Receive, Transfers
<1>2. transfers'[Len(transfers')] = x /\ Len(transfers') \in DOMAIN transfers'
  BY <1>1
<1>3. PaidBy(x) \subseteq Backed(transfers')
  BY <1>2 DEF Backed, PaidBy
<1> QED BY <1>1, <1>3

LEMMA AccountStep ==
  ASSUME IInv, Next
  PROVE  /\ Later /\ AccountInv' /\ Chain!TypeOK'
         /\ transfers' \in Seq(Transfers) /\ received' \in Nat /\ returned' \in 0..received'
         /\ scene' \in Scenes /\ faults' \in 0..scene'.faults
         /\ locked' \subseteq Claimed \cup Backed(transfers')
<1> DEFINE Goal == /\ Later /\ AccountInv' /\ Chain!TypeOK'
                   /\ transfers' \in Seq(Transfers) /\ received' \in Nat
                   /\ returned' \in 0..received' /\ scene' \in Scenes /\ faults' \in 0..scene'.faults
                   /\ locked' \subseteq Claimed \cup Backed(transfers')
<1>0. /\ TypeOK /\ AccountInv /\ Chain!TypeOK
      /\ transfers \in Seq(Transfers) /\ received \in Nat /\ returned \in 0..received
      /\ locked \subseteq Claimed /\ scene \in Scenes /\ faults \in 0..scene.faults
      /\ scene.transfers \in Nat /\ scene.faults \in Nat /\ scene.payments \subseteq Transfers
  BY WatchAssumption DEF IInv, TypeOK, Claimed
<1>1. ASSUME UNCHANGED bounds \/ Fault
      PROVE  scene' = scene /\ faults' \in 0..scene'.faults
  BY <1>0, <1>1 DEF bounds, Fault
<1>2. ASSUME UNCHANGED chain, UNCHANGED bounds \/ Fault
      PROVE  Goal
  BY <1>0, <1>1, <1>2 DEF chain, Later, AccountInv, Chain!TypeOK
\* A flag that is set, and a deal that ends.
<1>3. ASSUME NEW t \in Deposits, Chain!Deposit(t)
      PROVE  /\ Chain!TypeOK' /\ locked' = locked \cup {t}
             /\ status' \in {"Created", "CollateralLocked", "PaymentLocked", "Refunded"}
  BY <1>0, <1>3 DEF Chain!Deposit, Chain!TypeOK, Chain!Deposits, Deposits
<1>4. CASE \E x \in scene.payments : Pay(x)
  <2>1. PICK x \in scene.payments : Pay(x)
    BY <1>4
  <2>2. x \in Transfers /\ Receive(x) /\ Len(transfers) < scene.transfers
        /\ UNCHANGED <<status, locked, late, bounds>>
    BY <1>0, <2>1 DEF Pay
  <2>3. scene' = scene /\ faults' \in 0..scene'.faults
    BY <1>1, <2>2
  <2> QED BY <1>0, <2>2, <2>3, Received DEF Later, AccountInv, Chain!TypeOK
<1>5. ASSUME NEW t \in Deposits, PartyLocks(t)
      PROVE  Goal
  <2> DEFINE x == [from |-> IF t = "SellerCollateral" THEN "seller" ELSE "buyer",
                   amount |-> Amount(Deal, t)]
  <2>1. Fault /\ Chain!Deposit(t) /\ Receive(x) /\ Len(transfers) < scene.transfers
    BY <1>5 DEF PartyLocks
  <2>2. x \in Transfers /\ (Amount(Deal, t) # 0 => t \in PaidBy(x))
    BY AmountType, WatchAssumption DEF Transfers, PaidBy, Alike, Close
  <2> HIDE DEF x
  <2>3. scene' = scene /\ faults' \in 0..scene'.faults
    BY <1>1, <2>1
  <2>4. /\ transfers' \in Seq(Transfers) /\ received' \in Nat
        /\ received <= received' /\ returned' \in 0..received'
        /\ Len(transfers') = Len(transfers) + 1
        /\ \A i \in DOMAIN transfers : transfers'[i] = transfers[i]
        /\ t \in Backed(transfers')
    BY <1>0, <2>1, <2>2, Received DEF Backed
  <2> QED BY <1>0, <1>3, <2>1, <2>3, <2>4 DEF Later, AccountInv
<1>6. CASE Expire \/ Refund
  <2>1. /\ UNCHANGED <<transfers, received, locked>> /\ (UNCHANGED bounds \/ Fault)
        /\ returned' \in {returned, received} /\ Chain!TypeOK' /\ status' \in {status, "Refunded"}
    BY <1>0, <1>6 DEF Expire, Refund, Chain!Expire, Chain!Refund, Chain!TypeOK
  <2>2. scene' = scene /\ faults' \in 0..scene'.faults
    BY <1>1, <2>1
  <2> QED BY <1>0, <2>1, <2>2 DEF Later, AccountInv
<1>7. CASE ConfirmLands \/ ConfirmFails
  <2>1. handling # Nobody /\ UNCHANGED <<transfers, received, returned>>
        /\ (UNCHANGED bounds \/ Fault)
        /\ (UNCHANGED <<status, locked, late>> \/ Chain!Deposit(handling.type))
    BY <1>7 DEF ConfirmLands, ConfirmFails
  <2>2. handling.type \in Deposits /\ handling.type \in Claimed
    BY <2>1 DEF IInv, TypeOK, Claimed, Reported
  <2>3. scene' = scene /\ faults' \in 0..scene'.faults
    BY <1>1, <2>1
  <2>4. CASE UNCHANGED <<status, locked, late>>
    BY <1>0, <2>1, <2>3, <2>4 DEF Later, AccountInv, Chain!TypeOK
  <2>5. CASE Chain!Deposit(handling.type)
    <3>1. Chain!TypeOK' /\ locked' = locked \cup {handling.type}
          /\ status' \in {"Created", "CollateralLocked", "PaymentLocked", "Refunded"}
      BY <1>3, <2>2, <2>5
    <3> QED BY <1>0, <2>1, <2>2, <2>3, <3>1 DEF Later, AccountInv
  <2> QED BY <2>1, <2>4, <2>5
<1>8. CASE Restart \/ HandlerBegins \/ HandlerRecords \/ \E w \in Watchers : WatchBegin(w)
  BY <1>2, <1>8 DEF Restart, HandlerBegins, HandlerRecords, WatchBegin
<1>9. CASE Watching
  <2>1. UNCHANGED chain /\ (UNCHANGED bounds \/ Fault)
    BY <1>9 DEF Watching, Starting, Polling, Scanning, WatchRows, WatchReturns, WatchFails, Rescan,
                Fetch, Look, ConfirmRow, StoreTransaction, PassEnds, TotalRow, TotalStore, ScanFails,
                PollTick, PollRow, PollRecord, PollEnds, PollFails
  <2> QED BY <1>2, <2>1
<1> QED
  BY <1>4, <1>5, <1>6, <1>7, <1>8, <1>9 DEF Next, Handling

-----------------------------------------------------------------------------
\* The phase manager and the watchers.
LEMMA Recording ==
  ASSUME TypeOK, NEW t \in Collaterals, RecordDeposit(t)
  PROVE  /\ phase' \in {"escrow_created", "awaiting_deposits", "delivery", "refunded"}
         /\ deposited' \in SUBSET Collaterals /\ paid' \in BOOLEAN
<1>1. CASE phase \notin {"awaiting_deposits", "delivery"}
  BY <1>1 DEF TypeOK, RecordDeposit, manager
<1>2. CASE phase \in {"awaiting_deposits", "delivery"}
  <2>1. deposited' = deposited \cup {t} /\ phase' \in {phase, "delivery"}
        /\ paid' \in {paid, paid \/ phase # "delivery" \/ t \notin deposited}
    BY <1>2 DEF RecordDeposit
  <2>2. {paid, paid \/ phase # "delivery" \/ t \notin deposited} \subseteq BOOLEAN
    BY DEF TypeOK
  <2> QED BY <2>1, <2>2 DEF TypeOK
<1> QED BY <1>1, <1>2

LEMMA ManagerStep ==
  ASSUME IInv, Next
  PROVE  /\ phase' \in {"escrow_created", "awaiting_deposits", "delivery", "refunded"}
         /\ deposited' \in SUBSET Collaterals /\ paid' \in BOOLEAN
<1> DEFINE Goal == /\ phase' \in {"escrow_created", "awaiting_deposits", "delivery", "refunded"}
                   /\ deposited' \in SUBSET Collaterals /\ paid' \in BOOLEAN
<1>0. /\ TypeOK /\ AccountInv
      /\ phase \in {"escrow_created", "awaiting_deposits", "delivery", "refunded"}
      /\ deposited \in SUBSET Collaterals /\ paid \in BOOLEAN
  BY DEF IInv, TypeOK
<1>1. ASSUME phase' \in {phase, "awaiting_deposits", "delivery"}, UNCHANGED deposited,
             paid' \in {paid, TRUE}
      PROVE  Goal
  BY <1>0, <1>1
<1>2. ASSUME UNCHANGED manager
      PROVE  Goal
  BY <1>1, <1>2 DEF manager
<1>3. ASSUME NEW w \in Watchers, WatchBegin(w) \/ WatchReturns(w)
      PROVE  Goal
  BY <1>1, <1>3 DEF WatchBegin, WatchReturns
<1>4. ASSUME NEW p \in Pollers, PollRecord(p)
      PROVE  Goal
  BY <1>0, <1>1, <1>4, Recording DEF PollRecord
<1>5. CASE HandlerRecords
  BY <1>0, <1>1, <1>5, Recording DEF HandlerRecords
<1>6. CASE Restart
  <2>1. PhaseOnChain \in {"escrow_created", "delivery", "refunded"}
    BY <1>0 DEF AccountInv, PhaseOnChain
  <2>2. locked \cap Collaterals \in SUBSET Collaterals
        /\ (Chain!Live /\ "BuyerPayment" \in locked) \in BOOLEAN
    OBVIOUS
  <2> QED BY <1>6, <2>1, <2>2 DEF Restart
<1>7. ASSUME \/ \E x \in scene.payments : Pay(x)
             \/ \E t \in Deposits : PartyLocks(t)
             \/ Expire \/ Refund \/ HandlerBegins \/ ConfirmLands \/ ConfirmFails
             \/ \E w \in Watchers : WatchRows(w) \/ WatchFails(w)
             \/ \E s \in Scanners : Rescan(s) \/ Scanning(s)
             \/ \E k \in Ticks : PollTick(k)
             \/ \E p \in Pollers : PollRow(p) \/ PollEnds(p) \/ PollFails(p)
      PROVE  Goal
  BY <1>2, <1>7 DEF Pay, PartyLocks, Expire, Refund, HandlerBegins, ConfirmLands, ConfirmFails,
                    WatchRows, WatchFails, PollTick, PollRow, PollEnds, PollFails, Rescan, Scanning,
                    Fetch, Look, ConfirmRow, StoreTransaction, PassEnds, TotalRow, TotalStore,
                    ScanFails
<1> QED
  BY <1>3, <1>4, <1>5, <1>6, <1>7 DEF Next, Handling, Watching, Starting, Polling

LEMMA WatchingStep ==
  ASSUME IInv, Next
  PROVE  /\ watcher' \in [Watchers -> {"none", "starting", "reading", "returned"}]
         /\ active' \in BOOLEAN /\ current' \in Watchers \cup {Nobody}
         /\ expect' \in [Watchers -> SUBSET Deposits]
<1> DEFINE Goal == /\ watcher' \in [Watchers -> {"none", "starting", "reading", "returned"}]
                   /\ active' \in BOOLEAN /\ current' \in Watchers \cup {Nobody}
                   /\ expect' \in [Watchers -> SUBSET Deposits]
<1>0. /\ watcher \in [Watchers -> {"none", "starting", "reading", "returned"}]
      /\ active \in BOOLEAN /\ current \in Watchers \cup {Nobody}
      /\ expect \in [Watchers -> SUBSET Deposits]
  BY DEF IInv, TypeOK
<1>1. ASSUME UNCHANGED watching
      PROVE  Goal
  BY <1>0, <1>1 DEF watching
<1>2. ASSUME UNCHANGED <<watcher, active, current>>, NEW v, NEW E \in SUBSET Deposits,
             expect' = [expect EXCEPT ![v] = @ \cup E]
      PROVE  Goal
  BY <1>0, <1>2
<1>3. ASSUME UNCHANGED <<watcher, expect>>, NEW b, StopWatching(b)
      PROVE  Goal
  BY <1>0, <1>3 DEF StopWatching
<1>4. ASSUME NEW w \in Watchers, WatchBegin(w) \/ Starting(w)
      PROVE  Goal
  BY <1>0, <1>4 DEF WatchBegin, Starting, WatchRows, WatchReturns, WatchFails
<1>5. ASSUME NEW p \in Pollers, PollRecord(p) \/ PollFails(p)
      PROVE  Goal
  <2>1. PollOK(poll[p], locked)
    BY DEF IInv, PollInv
  <2>2. poll[p].pc = "record" => First(poll[p].left) \in Deposits
    BY <2>1, FirstIn DEF PollOK, Polls
  <2>3. UNCHANGED <<watcher, active, current>>
    BY <1>5 DEF PollRecord, PollFails
  <2>4. \/ UNCHANGED expect
        \/ /\ poll[p].pc = "record"
           /\ expect' = [expect EXCEPT ![poll[p].of] = @ \cup {First(poll[p].left)}]
    BY <1>5 DEF PollRecord, PollFails
  <2>5. CASE UNCHANGED expect
    BY <1>0, <2>3, <2>5
  <2>6. CASE poll[p].pc = "record" /\ expect' = [expect EXCEPT ![poll[p].of] = @ \cup {First(poll[p].left)}]
    <3>1. {First(poll[p].left)} \in SUBSET Deposits
      BY <2>2, <2>6
    <3> QED BY <1>2, <2>3, <2>6, <3>1
  <2> QED BY <2>4, <2>5, <2>6
<1>6. ASSUME NEW w \in Scanners, Look(w)
      PROVE  Goal
  <2>1. ScanOK(scan[w], scene.transfers, transfers, received)
    BY DEF IInv, ScanInv
  <2>2. transfers[scan[w].at] \in Transfers
    BY <1>6, <2>1 DEF IInv, TypeOK, ScanOK, Scans, Look
  <2>3. Identified(expect[scan[w].of], transfers[scan[w].at]) \in SUBSET Deposits
    BY <2>2, IdentifiedPaid DEF PaidBy
  <2> QED BY <1>2, <1>6, <2>3 DEF Look
<1>7. ASSUME NEW w \in Scanners, TotalRow(w)
      PROVE  Goal
  <2>1. ScanOK(scan[w], scene.transfers, transfers, received) /\ scan[w].pc = "total"
    BY <1>7 DEF IInv, ScanInv, TotalRow
  <2>2. First(scan[w].todo) \in Deposits
    BY <2>1, FirstIn DEF ScanOK, Scans, Totalling
  <2> DEFINE E == expect[scan[w].of] \cup {First(scan[w].todo)}
  <2>3. /\ expect' = [expect EXCEPT ![scan[w].of] = E] /\ UNCHANGED watcher
        /\ \E b \in BOOLEAN : StopWatching(b)
    BY <1>7 DEF TotalRow
  <2>4. E \in SUBSET Deposits
    BY <1>0, <2>1, <2>2 DEF ScanOK, Scans
  <2>5. expect' \in [Watchers -> SUBSET Deposits]
    BY <1>0, <2>3, <2>4
  <2> QED BY <1>0, <2>3, <2>5 DEF StopWatching
<1>8. CASE Restart
  BY <1>8 DEF Restart
<1>9. ASSUME \/ \E p \in Pollers : PollEnds(p)
             \/ \E w \in Scanners : PassEnds(w) \/ TotalStore(w)
      PROVE  Goal
  BY <1>3, <1>9 DEF PollEnds, PassEnds, TotalStore
<1>10. ASSUME \/ \E x \in scene.payments : Pay(x)
              \/ \E t \in Deposits : PartyLocks(t)
              \/ Expire \/ Refund \/ Handling
              \/ \E k \in Ticks : PollTick(k)
              \/ \E p \in Pollers : PollRow(p)
              \/ \E w \in Scanners : \/ Rescan(w) \/ Fetch(w) \/ ConfirmRow(w)
                                     \/ StoreTransaction(w) \/ ScanFails(w)
       PROVE  Goal
  BY <1>1, <1>10 DEF Pay, PartyLocks, Expire, Refund, Handling, HandlerBegins, ConfirmLands,
                     ConfirmFails, HandlerRecords, PollTick, PollRow, Rescan, Fetch, ConfirmRow,
                     StoreTransaction, ScanFails
<1> QED
  BY <1>4, <1>5, <1>6, <1>7, <1>8, <1>9, <1>10 DEF Next, Watching, Polling, Scanning

-----------------------------------------------------------------------------
\* The polls of the account.
LEMMA PollStep ==
  ASSUME IInv, Next, Later
  PROVE  poll' \in [Pollers -> Polls] /\ PollInv'
<1> DEFINE Goal == poll' \in [Pollers -> Polls] /\ PollInv'
<1>0. /\ poll \in [Pollers -> Polls] /\ locked \in SUBSET Deposits /\ locked \subseteq locked'
      /\ current \in Watchers \cup {Nobody} /\ Watchers \subseteq Pollers /\ Scanners \subseteq Pollers
      /\ Ticks \subseteq Pollers
  BY DEF IInv, TypeOK, Chain!TypeOK, Chain!Deposits, Deposits, Later, Pollers, Scanners
<1>1. \A p \in Pollers : PollOK(poll[p], locked')
  BY <1>0 DEF IInv, PollInv, PollOK
<1>2. ASSUME UNCHANGED poll
      PROVE  Goal
  BY <1>0, <1>1, <1>2 DEF PollInv
<1>3. ASSUME NEW p \in Pollers, NEW v, PollOK(v, locked'), poll' = [poll EXCEPT ![p] = v]
      PROVE  Goal
  <2>1. v \in Polls
    BY <1>3 DEF PollOK
  <2> QED BY <1>0, <1>1, <1>3, <2>1 DEF PollInv
<1>4. current # Nobody
        => PollOK([pc |-> "row", of |-> current, seen |-> locked, left |-> Deposits], locked')
  BY <1>0 DEF PollOK, Polls
<1>5. PollOK(Idle, locked')
  BY DEF PollOK, Polls, Idle
<1>6. ASSUME \/ \E w \in Watchers : WatchReturns(w)
             \/ \E s \in Scanners : Rescan(s)
      PROVE  Goal
  BY <1>0, <1>2, <1>3, <1>4, <1>6 DEF WatchReturns, Rescan, StartScan
<1>7. ASSUME NEW k \in Ticks, PollTick(k)
      PROVE  Goal
  BY <1>0, <1>3, <1>4, <1>7 DEF PollTick
<1>8. ASSUME NEW p \in Pollers, PollRow(p)
      PROVE  Goal
  <2> DEFINE t == First(Due(p))
             v == [poll[p] EXCEPT !.pc = "record", !.left = {t} \cup After(@, t)]
  <2>1. PollOK(poll[p], locked') /\ poll[p].pc = "row" /\ Due(p) # {}
    BY <1>1, <1>8 DEF PollRow
  <2>2. Due(p) \in SUBSET Deposits
    BY <2>1 DEF PollOK, Polls, Due
  <2>3. t \in Deposits
    BY <2>1, <2>2, FirstIn
  <2> HIDE DEF t
  <2>4. {t} \cup After(poll[p].left, t) \in SUBSET Deposits
    BY <2>1, <2>3 DEF PollOK, Polls, After
  <2>5. PollOK(v, locked')
    BY <2>1, <2>4 DEF PollOK, Polls
  <2>6. poll' = [poll EXCEPT ![p] = v]
    BY <1>0, <1>8 DEF PollRow, t
  <2> HIDE DEF v
  <2> QED BY <1>3, <2>5, <2>6
<1>9. ASSUME NEW p \in Pollers, PollRecord(p)
      PROVE  Goal
  <2> DEFINE t == First(poll[p].left)
             v == [poll[p] EXCEPT !.pc = "row", !.left = @ \ {t}]
  <2>1. PollOK(poll[p], locked') /\ poll[p].pc = "record"
    BY <1>1, <1>9 DEF PollRecord
  <2>2. poll' = [poll EXCEPT ![p] = v]
    BY <1>0, <1>9 DEF PollRecord
  <2> HIDE DEF t
  <2>3. PollOK(v, locked')
    BY <2>1 DEF PollOK, Polls
  <2> HIDE DEF v
  <2> QED BY <1>3, <2>2, <2>3
<1>10. ASSUME NEW p \in Pollers, PollEnds(p) \/ PollFails(p)
       PROVE  Goal
  BY <1>3, <1>5, <1>10 DEF PollEnds, PollFails
<1>11. CASE Restart
  <2>1. poll' = [p \in Pollers |-> Idle]
    BY <1>11 DEF Restart
  <2> QED BY <1>5, <2>1 DEF PollInv, PollOK
<1>12. ASSUME \/ \E x \in scene.payments : Pay(x)
              \/ \E t \in Deposits : PartyLocks(t)
              \/ Expire \/ Refund \/ Handling
              \/ \E w \in Watchers : WatchBegin(w) \/ WatchRows(w) \/ WatchFails(w)
              \/ \E s \in Scanners : Scanning(s)
       PROVE  Goal
  BY <1>2, <1>12 DEF Pay, PartyLocks, Expire, Refund, Handling, HandlerBegins, ConfirmLands,
                     ConfirmFails, HandlerRecords, WatchBegin, WatchRows, WatchFails, Scanning,
                     Fetch, Look, ConfirmRow, StoreTransaction, PassEnds, TotalRow, TotalStore,
                     ScanFails
<1> QED
  BY <1>6, <1>7, <1>8, <1>9, <1>10, <1>11, <1>12 DEF Next, Watching, Starting, Polling

-----------------------------------------------------------------------------
\* The scans of the history.
LEMMA ScanStep ==
  ASSUME IInv, Next, Later, transfers' \in Seq(Transfers), received' \in Nat,
         Len(transfers') <= scene.transfers
  PROVE  scan' \in [Scanners -> Scans(scene'.transfers)] /\ ScanInv'
<1> DEFINE Goal == scan' \in [Scanners -> Scans(scene'.transfers)] /\ ScanInv'
           n == scene.transfers
           OK(s) == ScanOK(s, n, transfers', received')
<1>0. /\ TypeOK /\ scan \in [Scanners -> Scans(n)] /\ scene' = scene /\ n \in Nat
      /\ transfers \in Seq(Transfers) /\ received \in Nat /\ received <= received'
      /\ Len(transfers) <= Len(transfers') /\ Len(transfers') <= n
      /\ current \in Watchers \cup {Nobody} /\ expect \in [Watchers -> SUBSET Deposits]
      /\ AmountOf(Deposits) \in Nat /\ Rent \in Nat /\ Dust \in Nat
      /\ returned \in 0..received
  BY WatchAssumption, AmountType DEF IInv, TypeOK, Later
<1>1. ASSUME NEW w \in Scanners
      PROVE  OK(scan[w])
  <2>1. ScanOK(scan[w], n, transfers, received)
    BY DEF IInv, ScanInv
  <2>2. Confirming(scan[w]) => transfers'[scan[w].at] = transfers[scan[w].at]
    BY <1>0, <2>1 DEF ScanOK, Scans, Later
  <2>3. scan[w].balance <= received' + Rent /\ scan[w].upto <= Len(transfers')
    BY <1>0, <2>1 DEF ScanOK, Scans
  <2> QED BY <2>1, <2>2, <2>3 DEF ScanOK
<1>2. ASSUME UNCHANGED scan
      PROVE  Goal
  BY <1>0, <1>1, <1>2 DEF ScanInv
<1>3. ASSUME NEW w \in Scanners, NEW v, OK(v), scan' = [scan EXCEPT ![w] = v]
      PROVE  Goal
  <2>1. v \in Scans(n)
    BY <1>3 DEF ScanOK
  <2>2. scan' \in [Scanners -> Scans(n)]
    BY <1>0, <1>3, <2>1
  <2>3. \A u \in Scanners : OK(scan'[u])
    BY <1>0, <1>1, <1>3
  <2> QED BY <1>0, <2>2, <2>3 DEF ScanInv
<1>4. OK(Resting)
  BY <1>0 DEF ScanOK, Scans, Resting, Confirming, Totalling
<1>5. current # Nobody => OK([Resting EXCEPT !.pc = "polling", !.of = current])
  <2> DEFINE v == [Resting EXCEPT !.pc = "polling", !.of = current]
  <2>1. /\ v \in Scans(n) /\ v.pc = "polling" /\ v.of = current
        /\ v.balance = Resting.balance /\ v.upto = Resting.upto
    BY <1>0, <1>4 DEF ScanOK, Scans
  <2>2. Resting.balance <= received' + Rent /\ Resting.upto <= Len(transfers')
    BY <1>4 DEF ScanOK
  <2>3. current # Nobody => OK(v)
    <3> HIDE DEF v
    <3> QED BY <1>0, <2>1, <2>2 DEF ScanOK, Confirming, Totalling
  <2> QED BY <2>3
<1>6. ASSUME NEW w \in Scanners, Rescan(w) \/ (w \in Watchers /\ WatchReturns(w))
      PROVE  Goal
  BY <1>2, <1>3, <1>5, <1>6 DEF WatchReturns, Rescan, StartScan
<1>7. ASSUME NEW p \in Pollers, PollEnds(p) \/ PollFails(p)
      PROVE  Goal
  <2>1. CASE p \in Ticks
    BY <1>2, <1>7, <2>1 DEF PollEnds, PollFails, Polled
  <2>2. CASE p \notin Ticks
    <3>1. p \in Scanners /\ scan[p].pc = "polling" /\ OK(scan[p])
      <4>1. p \in Scanners /\ poll[p].pc # "idle"
        BY <1>7, <2>2 DEF PollEnds, PollFails, Pollers
      <4> QED BY <1>1, <4>1 DEF IInv, PairInv
    <3>2. Lamports \in Nat /\ Lamports <= received' + Rent
      <4>1. /\ received \in Nat /\ returned \in Nat /\ returned <= received /\ Rent \in Nat
            /\ received' \in Nat /\ received <= received'
        BY <1>0
      <4>2. \A a, b, c, d \in Nat :
                b <= a /\ a <= c => (a - b) + d \in Nat /\ (a - b) + d <= c + d
        OBVIOUS
      <4> QED BY <4>1, <4>2 DEF Lamports, Balance
    <3> DEFINE v == [scan[p] EXCEPT !.pc = "fetch", !.balance = Lamports]
    <3>3. OK(v)
      BY <1>0, <3>1, <3>2 DEF ScanOK, Scans, Confirming, Totalling
    <3>4. scan' \in {[scan EXCEPT ![p] = Resting], [scan EXCEPT ![p] = v]}
      BY <1>0, <1>7, <2>2, <3>1 DEF PollEnds, PollFails, Polled
    <3> HIDE DEF v
    <3> QED BY <1>3, <1>4, <3>1, <3>3, <3>4
  <2> QED BY <2>1, <2>2
<1>8. ASSUME NEW w \in Scanners, Fetch(w)
      PROVE  Goal
  <2> DEFINE v == [scan[w] EXCEPT !.pc = "look", !.upto = Len(transfers), !.at = 1, !.did = FALSE]
  <2>1. OK(scan[w]) /\ scan[w].pc = "fetch"
    BY <1>1, <1>8 DEF Fetch
  <2>2. /\ v \in Scans(n) /\ v.pc = "look" /\ v.of = scan[w].of
        /\ v.balance = scan[w].balance /\ v.upto = Len(transfers) /\ v.at = 1
    <3>1. Len(transfers) \in 0..n /\ 1 \in 0..(n + 1)
      BY <1>0
    <3> QED BY <2>1, <3>1 DEF ScanOK, Scans
  <2>3. scan' = [scan EXCEPT ![w] = v]
    BY <1>0, <1>8 DEF Fetch
  <2> HIDE DEF v
  <2>4. OK(v)
    BY <1>0, <2>1, <2>2 DEF ScanOK, Confirming, Totalling
  <2> QED BY <1>3, <2>3, <2>4
<1>9. ASSUME NEW w \in Scanners, Look(w)
      PROVE  Goal
  <2> DEFINE types == Identified(expect[scan[w].of], transfers[scan[w].at])
             u == [scan[w] EXCEPT !.at = @ + 1]
             v == [scan[w] EXCEPT !.pc = "confirm", !.todo = types, !.did = TRUE]
  <2>1. OK(scan[w]) /\ scan[w].pc = "look" /\ scan[w].at <= scan[w].upto
        /\ ScanOK(scan[w], n, transfers, received)
    BY <1>1, <1>9 DEF Look, IInv, ScanInv
  <2>2. scan[w].at \in DOMAIN transfers /\ transfers[scan[w].at] \in Transfers
    BY <1>0, <2>1 DEF ScanOK, Scans
  <2>3. types \in SUBSET Deposits /\ types \subseteq PaidBy(transfers'[scan[w].at])
    BY <2>2, IdentifiedPaid DEF Later, PaidBy
  <2>4. scan' = IF types = {} THEN [scan EXCEPT ![w] = u] ELSE [scan EXCEPT ![w] = v]
    BY <1>0, <1>9 DEF Look
  <2> HIDE DEF types
  <2>5. OK(u)
    <3>1. scan[w].at \in Nat /\ scan[w].at + 1 \in 0..(n + 1)
      BY <1>0, <2>1 DEF ScanOK, Scans
    <3>2. /\ u \in Scans(n) /\ u.pc = "look" /\ u.of = scan[w].of
          /\ u.balance = scan[w].balance /\ u.upto = scan[w].upto /\ u.at = scan[w].at + 1
      BY <2>1, <3>1 DEF ScanOK, Scans
    <3> HIDE DEF u
    <3> QED BY <2>1, <3>1, <3>2 DEF ScanOK, Confirming, Totalling
  <2>6. types # {} => OK(v)
    BY <1>0, <2>1, <2>3 DEF ScanOK, Scans, Confirming, Totalling
  <2> HIDE DEF u, v
  <2> QED BY <1>3, <2>4, <2>5, <2>6
\* A deposit is dealt with, and the next one is looked at.
<1>10. ASSUME NEW s, OK(s), Confirming(s)
       PROVE  OK(AfterType(s))
  <2> DEFINE rest == Rest(s.todo)
             u == [s EXCEPT !.pc = "confirm", !.todo = rest]
             v == [s EXCEPT !.pc = "look", !.todo = {}, !.at = @ + 1]
  <2>1. rest \subseteq s.todo
    BY DEF Rest
  <2>2. AfterType(s) = IF rest # {} THEN u ELSE v
    BY DEF AfterType
  <2> HIDE DEF rest
  <2>3. rest # {} => OK(u)
    BY <1>10, <2>1 DEF ScanOK, Scans, Confirming, Totalling
  <2>4. OK(v)
    <3>1. s.at \in Nat /\ s.at + 1 \in 0..(n + 1)
      BY <1>0, <1>10 DEF ScanOK, Scans
    <3>2. /\ v \in Scans(n) /\ v.pc = "look" /\ v.of = s.of
          /\ v.balance = s.balance /\ v.upto = s.upto /\ v.at = s.at + 1
      BY <1>10, <3>1 DEF ScanOK, Scans
    <3> HIDE DEF v
    <3> QED BY <1>10, <3>1, <3>2 DEF ScanOK, Confirming, Totalling
  <2> QED BY <2>2, <2>3, <2>4
<1>11. ASSUME NEW w \in Scanners, ConfirmRow(w)
       PROVE  Goal
  <2> DEFINE v == [scan[w] EXCEPT !.pc = "store"]
  <2>1. OK(scan[w]) /\ scan[w].pc = "confirm" /\ Confirming(scan[w])
    BY <1>1, <1>11 DEF ConfirmRow, Confirming
  <2>2. OK(v)
    BY <2>1 DEF ScanOK, Scans, Confirming, Totalling
  <2>3. scan' \in {[scan EXCEPT ![w] = AfterType(scan[w])], [scan EXCEPT ![w] = v]}
    BY <1>0, <1>11 DEF ConfirmRow
  <2> HIDE DEF v
  <2> QED BY <1>3, <1>10, <2>1, <2>2, <2>3
<1>12. ASSUME NEW w \in Scanners, StoreTransaction(w)
       PROVE  Goal
  <2>1. OK(scan[w]) /\ Confirming(scan[w])
    BY <1>1, <1>12 DEF StoreTransaction, Confirming
  <2>2. scan' = [scan EXCEPT ![w] = AfterType(scan[w])]
    BY <1>0, <1>12 DEF StoreTransaction
  <2> QED BY <1>3, <1>10, <2>1, <2>2
<1>13. ASSUME NEW w \in Scanners, PassEnds(w)
       PROVE  Goal
  <2> DEFINE E == expect[scan[w].of]
             v == [scan[w] EXCEPT !.pc = "total", !.todo = Deposits \ E]
  <2>1. OK(scan[w]) /\ scan[w].pc = "look"
    BY <1>1, <1>13 DEF PassEnds
  <2>2. E \in SUBSET Deposits
    BY <1>0, <2>1 DEF ScanOK
  <2>3. \/ scan' = [scan EXCEPT ![w] = Again(scan[w])] /\ scan[w].pass < 2
        \/ /\ scan' = [scan EXCEPT ![w] = v]
           /\ E # Deposits /\ scan[w].balance + Dust >= AmountOf(Deposits)
        \/ scan' = [scan EXCEPT ![w] = Resting]
    BY <1>13 DEF PassEnds
  <2> HIDE DEF E
  <2>4. scan[w].pass < 2 => OK(Again(scan[w]))
    <3> DEFINE u == Again(scan[w])
    <3>1. scan[w].pass < 2 => scan[w].pass + 1 \in 0..2
      BY <2>1 DEF ScanOK, Scans
    <3>2. scan[w].pass < 2 => u \in Scans(n) /\ u.pc = "fetch" /\ u.of = scan[w].of
                              /\ u.balance = scan[w].balance /\ u.upto = scan[w].upto
      BY <2>1, <3>1 DEF ScanOK, Scans, Again
    <3> HIDE DEF u
    <3>3. scan[w].pass < 2 => OK(u)
      BY <2>1, <3>2 DEF ScanOK, Confirming, Totalling
    <3> QED BY <3>3 DEF u
  <2>5. E # Deposits /\ scan[w].balance + Dust >= AmountOf(Deposits) => OK(v)
    BY <2>1, <2>2 DEF ScanOK, Scans, Confirming, Totalling
  <2> HIDE DEF v
  <2> QED BY <1>3, <1>4, <2>3, <2>4, <2>5
\* The balance as a whole.
<1>14. ASSUME NEW w \in Scanners, TotalRow(w) \/ TotalStore(w)
       PROVE  Goal
  <2> DEFINE v == [scan[w] EXCEPT !.pc = "totalStore"]
  <2>1. OK(scan[w]) /\ scan[w].pc \in {"total", "totalStore"}
    BY <1>1, <1>14 DEF TotalRow, TotalStore
  <2>2. Rest(scan[w].todo) \subseteq scan[w].todo
    BY DEF Rest
  <2>3. scan' \in {[scan EXCEPT ![w] = AfterTotal(scan[w])], [scan EXCEPT ![w] = v]}
    BY <1>14 DEF TotalRow, TotalStore
  <2>4. OK(AfterTotal(scan[w]))
    <3> DEFINE u == [scan[w] EXCEPT !.pc = "total", !.todo = Rest(@)]
    <3>1. Rest(scan[w].todo) # {} => OK(u)
      BY <2>1, <2>2 DEF ScanOK, Scans, Confirming, Totalling
    <3> HIDE DEF u
    <3>2. AfterTotal(scan[w]) = IF Rest(scan[w].todo) = {} THEN Resting ELSE u
      BY DEF AfterTotal, u
    <3> QED BY <1>4, <3>1, <3>2
  <2>5. OK(v)
    BY <2>1 DEF ScanOK, Scans, Confirming, Totalling
  <2> HIDE DEF v
  <2> QED BY <1>3, <2>3, <2>4, <2>5
<1>15. ASSUME NEW w \in Scanners, ScanFails(w)
       PROVE  Goal
  <2> DEFINE v == [scan[w] EXCEPT !.at = @ + 1]
  <2>1. CASE scan' = [scan EXCEPT ![w] = Resting]
    BY <1>3, <1>4, <2>1
  <2>2. CASE scan[w].pc = "look" /\ scan[w].at <= scan[w].upto /\ scan' = [scan EXCEPT ![w].at = @ + 1]
    <3>0. OK(scan[w]) /\ scan[w] \in Scans(n)
      BY <1>1 DEF ScanOK
    <3>1. OK(scan[w]) /\ scan[w].at \in Nat /\ scan[w].at + 1 \in 0..(n + 1)
      <4>1. scan[w].at \in 0..(n + 1) /\ scan[w].upto \in 0..n
        BY <3>0 DEF Scans
      <4> QED BY <1>0, <2>2, <3>0, <4>1
    <3>2. /\ v \in Scans(n) /\ v.pc = "look" /\ v.of = scan[w].of
          /\ v.balance = scan[w].balance /\ v.upto = scan[w].upto /\ v.at = scan[w].at + 1
      BY <2>2, <3>1 DEF ScanOK, Scans
    <3>3. scan' = [scan EXCEPT ![w] = v]
      BY <1>0, <2>2
    <3> HIDE DEF v
    <3>4. OK(v)
      BY <2>2, <3>1, <3>2 DEF ScanOK, Confirming, Totalling
    <3> QED BY <1>3, <3>3, <3>4
  <2> QED BY <1>15, <2>1, <2>2 DEF ScanFails
<1>16. CASE Restart
  <2>1. scan' = [w \in Scanners |-> Resting]
    BY <1>16 DEF Restart
  <2>2. Resting \in Scans(n)
    BY <1>4 DEF ScanOK
  <2> QED BY <1>0, <1>4, <2>1, <2>2 DEF ScanInv
<1>17. ASSUME \/ \E x \in scene.payments : Pay(x)
              \/ \E t \in Deposits : PartyLocks(t)
              \/ Expire \/ Refund \/ Handling
              \/ \E w \in Watchers : WatchBegin(w) \/ WatchRows(w) \/ WatchFails(w)
              \/ \E k \in Ticks : PollTick(k)
              \/ \E p \in Pollers : PollRow(p) \/ PollRecord(p)
       PROVE  Goal
  BY <1>2, <1>17 DEF Pay, PartyLocks, Expire, Refund, Handling, HandlerBegins, ConfirmLands,
                     ConfirmFails, HandlerRecords, PollTick, WatchBegin, WatchRows, WatchFails,
                     PollRow, PollRecord
<1>18. Watchers \subseteq Scanners
  BY DEF Scanners
<1> QED
  BY <1>6, <1>7, <1>8, <1>9, <1>11, <1>12, <1>13, <1>14, <1>15, <1>16, <1>17, <1>18
     DEF Next, Watching, Starting, Polling, Scanning

LEMMA PairStep ==
  ASSUME IInv, Next
  PROVE  PairInv'
<1>0. /\ poll \in [Pollers -> Polls] /\ scan \in [Scanners -> Scans(scene.transfers)]
      /\ Watchers \subseteq Scanners /\ Scanners \subseteq Pollers /\ Ticks \cap Scanners = {}
      /\ Ticks \subseteq Pollers
      /\ \A w \in Scanners : poll[w].pc # "idle" => scan[w].pc = "polling"
  BY WatchAssumption DEF IInv, TypeOK, PairInv, Pollers, Scanners
<1>1. ASSUME UNCHANGED <<poll, scan>>
      PROVE  PairInv'
  BY <1>0, <1>1 DEF PairInv
<1>2. ASSUME NEW w \in Scanners, NEW v, UNCHANGED poll, scan[w].pc # "polling",
             scan' = [scan EXCEPT ![w] = v]
      PROVE  PairInv'
  BY <1>0, <1>2 DEF PairInv
<1>3. ASSUME NEW p \in Pollers, NEW v, UNCHANGED scan, poll' = [poll EXCEPT ![p] = v],
             p \in Scanners => v.pc = "idle" \/ poll[p].pc # "idle"
      PROVE  PairInv'
  BY <1>0, <1>3 DEF PairInv
<1>4. ASSUME NEW w \in Scanners, Rescan(w) \/ (w \in Watchers /\ WatchReturns(w))
      PROVE  PairInv'
  <2>1. CASE UNCHANGED <<poll, scan>>
    BY <1>1, <2>1
  <2>2. CASE StartScan(w)
    <3> DEFINE v == [Resting EXCEPT !.pc = "polling", !.of = current]
    <3>1. scan' = [scan EXCEPT ![w] = v] /\ v.pc = "polling"
      BY <2>2 DEF StartScan, Resting
    <3>2. \A u \in Scanners \ {w} : poll'[u] = poll[u]
      BY <1>0, <2>2 DEF StartScan
    <3> HIDE DEF v
    <3> QED BY <1>0, <3>1, <3>2 DEF PairInv
  <2> QED BY <1>4, <2>1, <2>2 DEF WatchReturns, Rescan
<1>5. ASSUME NEW w \in Scanners,
             \/ Fetch(w) \/ Look(w) \/ ConfirmRow(w) \/ StoreTransaction(w)
             \/ PassEnds(w) \/ TotalRow(w) \/ TotalStore(w) \/ ScanFails(w)
      PROVE  PairInv'
  <2>1. UNCHANGED poll /\ scan[w].pc # "polling"
    BY <1>5 DEF Fetch, Look, ConfirmRow, StoreTransaction, PassEnds, TotalRow, TotalStore, ScanFails
  <2>2. \A u \in Scanners \ {w} : scan'[u] = scan[u]
    BY <1>0, <1>5
       DEF Fetch, Look, ConfirmRow, StoreTransaction, PassEnds, TotalRow, TotalStore, ScanFails
  <2> QED BY <1>0, <2>1, <2>2 DEF PairInv
<1>6. ASSUME NEW k \in Ticks, PollTick(k)
      PROVE  PairInv'
  BY <1>0, <1>3, <1>6 DEF PollTick
<1>7. ASSUME NEW p \in Pollers, PollRow(p) \/ PollRecord(p)
      PROVE  PairInv'
  <2>1. UNCHANGED scan /\ poll[p].pc # "idle" /\ \A u \in Pollers \ {p} : poll'[u] = poll[u]
    BY <1>0, <1>7 DEF PollRow, PollRecord
  <2> QED BY <1>0, <2>1 DEF PairInv
<1>8. ASSUME NEW p \in Pollers, PollEnds(p) \/ PollFails(p)
      PROVE  PairInv'
  <2>1. poll' = [poll EXCEPT ![p] = Idle] /\ Idle.pc = "idle"
    BY <1>8 DEF PollEnds, PollFails, Idle
  <2>2. \A u \in Scanners \ {p} : scan'[u] = scan[u]
    BY <1>0, <1>8 DEF PollEnds, PollFails, Polled
  <2> QED BY <1>0, <2>1, <2>2 DEF PairInv
<1>9. CASE Restart
  BY <1>0, <1>9 DEF Restart, PairInv, Idle
<1>10. ASSUME \/ \E x \in scene.payments : Pay(x)
              \/ \E t \in Deposits : PartyLocks(t)
              \/ Expire \/ Refund \/ Handling
              \/ \E w \in Watchers : WatchBegin(w) \/ WatchRows(w) \/ WatchFails(w)
       PROVE  PairInv'
  BY <1>1, <1>10 DEF Pay, PartyLocks, Expire, Refund, Handling, HandlerBegins, ConfirmLands,
                     ConfirmFails, HandlerRecords, WatchBegin, WatchRows, WatchFails
<1>11. Watchers \subseteq Scanners
  BY DEF Scanners
<1> QED
  BY <1>4, <1>5, <1>6, <1>7, <1>8, <1>9, <1>10, <1>11
     DEF Next, Watching, Starting, Polling, Scanning

-----------------------------------------------------------------------------
\* The rows.
LEMMA RowsStep ==
  ASSUME IInv, Next, Later
  PROVE  /\ confirmed \subseteq confirmed' /\ confirmed' \in SUBSET Deposits /\ created' \in BOOLEAN
         /\ stored' \in SUBSET ((1..scene'.transfers) \X (Deposits \cup {"plain"}))
<1> DEFINE Signatures == (1..scene.transfers) \X (Deposits \cup {"plain"})
           Goal == /\ confirmed \subseteq confirmed' /\ confirmed' \in SUBSET Deposits
                   /\ created' \in BOOLEAN /\ stored' \in SUBSET Signatures
<1>0. /\ confirmed \in SUBSET Deposits /\ created \in BOOLEAN
      /\ stored \in SUBSET Signatures /\ scene' = scene
  BY DEF IInv, TypeOK, Later
<1>1. ASSUME UNCHANGED rows
      PROVE  Goal
  BY <1>0, <1>1 DEF rows
<1>2. ASSUME NEW t \in Deposits, UNCHANGED <<created, stored>>, confirmed' \in {confirmed, confirmed \cup {t}}
      PROVE  Goal
  BY <1>0, <1>2
<1>3. ASSUME NEW p \in Pollers, PollRow(p)
      PROVE  Goal
  <2>1. PollOK(poll[p], locked) /\ Due(p) # {}
    BY <1>3 DEF IInv, PollInv, PollRow
  <2>2. First(Due(p)) \in Deposits
    BY <2>1, FirstIn DEF PollOK, Polls, Due
  <2> QED BY <1>2, <1>3, <2>2 DEF PollRow, Written
<1>4. ASSUME NEW w \in Scanners, ConfirmRow(w) \/ TotalRow(w)
      PROVE  Goal
  <2>1. ScanOK(scan[w], scene.transfers, transfers, received) /\ scan[w].todo # {}
    BY <1>4 DEF IInv, ScanInv, ScanOK, Confirming, Totalling, ConfirmRow, TotalRow
  <2>2. First(scan[w].todo) \in Deposits
    BY <2>1, FirstIn DEF ScanOK, Scans
  <2>3. UNCHANGED <<created, stored>> /\ confirmed' \in {confirmed, confirmed \cup {First(scan[w].todo)}}
    BY <1>4 DEF ConfirmRow, TotalRow, Written
  <2> QED BY <1>2, <2>2, <2>3
<1>5. ASSUME NEW w \in Scanners, StoreTransaction(w)
      PROVE  Goal
  <2> DEFINE t == First(scan[w].todo)
  <2>1. ScanOK(scan[w], scene.transfers, transfers, received) /\ Confirming(scan[w])
    BY <1>5 DEF IInv, ScanInv, Confirming, StoreTransaction
  <2>2. t \in Deposits
    BY <2>1, FirstIn DEF ScanOK, Scans
  <2>3. scan[w].at \in 1..scene.transfers
    BY <2>1, WatchAssumption DEF IInv, TypeOK, ScanOK, Scans
  <2>4. Signature(scan[w], t) \in Signatures
    BY <2>2, <2>3 DEF Signature
  <2>5. UNCHANGED <<created, confirmed>> /\ stored' \in {stored, stored \cup {Signature(scan[w], t)}}
    BY <1>5 DEF StoreTransaction
  <2> QED BY <1>0, <2>4, <2>5
<1>6. ASSUME NEW w \in Watchers, WatchRows(w)
      PROVE  Goal
  BY <1>0, <1>6 DEF WatchRows
<1>7. ASSUME \/ \E x \in scene.payments : Pay(x)
             \/ \E t \in Deposits : PartyLocks(t)
             \/ Expire \/ Refund \/ Handling \/ Restart
             \/ \E k \in Ticks : PollTick(k)
             \/ \E p \in Pollers : PollRecord(p) \/ PollEnds(p) \/ PollFails(p)
             \/ \E w \in Watchers : WatchBegin(w) \/ WatchReturns(w) \/ WatchFails(w)
             \/ \E w \in Scanners : \/ Rescan(w) \/ Fetch(w) \/ Look(w) \/ PassEnds(w)
                                    \/ TotalStore(w) \/ ScanFails(w)
      PROVE  Goal
  BY <1>1, <1>7 DEF Pay, PartyLocks, Expire, Refund, Handling, HandlerBegins, ConfirmLands,
                    ConfirmFails, HandlerRecords, Restart, PollTick, PollRecord, PollEnds, PollFails,
                    WatchBegin, WatchReturns, WatchFails, Rescan, Fetch, Look, PassEnds, TotalStore,
                    ScanFails
<1>8. Goal
  BY <1>3, <1>4, <1>5, <1>6, <1>7 DEF Next, Watching, Starting, Polling, Scanning
<1> QED BY <1>0, <1>8

-----------------------------------------------------------------------------
\* The events.
\* Who reports has something to report: it is confirmed, and nobody who wrote its row has
\* reported it.
LEMMA ReportedNext ==
  ASSUME IInv, NEW w \in Scanners, Reporting(scan[w])
  PROVE  /\ First(scan[w].todo) \in confirmed /\ First(scan[w].todo) \in Deposits
         /\ published[First(scan[w].todo)] <= unwritten[First(scan[w].todo)]
BY DEF IInv, ReportInv, TypeOK

\* What a scan works at is a deposit.
LEMMA NextDeposit ==
  ASSUME IInv, NEW w \in Scanners, Confirming(scan[w]) \/ Totalling(scan[w])
  PROVE  scan[w].todo # {} /\ First(scan[w].todo) \in Deposits
<1>1. ScanOK(scan[w], scene.transfers, transfers, received)
  BY DEF IInv, ScanInv
<1>2. scan[w].todo \in SUBSET Deposits /\ scan[w].todo # {}
  BY <1>1 DEF ScanOK, Scans
<1> QED BY <1>2, FirstIn

LEMMA QueueStep ==
  ASSUME IInv, Next
  PROVE  /\ queue' \in Seq(Deposits)
         /\ published' \in [Deposits -> Nat] /\ unwritten' \in [Deposits -> Nat]
         /\ handling' \in [pc : {"confirm", "record"}, type : Deposits] \cup {Nobody}
<1> DEFINE Handlings == [pc : {"confirm", "record"}, type : Deposits]
           Goal == /\ queue' \in Seq(Deposits)
                   /\ published' \in [Deposits -> Nat] /\ unwritten' \in [Deposits -> Nat]
                   /\ handling' \in Handlings \cup {Nobody}
<1>0. /\ queue \in Seq(Deposits)
      /\ published \in [Deposits -> Nat] /\ unwritten \in [Deposits -> Nat]
      /\ handling \in Handlings \cup {Nobody} /\ Nobody \notin Handlings
  BY WatchAssumption DEF IInv, TypeOK
<1>1. ASSUME UNCHANGED events
      PROVE  Goal
  BY <1>0, <1>1 DEF events
<1>2. ASSUME NEW t \in Deposits, Publish(t),
             unwritten' = unwritten \/ unwritten' = [unwritten EXCEPT ![t] = @ + 1]
      PROVE  Goal
  <2>1. queue' \in Seq(Deposits) /\ handling' = handling
    BY <1>0, <1>2 DEF Publish
  <2>2. published' \in [Deposits -> Nat]
    BY <1>0, <1>2 DEF Publish
  <2>3. unwritten' \in [Deposits -> Nat]
    <3>1. unwritten \in [Deposits -> Nat]
      BY <1>0
    <3>2. CASE unwritten' = [unwritten EXCEPT ![t] = @ + 1]
      BY <3>1, <3>2
    <3> QED BY <1>2, <3>1, <3>2
  <2> QED BY <1>0, <2>1, <2>2, <2>3
<1>3. ASSUME NEW w \in Scanners, ConfirmRow(w) \/ StoreTransaction(w) \/ TotalStore(w)
      PROVE  Goal
  <2> DEFINE t == First(scan[w].todo)
  <2>1. t \in Deposits
    BY <1>3, NextDeposit DEF Confirming, Totalling, ConfirmRow, StoreTransaction, TotalStore
  <2>2. \/ UNCHANGED events
        \/ /\ Publish(t)
           /\ unwritten' = unwritten \/ unwritten' = [unwritten EXCEPT ![t] = @ + 1]
    BY <1>3 DEF ConfirmRow, StoreTransaction, TotalStore, events
  <2> HIDE DEF t
  <2> QED BY <1>1, <1>2, <2>1, <2>2
<1>4. CASE HandlerBegins
  <2>1. /\ handling' = [pc |-> "confirm", type |-> Head(queue)] /\ queue # <<>>
        /\ queue' = Tail(queue) /\ UNCHANGED <<published, unwritten>>
    BY <1>4 DEF HandlerBegins
  <2>2. Head(queue) \in Deposits /\ queue' \in Seq(Deposits)
    BY <1>0, <2>1
  <2> QED BY <1>0, <2>1, <2>2
<1>5. CASE ConfirmLands \/ ConfirmFails \/ HandlerRecords
  <2>1. /\ handling # Nobody /\ UNCHANGED <<queue, published, unwritten>>
        /\ handling' \in {Nobody, [handling EXCEPT !.pc = "record"]}
    BY <1>5 DEF ConfirmLands, ConfirmFails, HandlerRecords
  <2>2. [handling EXCEPT !.pc = "record"] \in Handlings
    BY <1>0, <2>1
  <2> QED BY <1>0, <2>1, <2>2
<1>6. CASE Restart
  BY <1>0, <1>6 DEF Restart
<1>7. ASSUME \/ \E x \in scene.payments : Pay(x)
             \/ \E t \in Deposits : PartyLocks(t)
             \/ Expire \/ Refund
             \/ \E k \in Ticks : PollTick(k)
             \/ \E p \in Pollers : Polling(p)
             \/ \E w \in Watchers : WatchBegin(w) \/ Starting(w)
             \/ \E w \in Scanners : \/ Rescan(w) \/ Fetch(w) \/ Look(w) \/ PassEnds(w)
                                    \/ TotalRow(w) \/ ScanFails(w)
      PROVE  Goal
  BY <1>1, <1>7 DEF Pay, PartyLocks, Expire, Refund, PollTick, Polling, PollRow, PollRecord,
                    PollEnds, PollFails, WatchBegin, Starting, WatchRows, WatchReturns, WatchFails,
                    Rescan, Fetch, Look, PassEnds, TotalRow, ScanFails
<1> QED
  BY <1>3, <1>4, <1>5, <1>6, <1>7 DEF Next, Handling, Watching, Scanning

LEMMA ReportStep ==
  ASSUME IInv, Next, confirmed \subseteq confirmed'
  PROVE  ReportInv' /\ ReportedOnce'
<1> DEFINE next(w) == First(scan[w].todo)
           Goal == ReportInv' /\ ReportedOnce'
<1>0. /\ scan \in [Scanners -> Scans(scene.transfers)]
      /\ published \in [Deposits -> Nat] /\ unwritten \in [Deposits -> Nat]
      /\ confirmed \subseteq Deposits /\ confirmed \subseteq confirmed'
      /\ ReportInv /\ ReportedOnce
  BY DEF IInv, TypeOK
\* Nobody new is about to report, and nothing is published, or a row could not be written.
<1>1. ASSUME NEW W \in SUBSET Scanners,
             \A w \in W : scan'[w].pc = scan[w].pc /\ scan'[w].todo = scan[w].todo,
             \A w \in Scanners \ W : ~Reporting(scan'[w]),
             \A t \in Deposits :
                 \/ published'[t] = published[t] /\ unwritten'[t] = unwritten[t]
                 \/ published'[t] = published[t] + 1 /\ unwritten'[t] = unwritten[t] + 1
      PROVE  Goal
  <2>1. \A t \in Deposits :
            /\ published[t] <= unwritten[t] => published'[t] <= unwritten'[t]
            /\ published[t] <= 1 + unwritten[t] => published'[t] <= 1 + unwritten'[t]
    BY <1>0, <1>1
  <2>2. ReportedOnce'
    BY <1>0, <2>1 DEF ReportedOnce
  <2>3. \A t \in Deposits : t \notin confirmed' => published'[t] <= unwritten'[t]
    BY <1>0, <2>1 DEF ReportInv
  <2>4. ASSUME NEW u \in Scanners, Reporting(scan'[u])
        PROVE  /\ First(scan'[u].todo) \in confirmed'
               /\ published'[First(scan'[u].todo)] <= unwritten'[First(scan'[u].todo)]
               /\ \A x \in Scanners \ {u} : Reporting(scan'[x]) =>
                      First(scan'[x].todo) # First(scan'[u].todo)
    <3>1. \A x \in Scanners : Reporting(scan'[x]) => Reporting(scan[x]) /\ scan'[x].todo = scan[x].todo
      BY <1>1 DEF Reporting
    <3>2. next(u) \in confirmed /\ published[next(u)] <= unwritten[next(u)]
      BY <1>0, <2>4, <3>1 DEF ReportInv
    <3>3. \A x \in Scanners \ {u} : Reporting(scan[x]) => next(x) # next(u)
      BY <1>0, <2>4, <3>1 DEF ReportInv
    <3> QED BY <1>0, <2>1, <2>4, <3>1, <3>2, <3>3
  <2> QED BY <2>2, <2>3, <2>4 DEF ReportInv
<1>2. ASSUME UNCHANGED <<published, unwritten, scan>>
      PROVE  Goal
  BY <1>1, <1>2
<1>3. ASSUME UNCHANGED <<published, unwritten>>, NEW v, NEW w \in Scanners, ~Reporting(v),
             scan' = [scan EXCEPT ![w] = v]
      PROVE  Goal
  <2>1. scan'[w] = v /\ \A u \in Scanners \ {w} : scan'[u] = scan[u]
    BY <1>0, <1>3
  <2> QED BY <1>1, <1>3, <2>1
<1>4. ASSUME NEW v, NEW w \in Scanners, ~Reporting(v), scan' = [scan EXCEPT ![w] = v],
             next(w) \in Deposits, Publish(next(w)),
             unwritten' = [unwritten EXCEPT ![next(w)] = @ + 1]
      PROVE  Goal
  <2>1. scan'[w] = v /\ \A u \in Scanners \ {w} : scan'[u] = scan[u]
    BY <1>0, <1>4
  <2>2. published' = [published EXCEPT ![next(w)] = @ + 1]
    BY <1>4 DEF Publish
  <2>3. \A t \in Deposits :
            \/ published'[t] = published[t] /\ unwritten'[t] = unwritten[t]
            \/ published'[t] = published[t] + 1 /\ unwritten'[t] = unwritten[t] + 1
    BY <1>0, <1>4, <2>2
  <2> QED BY <1>1, <1>4, <2>1, <2>3
\* Somebody is about to report a deposit whose row it has just confirmed.
<1>5. ASSUME UNCHANGED <<published, unwritten>>, NEW v, NEW w \in Scanners, v.todo = scan[w].todo,
             scan' = [scan EXCEPT ![w] = v], next(w) \in Deposits \ confirmed,
             next(w) \in confirmed'
      PROVE  Goal
  <2>1. scan'[w].todo = scan[w].todo /\ \A u \in Scanners \ {w} : scan'[u] = scan[u]
    BY <1>0, <1>5
  <2>2. published[next(w)] <= unwritten[next(w)]
    BY <1>0, <1>5 DEF ReportInv
  <2>3. \A u \in Scanners \ {w} : Reporting(scan[u]) => next(u) # next(w)
    BY <1>0, <1>5 DEF ReportInv
  <2>4. \A t \in Deposits : t \notin confirmed' => published'[t] <= unwritten'[t]
    BY <1>0, <1>5 DEF ReportInv
  <2>5. ASSUME NEW u \in Scanners, Reporting(scan'[u])
        PROVE  /\ First(scan'[u].todo) \in confirmed'
               /\ published'[First(scan'[u].todo)] <= unwritten'[First(scan'[u].todo)]
               /\ \A x \in Scanners \ {u} : Reporting(scan'[x]) =>
                      First(scan'[x].todo) # First(scan'[u].todo)
    <3>1. CASE u = w
      BY <1>5, <2>1, <2>2, <2>3, <3>1
    <3>2. CASE u # w
      BY <1>0, <1>5, <2>1, <2>3, <2>5, <3>2 DEF ReportInv
    <3> QED BY <3>1, <3>2
  <2>6. ReportedOnce'
    BY <1>0, <1>5 DEF ReportedOnce
  <2> QED BY <2>4, <2>5, <2>6 DEF ReportInv
\* Somebody reports.
<1>6. ASSUME NEW w \in Scanners, NEW v, Reporting(scan[w]), ~Reporting(v),
             scan' = [scan EXCEPT ![w] = v], Publish(next(w)), UNCHANGED unwritten
      PROVE  Goal
  <2>1. next(w) \in Deposits /\ next(w) \in confirmed /\ published[next(w)] <= unwritten[next(w)]
    BY <1>6, ReportedNext
  <2>2. published' = [published EXCEPT ![next(w)] = @ + 1]
    BY <1>6 DEF Publish
  <2>3. ~Reporting(scan'[w]) /\ \A u \in Scanners \ {w} : scan'[u] = scan[u]
    BY <1>0, <1>6
  <2>4. \A u \in Scanners \ {w} : Reporting(scan[u]) => next(u) # next(w)
    BY <1>0, <1>6 DEF ReportInv
  <2>5. \A t \in Deposits : t # next(w) => published'[t] = published[t]
    BY <1>0, <2>2
  <2>6. published'[next(w)] <= 1 + unwritten[next(w)]
    BY <1>0, <2>1, <2>2
  <2>7. \A t \in Deposits : /\ published'[t] <= 1 + unwritten'[t]
                            /\ t \notin confirmed' => published'[t] <= unwritten'[t]
    BY <1>0, <1>6, <2>1, <2>5, <2>6 DEF ReportInv, ReportedOnce
  <2>8. ASSUME NEW u \in Scanners, Reporting(scan'[u])
        PROVE  /\ First(scan'[u].todo) \in confirmed'
               /\ published'[First(scan'[u].todo)] <= unwritten'[First(scan'[u].todo)]
               /\ \A x \in Scanners \ {u} : Reporting(scan'[x]) =>
                      First(scan'[x].todo) # First(scan'[u].todo)
    <3>1. u # w /\ scan'[u] = scan[u] /\ next(u) # next(w)
      BY <2>3, <2>4, <2>8
    <3>2. next(u) \in confirmed /\ published[next(u)] <= unwritten[next(u)]
      BY <1>0, <2>8, <3>1 DEF ReportInv
    <3>3. published'[next(u)] <= unwritten'[next(u)]
      BY <1>0, <1>6, <2>5, <3>1, <3>2
    <3>4. \A x \in Scanners \ {u} : Reporting(scan'[x]) =>
              x # w /\ scan'[x] = scan[x] /\ Reporting(scan[x])
      BY <2>3
    <3>5. \A x \in Scanners \ {u} : Reporting(scan[x]) => next(x) # next(u)
      BY <1>0, <2>8, <3>1 DEF ReportInv
    <3> QED BY <1>0, <3>1, <3>2, <3>3, <3>4, <3>5
  <2>9. ReportedOnce'
    BY <2>7 DEF ReportedOnce
  <2>10. \A t \in Deposits : t \notin confirmed' => published'[t] <= unwritten'[t]
    BY <2>7
  <2> QED BY <2>8, <2>9, <2>10 DEF ReportInv
<1>7. \A s : ~Reporting(AfterType(s)) /\ ~Reporting(AfterTotal(s))
  <2>1. ASSUME NEW s
        PROVE  ~Reporting(AfterType(s)) /\ ~Reporting(AfterTotal(s))
    BY DEF Reporting, AfterType, AfterTotal, Resting
  <2> QED BY <2>1
<1>8. ~Reporting(Resting) /\ Watchers \subseteq Scanners
  BY DEF Reporting, Resting, Scanners
<1>9. ASSUME NEW w \in Scanners, Rescan(w) \/ (w \in Watchers /\ WatchReturns(w))
      PROVE  Goal
  <2> DEFINE v == [Resting EXCEPT !.pc = "polling", !.of = current]
  <2>1. UNCHANGED <<published, unwritten>> /\ (UNCHANGED scan \/ scan' = [scan EXCEPT ![w] = v])
    BY <1>9 DEF WatchReturns, Rescan, StartScan, events
  <2>2. ~Reporting(v)
    BY DEF Resting, Reporting
  <2> HIDE DEF v
  <2> QED BY <1>2, <1>3, <2>1, <2>2
<1>10. ASSUME NEW p \in Pollers, PollEnds(p) \/ PollFails(p)
       PROVE  Goal
  <2>1. UNCHANGED <<published, unwritten>>
    BY <1>10 DEF PollEnds, PollFails, events
  <2>2. CASE p \in Ticks
    BY <1>2, <1>10, <2>1, <2>2 DEF PollEnds, PollFails, Polled
  <2>3. CASE p \notin Ticks
    <3>1. p \in Scanners
      BY <2>3 DEF Pollers
    <3> DEFINE v == [scan[p] EXCEPT !.pc = "fetch", !.balance = Lamports]
    <3>2. scan' \in {[scan EXCEPT ![p] = Resting], [scan EXCEPT ![p] = v]}
      BY <1>10, <2>3 DEF PollEnds, PollFails, Polled
    <3>3. ~Reporting(v)
      BY <1>0, <3>1 DEF Reporting, Scans
    <3> HIDE DEF v
    <3> QED BY <1>3, <1>8, <2>1, <3>1, <3>2, <3>3
  <2> QED BY <2>2, <2>3
<1>11. ASSUME NEW w \in Scanners, Fetch(w) \/ Look(w) \/ PassEnds(w) \/ ScanFails(w)
       PROVE  Goal
  <2>1. /\ UNCHANGED <<published, unwritten>>
        /\ \A u \in Scanners \ {w} : scan'[u] = scan[u]
    BY <1>0, <1>11 DEF Fetch, Look, PassEnds, ScanFails, events
  <2>2. ~Reporting(scan'[w])
    <3>1. CASE Fetch(w)
      BY <1>0, <3>1 DEF Fetch, Reporting, Scans
    <3>2. CASE Look(w)
      BY <1>0, <3>2 DEF Look, Reporting, Scans
    <3>3. CASE PassEnds(w)
      BY <1>0, <3>3 DEF PassEnds, Reporting, Again, Resting, Scans
    <3>4. CASE ScanFails(w)
      BY <1>0, <3>4 DEF ScanFails, Reporting, Resting, Scans
    <3> QED BY <1>11, <3>1, <3>2, <3>3, <3>4
  <2> QED BY <1>1, <2>1, <2>2
<1>12. ASSUME NEW w \in Scanners, ConfirmRow(w) \/ TotalRow(w)
       PROVE  Goal
  <2> DEFINE v == [scan[w] EXCEPT !.pc = IF scan[w].pc = "confirm" THEN "store" ELSE "totalStore"]
  <2>1. next(w) \in Deposits
    BY <1>12, NextDeposit DEF Confirming, Totalling, ConfirmRow, TotalRow
  <2>2. \/ /\ UNCHANGED <<published, unwritten>>
           /\ scan' \in {[scan EXCEPT ![w] = AfterType(scan[w])],
                         [scan EXCEPT ![w] = AfterTotal(scan[w])]}
        \/ /\ UNCHANGED <<published, unwritten>> /\ next(w) \notin confirmed
           /\ scan' = [scan EXCEPT ![w] = v] /\ next(w) \in confirmed'
        \/ /\ Publish(next(w)) /\ unwritten' = [unwritten EXCEPT ![next(w)] = @ + 1]
           /\ scan' = [scan EXCEPT ![w] = AfterType(scan[w])]
    BY <1>12 DEF ConfirmRow, TotalRow, Written, events
  <2>3. v.todo = scan[w].todo
    BY <1>0 DEF Scans
  <2> HIDE DEF v
  <2> QED BY <1>3, <1>4, <1>5, <1>7, <2>1, <2>2, <2>3
<1>13. ASSUME NEW w \in Scanners, StoreTransaction(w) \/ TotalStore(w)
       PROVE  Goal
  <2>1. Reporting(scan[w]) /\ (UNCHANGED published \/ Publish(next(w))) /\ UNCHANGED unwritten
    BY <1>13 DEF Reporting, StoreTransaction, TotalStore, events
  <2>2. scan' \in {[scan EXCEPT ![w] = AfterType(scan[w])],
                   [scan EXCEPT ![w] = AfterTotal(scan[w])]}
    BY <1>13 DEF StoreTransaction, TotalStore
  <2> QED BY <1>3, <1>6, <1>7, <2>1, <2>2
<1>14. CASE Restart
  <2>1. UNCHANGED <<published, unwritten>> /\ \A w \in Scanners : ~Reporting(scan'[w])
    BY <1>14 DEF Restart, Resting, Reporting
  <2>2. {} \in SUBSET Scanners
    OBVIOUS
  <2> QED BY <1>1, <2>1, <2>2
<1>15. ASSUME \/ \E x \in scene.payments : Pay(x)
              \/ \E t \in Deposits : PartyLocks(t)
              \/ Expire \/ Refund \/ Handling
              \/ \E w \in Watchers : WatchBegin(w) \/ WatchRows(w) \/ WatchFails(w)
              \/ \E k \in Ticks : PollTick(k)
              \/ \E p \in Pollers : PollRow(p) \/ PollRecord(p)
       PROVE  Goal
  BY <1>2, <1>15 DEF Pay, PartyLocks, Expire, Refund, Handling, HandlerBegins, ConfirmLands,
                     ConfirmFails, HandlerRecords, PollTick, WatchBegin, WatchRows, WatchFails,
                     PollRow, PollRecord, events
<1> QED
  BY <1>8, <1>9, <1>10, <1>11, <1>12, <1>13, <1>14, <1>15
     DEF Next, Watching, Starting, Polling, Scanning

-----------------------------------------------------------------------------
\* What flags, rows and reports stand on.
LEMMA CoverStep ==
  ASSUME IInv, Next, Later, TypeOK', locked' \subseteq Claimed \cup Backed(transfers')
  PROVE  CoverInv'
<1> DEFINE Base == Claimed \cup Backed(transfers')
           Goal(ts) == ts \subseteq Base \/ FullyPaid(received')
<1>0. /\ TypeOK /\ Covered(Claimed) /\ received \in Nat /\ received' \in Nat
      /\ received <= received' /\ Rent \in Nat /\ Dust \in Nat
      /\ AmountOf(Deposits) \in Nat /\ Backed(transfers) \subseteq Backed(transfers')
      /\ locked \subseteq Claimed /\ confirmed \subseteq Claimed /\ Reported \subseteq Claimed
      /\ queue \in Seq(Deposits)
  BY BackedGrows, AmountType, WatchAssumption DEF IInv, TypeOK, CoverInv, Later, Claimed
<1>1. ASSUME NEW w \in Scanners, Confirming(scan[w]) \/ Totalling(scan[w])
      PROVE  Goal({First(scan[w].todo)})
  <2>1. ScanOK(scan[w], scene.transfers, transfers, received)
    BY DEF IInv, ScanInv
  <2>2. CASE Confirming(scan[w])
    <3>1. scan[w].at \in DOMAIN transfers
      BY <2>1, <2>2 DEF IInv, TypeOK, ScanOK, Scans
    <3>2. First(scan[w].todo) \in PaidBy(transfers[scan[w].at]) /\ First(scan[w].todo) \in Deposits
      BY <2>1, <2>2, FirstIn DEF ScanOK, Scans
    <3>3. First(scan[w].todo) \in Backed(transfers)
      BY <3>1, <3>2 DEF Backed
    <3> QED BY <1>0, <3>3
  <2>3. CASE Totalling(scan[w])
    <3>1. scan[w].balance \in Nat /\ scan[w].balance <= received + Rent
          /\ scan[w].balance + Dust >= AmountOf(Deposits)
      BY <2>1, <2>3 DEF ScanOK, Scans
    <3> QED BY <1>0, <3>1 DEF FullyPaid
  <2> QED BY <1>1, <2>2, <2>3
<1>2. Goal(confirmed')
  <2>1. ASSUME confirmed' = confirmed
        PROVE  Goal(confirmed')
    BY <1>0, <2>1
  <2>2. ASSUME NEW p \in Pollers, PollRow(p)
        PROVE  Goal(confirmed')
    <3>1. PollOK(poll[p], locked) /\ poll[p].pc = "row" /\ Due(p) # {}
      BY <2>2 DEF IInv, PollInv, PollRow
    <3>2. Due(p) \in SUBSET Deposits /\ Due(p) \subseteq locked
      BY <3>1 DEF PollOK, Polls, Due
    <3>3. First(Due(p)) \in locked
      BY <3>1, <3>2, FirstIn
    <3>4. confirmed' \subseteq confirmed \cup {First(Due(p))}
      BY <2>2 DEF PollRow, Written
    <3> QED BY <1>0, <3>3, <3>4
  <2>3. ASSUME NEW w \in Scanners, ConfirmRow(w) \/ TotalRow(w)
        PROVE  Goal(confirmed')
    <3>1. confirmed' \subseteq confirmed \cup {First(scan[w].todo)}
      BY <2>3 DEF ConfirmRow, TotalRow, Written
    <3>2. Goal({First(scan[w].todo)})
      BY <1>1, <2>3 DEF Confirming, Totalling, ConfirmRow, TotalRow
    <3> QED BY <1>0, <3>1, <3>2
  <2>4. ASSUME \/ \E x \in scene.payments : Pay(x)
               \/ \E t \in Deposits : PartyLocks(t)
               \/ Expire \/ Refund \/ Handling \/ Restart
               \/ \E w \in Watchers : WatchBegin(w) \/ Starting(w)
               \/ \E k \in Ticks : PollTick(k)
               \/ \E p \in Pollers : PollRecord(p) \/ PollEnds(p) \/ PollFails(p)
               \/ \E w \in Scanners : \/ Rescan(w) \/ Fetch(w) \/ Look(w) \/ StoreTransaction(w)
                                      \/ PassEnds(w) \/ TotalStore(w) \/ ScanFails(w)
        PROVE  confirmed' = confirmed
    BY <2>4 DEF Pay, PartyLocks, Expire, Refund, Handling, HandlerBegins, ConfirmLands,
                ConfirmFails, HandlerRecords, Restart, WatchBegin, Starting, WatchRows, WatchReturns,
                WatchFails, PollTick, PollRecord, PollEnds, PollFails, Rescan, Fetch, Look,
                StoreTransaction, PassEnds, TotalStore, ScanFails, rows
  <2> QED BY <2>1, <2>2, <2>3, <2>4 DEF Next, Watching, Polling, Scanning
<1>3. Goal(Reported')
  <2>1. ASSUME UNCHANGED <<queue, handling>>
        PROVE  Goal(Reported')
    <3>1. Reported' = Reported
      BY <2>1 DEF Reported
    <3> QED BY <1>0, <3>1
  <2>2. ASSUME NEW w \in Scanners, ConfirmRow(w) \/ StoreTransaction(w) \/ TotalStore(w)
        PROVE  Goal(Reported')
    <3> DEFINE t == First(scan[w].todo)
    <3>1. Goal({t}) /\ t \in Deposits
      BY <1>1, <2>2, NextDeposit DEF Confirming, Totalling, ConfirmRow, StoreTransaction, TotalStore
    <3>2. UNCHANGED <<queue, handling>> \/ (queue' = Append(queue, t) /\ UNCHANGED handling)
      BY <2>2 DEF ConfirmRow, StoreTransaction, TotalStore, Publish, events
    <3> HIDE DEF t
    <3>3. CASE queue' = Append(queue, t) /\ UNCHANGED handling
      <4>1. \A i \in DOMAIN queue' : queue'[i] = t \/ (i \in DOMAIN queue /\ queue'[i] = queue[i])
        <5>1. ASSUME NEW i \in DOMAIN queue'
              PROVE  queue'[i] = t \/ (i \in DOMAIN queue /\ queue'[i] = queue[i])
          <6>1. i \in 1..(Len(queue) + 1) /\ DOMAIN queue = 1..Len(queue) /\ Len(queue) \in Nat
            BY <1>0, <3>1, <3>3
          <6>2. CASE i = Len(queue) + 1
            BY <1>0, <3>3, <6>2
          <6>3. CASE i # Len(queue) + 1
            BY <1>0, <3>3, <6>1, <6>3
          <6> QED BY <6>2, <6>3
        <5> QED BY <5>1
      <4>2. Reported' \subseteq Reported \cup {t}
        BY <3>3, <4>1 DEF Reported
      <4> QED BY <1>0, <3>1, <4>2
    <3> QED BY <2>1, <3>2, <3>3
  <2>3. CASE HandlerBegins
    <3>1. /\ handling' = [pc |-> "confirm", type |-> Head(queue)] /\ queue # <<>>
          /\ queue' = Tail(queue)
      BY <2>3 DEF HandlerBegins
    <3>2. /\ Head(queue) = queue[1] /\ 1 \in DOMAIN queue
          /\ \A i \in DOMAIN queue' : i + 1 \in DOMAIN queue /\ queue'[i] = queue[i + 1]
      BY <1>0, <3>1
    <3>3. handling'.type \in Reported
      BY <3>1, <3>2 DEF Reported
    <3>4. \A i \in DOMAIN queue' : queue'[i] \in Reported
      BY <3>2 DEF Reported
    <3>5. Reported' \subseteq {queue'[i] : i \in DOMAIN queue'} \cup {handling'.type}
      BY DEF Reported
    <3>6. Reported' \subseteq Reported
      BY <3>3, <3>4, <3>5
    <3> QED BY <1>0, <3>6
  <2>4. CASE ConfirmLands \/ ConfirmFails \/ HandlerRecords
    <3>1. /\ handling # Nobody /\ UNCHANGED queue
          /\ handling' \in {Nobody, [handling EXCEPT !.pc = "record"]}
      BY <2>4 DEF ConfirmLands, ConfirmFails, HandlerRecords
    <3>2. [handling EXCEPT !.pc = "record"].type = handling.type
      BY <1>0, <3>1 DEF TypeOK
    <3>3. Reported' \subseteq Reported
      BY <3>1, <3>2 DEF Reported
    <3> QED BY <1>0, <3>3
  <2>5. CASE Restart
    BY <2>5 DEF Restart, Reported
  <2>6. ASSUME \/ \E x \in scene.payments : Pay(x)
               \/ \E t \in Deposits : PartyLocks(t)
               \/ Expire \/ Refund
               \/ \E w \in Watchers : WatchBegin(w) \/ Starting(w)
               \/ \E k \in Ticks : PollTick(k)
               \/ \E p \in Pollers : Polling(p)
               \/ \E w \in Scanners : \/ Rescan(w) \/ Fetch(w) \/ Look(w) \/ PassEnds(w)
                                      \/ TotalRow(w) \/ ScanFails(w)
        PROVE  UNCHANGED <<queue, handling>>
    BY <2>6 DEF Pay, PartyLocks, Expire, Refund, WatchBegin, Starting, WatchRows, WatchReturns,
                WatchFails, PollTick, Polling, PollRow, PollRecord, PollEnds, PollFails, Rescan,
                Fetch, Look, PassEnds, TotalRow, ScanFails, events
  <2> QED BY <2>1, <2>2, <2>3, <2>4, <2>5, <2>6 DEF Next, Handling, Watching, Scanning
<1>4. CASE FullyPaid(received')
  BY <1>4 DEF CoverInv, Covered
<1>5. CASE ~FullyPaid(received')
  <2>1. ~FullyPaid(received)
    BY <1>0, <1>5 DEF FullyPaid
  <2>2. Base \subseteq Backed(transfers')
    BY <1>0, <2>1 DEF Covered
  <2>3. Claimed' \subseteq Backed(transfers')
    BY <1>2, <1>3, <1>5, <2>2 DEF Claimed
  <2> QED BY <2>3 DEF CoverInv, Covered
<1> QED BY <1>4, <1>5

-----------------------------------------------------------------------------
LEMMA Inductive ==
  ASSUME IInv, [Next]_vars
  PROVE  IInv'
<1>1. CASE Next
  <2>1. /\ Later /\ AccountInv' /\ Chain!TypeOK'
        /\ transfers' \in Seq(Transfers) /\ received' \in Nat /\ returned' \in 0..received'
        /\ scene' \in Scenes /\ faults' \in 0..scene'.faults
        /\ locked' \subseteq Claimed \cup Backed(transfers')
    BY <1>1, AccountStep
  <2>2. /\ confirmed \subseteq confirmed' /\ confirmed' \in SUBSET Deposits /\ created' \in BOOLEAN
        /\ stored' \in SUBSET ((1..scene'.transfers) \X (Deposits \cup {"plain"}))
    BY <1>1, <2>1, RowsStep
  <2>3. Len(transfers') <= scene.transfers
    BY <2>1 DEF AccountInv, Later
  <2>4. /\ poll' \in [Pollers -> Polls] /\ PollInv'
        /\ scan' \in [Scanners -> Scans(scene'.transfers)] /\ ScanInv'
    BY <1>1, <2>1, <2>3, PollStep, ScanStep
  <2>5. TypeOK'
    BY <1>1, <2>1, <2>2, <2>4, ManagerStep, WatchingStep, QueueStep DEF TypeOK
  <2>6. PairInv' /\ ReportInv' /\ ReportedOnce'
    BY <1>1, <2>2, PairStep, ReportStep
  <2>7. CoverInv'
    BY <1>1, <2>1, <2>5, CoverStep
  <2> QED BY <2>1, <2>4, <2>5, <2>6, <2>7 DEF IInv
<1>2. CASE UNCHANGED vars
  BY <1>2 DEF IInv, TypeOK, AccountInv, PollInv, ScanInv, PairInv, ReportInv,
              ReportedOnce, CoverInv, Covered, Claimed, Reported, Chain!TypeOK, vars, chain, manager,
              rows, watching, events, bounds
<1> QED BY <1>1, <1>2

LEMMA Initially ==
  ASSUME Init
  PROVE  IInv
<1>1. /\ scene \in Scenes /\ scene.transfers \in Nat /\ scene.faults \in Nat
      /\ Rent \in Nat /\ Dust \in Nat
  BY WatchAssumption DEF Init
<1>2. Idle \in Polls /\ Resting \in Scans(scene.transfers)
  BY <1>1 DEF Idle, Polls, Resting, Scans
<1>3. TypeOK
  <2>1. scene \in Scenes /\ faults \in 0..scene.faults
    BY <1>1 DEF Init
  <2>2. poll \in [Pollers -> Polls] /\ scan \in [Scanners -> Scans(scene.transfers)]
    BY <1>2 DEF Init
  <2>3. /\ transfers \in Seq(Transfers) /\ queue \in Seq(Deposits)
        /\ received \in Nat /\ returned \in 0..received
    BY DEF Init
  <2>4. late \in BOOLEAN /\ paid \in BOOLEAN /\ active \in BOOLEAN /\ created \in BOOLEAN
    BY DEF Init
  <2>5. Chain!TypeOK
    BY <2>4 DEF Init, Chain!TypeOK
  <2>6. /\ watcher \in [Watchers -> {"none", "starting", "reading", "returned"}]
        /\ expect \in [Watchers -> SUBSET Deposits]
        /\ published \in [Deposits -> Nat] /\ unwritten \in [Deposits -> Nat]
    BY DEF Init
  <2> QED BY <2>1, <2>2, <2>3, <2>4, <2>5, <2>6 DEF Init, TypeOK
<1>4. AccountInv /\ PollInv /\ PairInv
  <2>1. \A w \in Scanners : w \in Pollers
    BY DEF Pollers
  <2>2. Idle.pc = "idle" /\ transfers = <<>>
        /\ poll = [p \in Pollers |-> Idle] /\ status = "Created"
    BY DEF Idle, Init
  <2>3. AccountInv
    BY <1>1, <2>2 DEF AccountInv
  <2>4. PollInv /\ PairInv
    BY <1>2, <2>1, <2>2 DEF PollInv, PollOK, PairInv
  <2> QED BY <2>3, <2>4
<1>5. ScanInv /\ ReportInv /\ ReportedOnce
  BY <1>1, <1>2 DEF Init, ScanInv, ScanOK, Confirming, Totalling, ReportInv, Reporting, Resting,
                    ReportedOnce
<1>6. CoverInv
  <2>1. Claimed = {}
    BY DEF Init, Claimed, Reported
  <2> QED BY <2>1 DEF CoverInv, Covered
<1> QED BY <1>3, <1>4, <1>5, <1>6 DEF IInv

\* The watchers' data always have the shapes the code gives them, and their invariant holds.
THEOREM Invariance == Spec => []IInv
<1>1. Init => IInv
  BY Initially
<1>2. IInv /\ [Next]_vars => IInv'
  BY Inductive
<1> QED BY <1>1, <1>2, PTL DEF Spec

\* Watching never gets out of its data, whichever calls, polls, scans and faults interleave.
THEOREM TypeCorrect == Spec => []TypeOK
<1>1. IInv => TypeOK
  BY DEF IInv
<1> QED BY <1>1, Invariance, PTL

\* However many overlapping scans, polls and lives of the process come across a deposit, it is
\* reported by the one that confirms its row, and otherwise only where a row could not be
\* written: the code goes on to publish then.
THEOREM ReportedAtMostOnce == Spec => []ReportedOnce
<1>1. IInv => ReportedOnce
  BY DEF IInv
<1> QED BY <1>1, Invariance, PTL

-----------------------------------------------------------------------------
\* What the transfers add up to: any three of them are part of what was received.
Sums == \A i \in DOMAIN transfers :
    /\ transfers[i].amount <= received
    /\ \A j \in DOMAIN transfers \ {i} :
           /\ transfers[i].amount + transfers[j].amount <= received
           /\ \A k \in DOMAIN transfers \ {i, j} :
                  transfers[i].amount + transfers[j].amount + transfers[k].amount <= received

LEMMA TransferAmounts ==
  ASSUME TypeOK
  PROVE  \A i \in DOMAIN transfers : transfers[i].amount \in Nat
<1>1. \A i \in DOMAIN transfers : transfers[i] \in Transfers
  BY DEF TypeOK
<1> QED BY <1>1 DEF Transfers

LEMMA SumsStep ==
  ASSUME IInv, Sums, [Next]_vars
  PROVE  Sums'
<1>0. /\ TypeOK /\ transfers \in Seq(Transfers) /\ received \in Nat
      /\ \A i \in DOMAIN transfers : transfers[i].amount \in Nat
  BY TransferAmounts DEF IInv, TypeOK
<1>1. CASE UNCHANGED <<transfers, received>>
  BY <1>1 DEF Sums
<1>2. ASSUME NEW x \in Transfers, Receive(x)
      PROVE  Sums'
  <2> DEFINE n == Len(transfers) + 1
             worth(i) == transfers'[i].amount
  <2>1. /\ transfers' = Append(transfers, x) /\ received' = received + x.amount
        /\ x.amount \in Nat
    BY <1>2 DEF Receive, Transfers
  <2>2. /\ transfers'[n] = x
        /\ \A i \in DOMAIN transfers' \ {n} : i \in DOMAIN transfers /\ transfers'[i] = transfers[i]
    BY <1>0, <2>1
  <2>3. \A i \in DOMAIN transfers' : worth(i) \in Nat
    BY <1>0, <2>1, <2>2
  <2>4. ASSUME NEW i \in DOMAIN transfers'
        PROVE  worth(i) <= received' /\ (i # n => worth(i) <= received)
    BY <1>0, <2>1, <2>2 DEF Sums
  <2>5. ASSUME NEW i \in DOMAIN transfers', NEW j \in DOMAIN transfers' \ {i}
        PROVE  /\ worth(i) + worth(j) <= received'
               /\ i # n /\ j # n => worth(i) + worth(j) <= received
    <3>1. i # n /\ j # n => worth(i) + worth(j) <= received
      BY <1>0, <2>2 DEF Sums
    <3>2. worth(i) \in Nat /\ worth(j) \in Nat
      BY <2>3
    <3> QED BY <1>0, <2>1, <2>2, <2>4, <3>1, <3>2
  <2>6. ASSUME NEW i \in DOMAIN transfers', NEW j \in DOMAIN transfers' \ {i},
               NEW k \in DOMAIN transfers' \ {i, j}
        PROVE  worth(i) + worth(j) + worth(k) <= received'
    <3>1. worth(i) \in Nat /\ worth(j) \in Nat /\ worth(k) \in Nat
      BY <2>3
    <3>2. CASE i # n /\ j # n /\ k # n
      <4>1. worth(i) + worth(j) + worth(k) <= received
        BY <1>0, <2>2, <3>2 DEF Sums
      <4> HIDE DEF worth
      <4> QED BY <1>0, <2>1, <3>1, <4>1
    <3>3. CASE i = n
      <4>1. worth(j) + worth(k) <= received /\ worth(i) = x.amount
        BY <2>2, <2>5, <3>3
      <4> HIDE DEF worth
      <4> QED BY <1>0, <2>1, <3>1, <4>1
    <3>4. CASE j = n
      <4>1. worth(i) + worth(k) <= received /\ worth(j) = x.amount
        BY <2>2, <2>5, <3>4
      <4> HIDE DEF worth
      <4> QED BY <1>0, <2>1, <3>1, <4>1
    <3>5. CASE k = n
      <4>1. worth(i) + worth(j) <= received /\ worth(k) = x.amount
        BY <2>2, <2>5, <3>5
      <4> HIDE DEF worth
      <4> QED BY <1>0, <2>1, <3>1, <4>1
    <3> QED BY <3>2, <3>3, <3>4, <3>5
  <2> QED BY <2>4, <2>5, <2>6 DEF Sums
<1>3. ASSUME \E x \in scene.payments : Pay(x)
      PROVE  Sums'
  BY <1>0, <1>2, <1>3, WatchAssumption DEF TypeOK, Pay
<1>4. ASSUME NEW t \in Deposits, PartyLocks(t)
      PROVE  Sums'
  <2> DEFINE x == [from |-> IF t = "SellerCollateral" THEN "seller" ELSE "buyer",
                   amount |-> Amount(Deal, t)]
  <2>1. x \in Transfers /\ Receive(x)
    BY <1>4, AmountType DEF Transfers, PartyLocks
  <2> HIDE DEF x
  <2> QED BY <1>2, <2>1
<1>5. CASE UNCHANGED vars
  BY <1>1, <1>5 DEF vars, chain
<1>6. ASSUME \/ Expire \/ Refund \/ Handling \/ Restart \/ Watching
             \/ \E w \in Watchers : WatchBegin(w)
      PROVE  UNCHANGED <<transfers, received>>
  BY <1>6 DEF Expire, Refund, Handling, HandlerBegins, ConfirmLands, ConfirmFails, HandlerRecords,
              Restart, WatchBegin, Watching, Starting, Polling, Scanning, WatchRows, WatchReturns,
              WatchFails, Rescan, Fetch, Look, ConfirmRow, StoreTransaction, PassEnds, TotalRow,
              TotalStore, ScanFails, PollTick, PollRow, PollRecord, PollEnds, PollFails, chain
<1> QED BY <1>1, <1>3, <1>4, <1>5, <1>6 DEF Next

\* What the transfers of a party stand for is what they carry, but for the dust - and but for
\* the price, where one transfer can be taken for collateral and for payment.
Slack == IF Confusable THEN Deal.price ELSE 0

LEMMA SellerWorth ==
  ASSUME IInv, "SellerCollateral" \in Backed(transfers), Deal.collateral_seller # 0
  PROVE  \E i \in DOMAIN transfers : /\ transfers[i].from = "seller"
                                     /\ Deal.collateral_seller <= transfers[i].amount + Dust
BY DEF Backed, PaidBy, Alike, Close, Amount

LEMMA BuyerWorth ==
  ASSUME IInv
  PROVE  LET b == Flagged(Deal, Backed(transfers), "BuyerCollateral")
             p == Flagged(Deal, Backed(transfers), "BuyerPayment")
             bought(i) == i \in DOMAIN transfers /\ transfers[i].from = "buyer"
         IN \/ b + p <= Slack
            \/ \E j : bought(j) /\ b + p <= Slack + transfers[j].amount + Dust
            \/ \E j : \E k : /\ bought(j) /\ bought(k) /\ j # k
                            /\ b + p <= transfers[j].amount + transfers[k].amount + 2 * Dust
<1> DEFINE b == Flagged(Deal, Backed(transfers), "BuyerCollateral")
           p == Flagged(Deal, Backed(transfers), "BuyerPayment")
           bought(i) == i \in DOMAIN transfers /\ transfers[i].from = "buyer"
           worth(i) == transfers[i].amount
           B == Deal.collateral_buyer
           P == Deal.price
<1>1. /\ B \in Nat /\ P \in Nat /\ Dust \in Nat
      /\ \A i \in DOMAIN transfers : worth(i) \in Nat
  BY WatchAssumption, TransferAmounts DEF IInv
<1>2. b \in {0, B} /\ p \in {0, P} /\ Slack \in {0, P} /\ (Confusable => Slack = P)
  BY DEF Flagged, Amount, Slack
<1>3. b # 0 => \E j : bought(j) /\ (Alike(transfers[j], "BuyerCollateral") \/ Grouped(transfers[j]))
  BY DEF Flagged, Backed, PaidBy
<1>4. p # 0 => \E k : bought(k) /\ (Alike(transfers[k], "BuyerPayment") \/ Grouped(transfers[k]))
  BY DEF Flagged, Backed, PaidBy
<1>5. ASSUME NEW i, bought(i)
      PROVE  /\ Alike(transfers[i], "BuyerCollateral") => B <= worth(i) + Dust /\ worth(i) <= B + Dust
             /\ Alike(transfers[i], "BuyerPayment") => P <= worth(i) + Dust /\ worth(i) <= P + Dust
             /\ Grouped(transfers[i]) => B + P <= worth(i) + Dust
  BY DEF Alike, Grouped, Close, Amount
<1> HIDE DEF b, p
<1>6. CASE b = 0 /\ p = 0
  <2>1. b + p <= Slack
    BY <1>1, <1>2, <1>6
  <2> QED BY <2>1 DEF b, p
<1>7. CASE b # 0 /\ (p = 0 \/ Confusable)
  <2>1. PICK j : bought(j) /\ (Alike(transfers[j], "BuyerCollateral") \/ Grouped(transfers[j]))
    BY <1>3, <1>7
  <2>2. B <= worth(j) + Dust /\ worth(j) \in Nat
    BY <1>1, <1>5, <2>1
  <2>3. b + p <= Slack + worth(j) + Dust
    BY <1>1, <1>2, <1>7, <2>2
  <2> QED BY <2>1, <2>3 DEF b, p
<1>8. CASE b = 0 /\ p # 0
  <2>1. PICK k : bought(k) /\ (Alike(transfers[k], "BuyerPayment") \/ Grouped(transfers[k]))
    BY <1>4, <1>8
  <2>2. P <= worth(k) + Dust /\ worth(k) \in Nat
    BY <1>1, <1>5, <2>1
  <2>3. b + p <= Slack + worth(k) + Dust
    BY <1>1, <1>2, <1>8, <2>2
  <2> QED BY <2>1, <2>3 DEF b, p
<1>9. CASE b # 0 /\ p # 0 /\ ~Confusable
  <2>1. PICK j : bought(j) /\ (Alike(transfers[j], "BuyerCollateral") \/ Grouped(transfers[j]))
    BY <1>3, <1>9
  <2>2. PICK k : bought(k) /\ (Alike(transfers[k], "BuyerPayment") \/ Grouped(transfers[k]))
    BY <1>4, <1>9
  <2>3. worth(j) \in Nat /\ worth(k) \in Nat /\ B <= worth(j) + Dust /\ P <= worth(k) + Dust
    BY <1>1, <1>5, <2>1, <2>2
  <2>4. CASE j # k
    <3>1. b + p <= worth(j) + worth(k) + 2 * Dust
      BY <1>1, <1>2, <2>3
    <3> QED BY <2>1, <2>2, <2>4, <3>1 DEF b, p
  <2>5. CASE j = k
    <3>1. Grouped(transfers[j])
      BY <1>1, <1>5, <1>9, <2>1, <2>2, <2>3, <2>5 DEF Confusable
    <3>2. B + P <= worth(j) + Dust
      BY <1>5, <2>1, <3>1
    <3>3. b + p <= Slack + worth(j) + Dust
      BY <1>1, <1>2, <2>3, <3>2
    <3> QED BY <2>1, <3>3 DEF b, p
  <2> QED BY <2>4, <2>5
<1> QED BY <1>6, <1>7, <1>8, <1>9 DEF b, p

LEMMA BackedWorth ==
  ASSUME IInv, Sums
  PROVE  AmountOf(Backed(transfers)) <= received + 3 * Dust + Slack
<1> DEFINE b == Flagged(Deal, Backed(transfers), "BuyerCollateral")
           p == Flagged(Deal, Backed(transfers), "BuyerPayment")
           c == Flagged(Deal, Backed(transfers), "SellerCollateral")
           bought(i) == i \in DOMAIN transfers /\ transfers[i].from = "buyer"
           worth(i) == transfers[i].amount
<1>1. /\ received \in Nat /\ Dust \in Nat /\ Slack \in Nat
      /\ \A i \in DOMAIN transfers : worth(i) \in Nat
      /\ b \in Nat /\ p \in Nat /\ c \in Nat /\ AmountOf(Backed(transfers)) = b + c + p
  <2>1. received \in Nat /\ Dust \in Nat /\ Deal.price \in Nat
        /\ \A i \in DOMAIN transfers : worth(i) \in Nat
    BY WatchAssumption, TransferAmounts DEF IInv, TypeOK
  <2>2. \A t \in Deposits : Flagged(Deal, Backed(transfers), t) \in Nat
    BY AmountType DEF Flagged
  <2>3. b \in Nat /\ p \in Nat /\ c \in Nat
    BY <2>2 DEF Deposits
  <2>4. AmountOf(Backed(transfers)) = b + c + p
    BY DEF AmountOf
  <2> QED BY <2>1, <2>3, <2>4 DEF Slack
<1>2. \/ b + p <= Slack
      \/ \E j : bought(j) /\ b + p <= Slack + worth(j) + Dust
      \/ \E j : \E k : /\ bought(j) /\ bought(k) /\ j # k
                      /\ b + p <= worth(j) + worth(k) + 2 * Dust
  BY BuyerWorth
<1>3. c = 0 \/ \E i \in DOMAIN transfers : transfers[i].from = "seller" /\ c <= worth(i) + Dust
  BY SellerWorth DEF Flagged, Amount
<1> HIDE DEF b, p, c
<1>4. CASE c = 0
  <2>1. CASE b + p <= Slack
    BY <1>1, <1>4, <2>1
  <2>2. ASSUME NEW j, bought(j), b + p <= Slack + worth(j) + Dust
        PROVE  b + c + p <= received + 3 * Dust + Slack
    <3>1. worth(j) \in Nat /\ worth(j) <= received
      BY <1>1, <2>2 DEF Sums
    <3> HIDE DEF worth
    <3> QED BY <1>1, <1>4, <2>2, <3>1
  <2>3. ASSUME NEW j, NEW k, bought(j), bought(k), j # k,
               b + p <= worth(j) + worth(k) + 2 * Dust
        PROVE  b + c + p <= received + 3 * Dust + Slack
    <3>1. worth(j) \in Nat /\ worth(k) \in Nat /\ worth(j) + worth(k) <= received
      BY <1>1, <2>3 DEF Sums
    <3> HIDE DEF worth
    <3> QED BY <1>1, <1>4, <2>3, <3>1
  <2> QED BY <1>1, <1>2, <2>1, <2>2, <2>3
<1>5. ASSUME NEW i \in DOMAIN transfers, transfers[i].from = "seller", c <= worth(i) + Dust
      PROVE  b + c + p <= received + 3 * Dust + Slack
  <2>0. worth(i) \in Nat /\ worth(i) <= received
    BY <1>1 DEF Sums
  <2>1. CASE b + p <= Slack
    <3> HIDE DEF worth
    <3> QED BY <1>1, <1>5, <2>0, <2>1
  <2>2. ASSUME NEW j, bought(j), b + p <= Slack + worth(j) + Dust
        PROVE  b + c + p <= received + 3 * Dust + Slack
    <3>1. worth(j) \in Nat /\ worth(i) + worth(j) <= received
      BY <1>1, <1>5, <2>2 DEF Sums
    <3> HIDE DEF worth
    <3> QED BY <1>1, <1>5, <2>0, <2>2, <3>1
  <2>3. ASSUME NEW j, NEW k, bought(j), bought(k), j # k,
               b + p <= worth(j) + worth(k) + 2 * Dust
        PROVE  b + c + p <= received + 3 * Dust + Slack
    <3>1. worth(j) \in Nat /\ worth(k) \in Nat /\ worth(i) + worth(j) + worth(k) <= received
      BY <1>1, <1>5, <2>3 DEF Sums
    <3> HIDE DEF worth
    <3> QED BY <1>1, <1>5, <2>0, <2>3, <3>1
  <2> QED BY <1>2, <2>1, <2>2, <2>3
<1> QED BY <1>1, <1>3, <1>4, <1>5

\* Confirmed rows never claim more than the account received, but for the rent and the dust, and
\* for the price where it cannot be told from the buyer's collateral: no other transfer stands
\* for two deposits, and a grouped one is as large as the two it stands for.
THEOREM RowsFunded == Spec => []RowsAreFunded
<1>1. Init => Sums
  BY DEF Init, Sums
<1>2. IInv /\ Sums /\ [Next]_vars => Sums'
  BY SumsStep
<1>3. IInv /\ Sums => RowsAreFunded
  <2> SUFFICES ASSUME IInv, Sums
               PROVE  AmountOf(confirmed) <= received + Rent + Dust + Slack
    BY DEF RowsAreFunded, Slack
  <2>1. /\ confirmed \in SUBSET Deposits /\ Backed(transfers) \in SUBSET Deposits
        /\ received \in Nat /\ Rent \in Nat /\ Dust \in Nat /\ Slack \in Nat /\ Rent >= 2 * Dust
        /\ AmountOf(Deposits) \in Nat /\ AmountOf(confirmed) \in Nat
        /\ AmountOf(Backed(transfers)) \in Nat
    BY AmountType, WatchAssumption DEF IInv, TypeOK, Backed, Slack
  <2>2. CASE confirmed \subseteq Backed(transfers)
    <3>1. AmountOf(confirmed) <= AmountOf(Backed(transfers))
      BY <2>1, <2>2, AmountGrows
    <3> QED BY <2>1, <3>1, BackedWorth
  <2>3. CASE FullyPaid(received)
    <3>1. AmountOf(confirmed) <= AmountOf(Deposits)
      BY <2>1, AmountGrows
    <3> QED BY <2>1, <2>3, <3>1 DEF FullyPaid
  <2> QED BY <2>2, <2>3 DEF IInv, CoverInv, Covered, Claimed
<1> QED BY <1>1, <1>2, <1>3, Invariance, PTL DEF Spec
=============================================================================
