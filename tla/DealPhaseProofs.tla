--------------------------- MODULE DealPhaseProofs ---------------------------
(***************************************************************************)
(* Theorems about DealPhase, for any scenes: any number of crashes and of  *)
(* disputes before the judge.  What is said of a deal in memory or in the  *)
(* database never becomes false, since flags are only set and the escrow   *)
(* is only closed once; so it is enough that whoever writes a deal state   *)
(* may say so: the jobs, the handlers, the chain and Deal.status.          *)
(***************************************************************************)
EXTENDS DealPhase, TLAPS

FlagOf(p) == IF p = "buyer" THEN "BuyerCollateral" ELSE "SellerCollateral"

\* What the flags of the program say of its status; there is one escrow.
ChainInv ==
    /\ ~made => onchain = "None"
    /\ onchain = "None" => flags = {}
    /\ onchain = "Created" => "BuyerPayment" \notin flags /\ ~(Chain!Collaterals \subseteq flags)
    /\ onchain = "CollateralLocked" => flags = Chain!Collaterals
    /\ onchain \in {"PaymentLocked", "Completed"} => flags = Deposits
    /\ "BuyerPayment" \in flags => flags = Deposits

\* What a deal state says is true of an escrow: m made, o its status, f its flags, a who has
\* authorised its release.
Truthful(d, m, o, f, a) ==
    LET gone == m /\ o = "None"
    IN  /\ \A p \in d.deposited : gone \/ FlagOf(p) \in f
        /\ d.deposited # {} \/ d.phase = "awaiting_deposits" => d.pda
        /\ d.phase \in ReleasePhases => gone \/ (Chain!Collaterals \subseteq f /\ d.pda)
        /\ d.phase = "completed" => gone \/ o = "Completed" \/ "judge" \in a
        /\ "buyer" \in d.releases => a # {}
Sound(d, m, o, f, a) == d \in DealStates /\ Truthful(d, m, o, f, a)
Stands(d) == Sound(d, made, onchain, flags, authorities)
Remains(d) == Sound(d, made', onchain', flags', authorities')

\* So are the jobs in progress, and Deal.status, from which recovery heals.
JobsInv ==
    /\ \A t \in jobs \cap Deposits : Gone \/ t \in flags
    /\ {"release", "releasing", "split"} \cap jobs # {} => authorities # {}
    /\ {"released", "close", "publish"} \cap jobs # {} => Gone \/ onchain = "Completed"
    /\ status = "completed" => Gone \/ onchain = "Completed" \/ "judge" \in authorities

\* Handlers that wait have a deal to come back to.
HandlersInv == deal = Absent => pending = {} /\ judging = 0

DealsInv == Stands(row) /\ (deal = Absent \/ Stands(deal))

IInv == TypeOK /\ ChainInv /\ JobsInv /\ HandlersInv /\ ReleaseAuthorized /\ DealsInv

\* What no step takes back.
Later ==
    /\ Gone => Gone'
    /\ Gone' \/ flags \subseteq flags'
    /\ onchain = "Completed" => onchain' = "Completed" \/ Gone'
    /\ authorities \subseteq authorities'

-----------------------------------------------------------------------------
\* Deal states.  What a deal says stays true.
LEMMA Kept ==
  ASSUME Later, NEW d, Stands(d)
  PROVE  Remains(d)
<1>1. Truthful(d, made, onchain, flags, authorities)
  BY DEF Stands, Sound
<1>2. Truthful(d, made', onchain', flags', authorities')
  BY <1>1 DEF Truthful, Later, Gone
<1> QED BY <1>2 DEF Stands, Remains, Sound

\* A deal may be moved to any phase that promises nothing.
Plain == {"negotiation", "escrow_created", "disputed", "cancelled", "refunded"}
LEMMA Moved ==
  ASSUME NEW m, NEW o, NEW f, NEW a, NEW d, Sound(d, m, o, f, a), NEW phase \in Phases,
         phase \in Plain \/ (phase = "awaiting_deposits" /\ d.pda)
  PROVE  /\ Sound(At(d, phase), m, o, f, a)
         /\ At(d, phase).phase = phase /\ At(d, phase).pda = d.pda
BY DEF Sound, Truthful, At, DealStates, Plain, Phases, ReleasePhases

LEMMA FreshSound ==
  ASSUME NEW m, NEW o, NEW f, NEW a
  PROVE  Sound(Fresh, m, o, f, a)
BY DEF Sound, Truthful, Fresh, DealStates, Phases, ReleasePhases

LEMMA Paid ==
  ASSUME NEW m, NEW o, NEW f, NEW a, NEW d, Sound(d, m, o, f, a), NEW b \in BOOLEAN
  PROVE  /\ Sound([d EXCEPT !.paid = b], m, o, f, a)
         /\ [d EXCEPT !.paid = b].phase = d.phase
         /\ [d EXCEPT !.paid = b].pda = d.pda
         /\ [d EXCEPT !.paid = b].releases = d.releases
BY DEF Sound, Truthful, DealStates, ReleasePhases

LEMMA Opened ==
  ASSUME NEW m, NEW o, NEW f, NEW a, NEW d, Sound(d, m, o, f, a)
  PROVE  Sound([d EXCEPT !.pda = TRUE], m, o, f, a)
BY DEF Sound, Truthful, DealStates, ReleasePhases

\* recordDeposit, of a collateral that is flagged.
LEMMA RecordedSound ==
  ASSUME NEW m, NEW o, NEW f, NEW a, NEW d, Sound(d, m, o, f, a), NEW p \in Parties,
         (m /\ o = "None") \/ FlagOf(p) \in f
  PROVE  /\ Sound(Recorded(d, p), m, o, f, a)
         /\ Recorded(d, p) # d => Sound([d EXCEPT !.deposited = @ \cup {p}], m, o, f, a)
<1> DEFINE given == [d EXCEPT !.deposited = @ \cup {p}]
<1>1. CASE ~d.pda \/ d.phase \notin {"awaiting_deposits", "delivery"}
  BY <1>1 DEF Recorded
<1>2. CASE d.pda /\ d.phase \in {"awaiting_deposits", "delivery"}
  <2>1. given \in DealStates /\ given.phase = d.phase /\ given.pda = d.pda
        /\ given.deposited = d.deposited \cup {p} /\ given.releases = d.releases
    BY DEF Sound, DealStates
  <2>2. Sound(given, m, o, f, a)
    BY <1>2, <2>1 DEF Sound, Truthful, ReleasePhases
  <2>3. ASSUME given.deposited = Parties
        PROVE  Sound([given EXCEPT !.paid = TRUE, !.phase = "delivery"], m, o, f, a)
    <3> DEFINE full == [given EXCEPT !.paid = TRUE, !.phase = "delivery"]
    <3>1. full \in DealStates /\ full.phase = "delivery" /\ full.pda
          /\ full.deposited = Parties /\ full.releases = d.releases
      <4> HIDE DEF given
      <4> QED BY <1>2, <2>1, <2>3 DEF DealStates, Phases
    <3>2. (m /\ o = "None") \/ Chain!Collaterals \subseteq f
      BY <2>2, <2>3 DEF Sound, Truthful, FlagOf, Parties, Chain!Collaterals
    <3>3. "buyer" \in d.releases => a # {}
      BY DEF Sound, Truthful
    <3>4. \A q \in Parties : (m /\ o = "None") \/ FlagOf(q) \in f
      <4> HIDE DEF given
      <4> QED BY <2>2, <2>3 DEF Sound, Truthful
    <3>5. Sound(full, m, o, f, a)
      <4> HIDE DEF full
      <4> QED BY <3>1, <3>2, <3>3, <3>4 DEF Sound, Truthful
    <3> QED BY <3>5
  <2>4. Recorded(d, p) \in {d, given, [given EXCEPT !.paid = TRUE, !.phase = "delivery"]}
        /\ (Recorded(d, p) = [given EXCEPT !.paid = TRUE, !.phase = "delivery"]
               => given.deposited = Parties \/ Recorded(d, p) \in {d, given})
    BY <1>2 DEF Recorded
  <2> QED BY <2>2, <2>3, <2>4
<1> QED BY <1>1, <1>2

\* reconcileDealWithChain
LEMMA ReconciledStands ==
  ASSUME TypeOK, ChainInv, NEW d, Stands(d), NEW r \in Reconciled(d)
  PROVE  Stands(r)
<1> SUFFICES ASSUME d.pda, onchain # "None", NEW e \in DealStates,
                    e = [d EXCEPT !.phase = PhaseOnChain[onchain], !.deposited = DepositedOnChain,
                                  !.paid = Chain!Live /\ "BuyerPayment" \in flags]
             PROVE  Stands(e)
  <2>1. CASE d.pda /\ onchain # "None"
    <3> DEFINE e == [d EXCEPT !.phase = PhaseOnChain[onchain], !.deposited = DepositedOnChain,
                              !.paid = Chain!Live /\ "BuyerPayment" \in flags]
    <3>1. PhaseOnChain[onchain] \in Phases
      BY <2>1 DEF TypeOK, Chain!TypeOK, PhaseOnChain, Phases
    <3>2. DepositedOnChain \in SUBSET Parties
      BY DEF DepositedOnChain
    <3>3. (Chain!Live /\ "BuyerPayment" \in flags) \in BOOLEAN
      OBVIOUS
    <3>4. e \in DealStates
      BY <3>1, <3>2, <3>3 DEF Stands, Sound, DealStates
    <3> QED BY <2>1, <3>4 DEF Reconciled
  <2> QED BY <2>1 DEF Reconciled
<1>1. /\ e.phase = PhaseOnChain[onchain] /\ e.deposited = DepositedOnChain
      /\ e.pda /\ e.releases = d.releases
  BY DEF Stands, Sound, DealStates
<1>2. \A p \in e.deposited : FlagOf(p) \in flags
  BY <1>1 DEF DepositedOnChain, FlagOf
<1>3. e.phase \in ReleasePhases => Chain!Collaterals \subseteq flags
  <2>1. e.phase \in ReleasePhases => onchain \in {"CollateralLocked", "PaymentLocked"}
    BY <1>1 DEF TypeOK, Chain!TypeOK, PhaseOnChain, ReleasePhases
  <2> QED BY <2>1 DEF ChainInv, Chain!Collaterals, Deposits
<1>4. e.phase = "completed" => onchain = "Completed"
  BY <1>1 DEF TypeOK, Chain!TypeOK, PhaseOnChain
<1> QED BY <1>1, <1>2, <1>3, <1>4 DEF Stands, Sound, Truthful

\* What recovery makes of the row and of Deal.status.
LEMMA HealedStands ==
  ASSUME TypeOK, JobsInv, Stands(row)
  PROVE  Stands(HealedRow)
<1> DEFINE healed == IF row.phase \notin TerminalPhases /\ status \in Healing
                     THEN At(row, status) ELSE row
<1>1. Stands(healed)
  <2>1. CASE row.phase \notin TerminalPhases /\ status \in Healing
    <3>1. CASE status = "completed"
      BY <2>1, <3>1 DEF Stands, Sound, Truthful, At, DealStates, Phases, ReleasePhases, JobsInv, Gone
    <3>2. CASE status # "completed"
      <4>1. status \in Plain /\ status \in Phases
        BY <2>1, <3>2 DEF Healing, TerminalPhases, Plain, Phases
      <4> QED BY <2>1, <4>1, Moved DEF Stands
    <3> QED BY <3>1, <3>2
  <2>2. CASE ~(row.phase \notin TerminalPhases /\ status \in Healing)
    BY <2>2
  <2> QED BY <2>1, <2>2
<1>2. HealedRow = [healed EXCEPT !.paid = healed.paid /\ healed.phase \notin TerminalPhases]
  BY DEF HealedRow
<1>3. (healed.paid /\ healed.phase \notin TerminalPhases) \in BOOLEAN
  OBVIOUS
<1> HIDE DEF healed
<1> QED BY <1>1, <1>2, <1>3, Paid DEF Stands

-----------------------------------------------------------------------------
\* Writes.
LEMMA DeclaredType == Declared \subseteq BOOLEAN
  BY DEF Declared

LEMMA Stored ==
  ASSUME TypeOK, NEW d, NEW earlier, Store(d, earlier)
  PROVE  rowFixed' \in BOOLEAN /\ row' \in {row, d} \cup earlier
BY DeclaredType DEF TypeOK, Store, rows

LEMMA Marked ==
  ASSUME TypeOK, NEW s, Mark(s)
  PROVE  statusFixed' \in BOOLEAN /\ status' \in {status, s}
BY DeclaredType DEF TypeOK, Mark, statuses

LEMMA StatusOfType ==
  ASSUME NEW phase \in Phases
  PROVE  /\ StatusOf(phase) \in {"open"} \cup Healing
         /\ StatusOf(phase) = "completed" => phase = "completed"
BY DEF StatusOf, Healing, TerminalPhases, Phases

-----------------------------------------------------------------------------
\* The chain: what each step does to the escrow, and that nothing else changes it.
LEMMA ChainStep ==
  ASSUME IInv, Next
  PROVE  /\ Later /\ ChainInv' /\ ReleaseAuthorized'
         /\ Chain!TypeOK' /\ made' \in BOOLEAN /\ authorities' \subseteq {"buyer", "judge"}
<1> DEFINE Goal == /\ Later /\ ChainInv' /\ ReleaseAuthorized'
                   /\ Chain!TypeOK' /\ made' \in BOOLEAN
                   /\ authorities' \subseteq {"buyer", "judge"}
<1>0. /\ Chain!TypeOK /\ made \in BOOLEAN /\ authorities \subseteq {"buyer", "judge"}
      /\ ChainInv /\ ReleaseAuthorized
  BY DEF IInv, TypeOK
<1>1. ASSUME UNCHANGED chain,
             authorities' \in {authorities, authorities \cup {"buyer"}, authorities \cup {"judge"}}
      PROVE  Goal
  BY <1>0, <1>1 DEF chain, Later, Gone, ChainInv, ReleaseAuthorized, Chain!TypeOK
<1>2. ASSUME Chain!Create, ~made, made', UNCHANGED authorities
      PROVE  Goal
  BY <1>0, <1>2 DEF Chain!Create, Later, Gone, ChainInv, ReleaseAuthorized, Chain!TypeOK,
                    Chain!Collaterals, Deposits
<1>3. ASSUME NEW d \in Deposits, Chain!Deposit(d), UNCHANGED <<made, authorities>>
      PROVE  Goal
  <2> USE <1>0, <1>3 DEF Chain!Deposit, Later, Gone, ChainInv, ReleaseAuthorized, Chain!TypeOK,
                         Chain!Collaterals, Chain!Deposits, Deposits
  <2>1. CASE d = "BuyerPayment"
    BY <2>1
  <2>2. CASE d # "BuyerPayment"
    BY <2>2
  <2> QED BY <2>1, <2>2
<1>4. ASSUME Chain!Release, authorities # {}, UNCHANGED <<made, authorities>>
      PROVE  Goal
  BY <1>0, <1>4 DEF Chain!Release, Later, Gone, ChainInv, ReleaseAuthorized, Chain!TypeOK
<1>5. ASSUME Chain!Cancel \/ Chain!Refund \/ Chain!Close \/ Chain!Expire,
             UNCHANGED <<made, authorities>>
      PROVE  Goal
  BY <1>0, <1>5 DEF Chain!Cancel, Chain!Refund, Chain!Close, Chain!Expire, Chain!Live,
                    Chain!Settled, Later, Gone, ChainInv, ReleaseAuthorized, Chain!TypeOK
<1>6. CASE CreateLands
  BY <1>2, <1>6 DEF CreateLands
<1>7. ASSUME NEW d \in Deposits, PartyDeposits(d) \/ ConfirmDeposit(d)
      PROVE  Goal
  BY <1>3, <1>7 DEF PartyDeposits, ConfirmDeposit
<1>8. CASE ReleaseLands \/ \E j \in {"split", "cancel"} : JudgedLands(j)
  BY <1>4, <1>5, <1>8 DEF ReleaseLands, JudgedLands, IInv, JobsInv
<1>9. CASE CloseEscrow
  BY <1>1, <1>5, <1>9 DEF CloseEscrow
<1>10. CASE PartyCancels \/ RefundLands \/ PartyCloses \/ Expire
  BY <1>5, <1>10 DEF PartyCancels, RefundLands, PartyCloses, Expire
<1>11. CASE AcceptRelease \/ (\E job \in {"cancel", "split", "release"} : Verdict(job))
  BY <1>1, <1>11 DEF AcceptRelease, Verdict
<1>12. CASE \/ LoadDeal \/ SelfHeal \/ AskCreate \/ CreateEscrow \/ StartPipeline
            \/ AskRelease \/ RefuseRelease \/ Dispute \/ Cancel \/ Advance
  BY <1>1, <1>12 DEF LoadDeal, SelfHeal, AskCreate, CreateEscrow, StartPipeline, AskRelease,
                     RefuseRelease, Dispute, Cancel, Advance
<1>13. CASE \/ CreateFails \/ CreateSkipped \/ Activate \/ ConfirmFails \/ BeginRelease
            \/ ReleaseFails \/ ReleaseStored \/ ReleaseUnseen \/ PublishExecuted
            \/ Crash \/ Recover
  BY <1>1, <1>13 DEF CreateFails, CreateSkipped, Activate, ConfirmFails, BeginRelease,
                     ReleaseFails, ReleaseStored, ReleaseUnseen, PublishExecuted, Crash, Recover
<1>14. ASSUME NEW d \in Deposits, Record(d) \/ RecordFromProgram(d)
       PROVE  Goal
  BY <1>1, <1>14 DEF Record, RecordFromProgram
<1>15. ASSUME NEW j \in {"split", "cancel"}, JudgedFails(j)
       PROVE  Goal
  BY <1>1, <1>15 DEF JudgedFails
<1> QED
  BY <1>6, <1>7, <1>8, <1>9, <1>10, <1>11, <1>12, <1>13, <1>14, <1>15 DEF Next

-----------------------------------------------------------------------------
\* Deals: what each step writes, in memory and in the database, is true.
LEMMA DealsStep ==
  ASSUME IInv, Next, Later
  PROVE  /\ Remains(row') /\ (deal' = Absent \/ Remains(deal'))
         /\ deal' = Absent => deal = Absent \/ Crash
         /\ rowFixed' \in BOOLEAN
<1> DEFINE Goal == /\ Remains(row') /\ (deal' = Absent \/ Remains(deal'))
                   /\ deal' = Absent => deal = Absent \/ Crash
                   /\ rowFixed' \in BOOLEAN
<1>0. /\ TypeOK /\ ChainInv /\ JobsInv /\ Stands(row) /\ (deal = Absent \/ Stands(deal))
      /\ rowFixed \in BOOLEAN
  BY DEF IInv, DealsInv, TypeOK
<1>1. Remains(row) /\ (deal = Absent \/ Remains(deal))
  BY <1>0, Kept
<1>2. ASSUME deal' = deal \/ (deal' = Absent /\ Crash), row' = row, rowFixed' \in BOOLEAN
      PROVE  Goal
  BY <1>1, <1>2
\* A deal state that may be written, and what may be stored with it.
<1>3. ASSUME NEW d, NEW earlier, Remains(d), \A e \in earlier : Remains(e), deal' = d,
             Store(d, earlier)
      PROVE  Goal
  <2>1. d # Absent
    BY <1>3, PhaseAssumption DEF Remains, Sound
  <2> QED BY <1>0, <1>1, <1>3, <2>1, Stored
<1>4. ASSUME NEW phase \in Plain, deal # Absent
      PROVE  Remains(At(deal, phase))
  BY <1>1, <1>4, Moved DEF Remains, Plain, Phases
<1>5. CASE LoadDeal
  BY <1>0, <1>3, <1>5, Kept, ReconciledStands DEF LoadDeal
<1>6. CASE SelfHeal
  BY <1>3, <1>6, FreshSound DEF SelfHeal, Remains
<1>7. CASE CreateEscrow
  <2>1. deal # Absent
    BY <1>7 DEF CreateEscrow, IInv, HandlersInv
  <2> QED BY <1>3, <1>4, <1>7, <2>1 DEF CreateEscrow, Plain
<1>8. CASE AcceptRelease
  <2>1. deal # Absent
    BY <1>8 DEF AcceptRelease, IInv, HandlersInv
  <2>2. CASE deal.phase = "awaiting_release"
    BY <1>2, <1>8, <2>2, <1>0 DEF AcceptRelease, db
  <2>3. CASE deal.phase # "awaiting_release"
    <3> DEFINE step == IF deal.phase = "delivery" THEN "buyer" ELSE "other"
               after == [At(deal, "awaiting_release") EXCEPT !.releases = @ \cup {step}]
    <3>1. deal' = after /\ Store(after, {}) /\ Releasable(deal) /\ authorities' # {}
      BY <1>8, <2>3 DEF AcceptRelease
    <3>2. step \in {"buyer", "other"}
      OBVIOUS
    <3>3. Remains(deal)
      BY <1>1, <2>1
    <3>4. /\ after \in DealStates /\ after.phase = "awaiting_release"
          /\ after.pda = deal.pda /\ after.deposited = deal.deposited
      <4> HIDE DEF step
      <4> QED BY <3>2, <3>3 DEF Remains, Sound, DealStates, At, Phases
    <3>5. deal.deposited = Parties
      BY <3>1 DEF Releasable
    <3>6. deal.pda /\ (Gone' \/ Chain!Collaterals \subseteq flags')
      BY <3>3, <3>5 DEF Remains, Sound, Truthful, Parties, FlagOf, Chain!Collaterals, Gone
    <3>7. Remains(after)
      <4> HIDE DEF after
      <4> QED BY <3>1, <3>3, <3>4, <3>6 DEF Remains, Sound, Truthful, Gone
    <3> HIDE DEF after
    <3> QED BY <1>3, <3>1, <3>7
  <2> QED BY <2>2, <2>3
<1>9. CASE Dispute \/ Cancel
  BY <1>3, <1>4, <1>9 DEF Dispute, Cancel, Transition, Plain
<1>10. ASSUME NEW job \in {"cancel", "split", "release"}, Verdict(job)
       PROVE  Goal
  <2>1. deal # Absent
    BY <1>10 DEF Verdict, IInv, HandlersInv, TypeOK
  <2> DEFINE after == [deal EXCEPT !.phase = IF job = "cancel" THEN "cancelled" ELSE "completed",
                                   !.releases = IF job = "release" THEN @ \cup {"other"} ELSE @]
  <2>2. deal' = after /\ Store(after, {}) /\ (job # "cancel" => "judge" \in authorities')
    BY <1>10 DEF Verdict
  <2>3. Remains(deal)
    BY <1>1, <2>1
  <2>4. /\ after \in DealStates /\ after.pda = deal.pda /\ after.deposited = deal.deposited
        /\ after.phase = IF job = "cancel" THEN "cancelled" ELSE "completed"
        /\ "buyer" \in after.releases => "buyer" \in deal.releases
    BY <2>3 DEF Remains, Sound, DealStates, Phases
  <2>5. Remains(after)
    <3> HIDE DEF after
    <3> QED BY <2>2, <2>3, <2>4 DEF Remains, Sound, Truthful, ReleasePhases
  <2> HIDE DEF after
  <2> QED BY <1>3, <2>2, <2>5
<1>11. CASE Advance
  <2>1. Remains(At(deal, "awaiting_deposits"))
    BY <1>1, <1>11, Moved DEF Advance, Remains, Phases
  <2> QED BY <1>3, <1>11, <2>1 DEF Advance, Transition
<1>12. CASE CreateFails
  <2>1. deal # Absent /\ Sync("disputed")
    BY <1>12 DEF CreateFails
  <2>2. Remains(Synced(deal, "disputed"))
    <3>1. Synced(deal, "disputed") = [At(deal, "disputed") EXCEPT !.paid = deal.paid]
      BY <2>1, <1>0 DEF Synced, At, TerminalPhases, Stands, Sound, DealStates
    <3>2. deal.paid \in BOOLEAN
      BY <2>1, <1>0 DEF Stands, Sound, DealStates
    <3> QED BY <1>4, <2>1, <3>1, <3>2, Paid DEF Remains, Plain
  <2> QED BY <1>3, <2>1, <2>2 DEF Sync
<1>13. CASE Activate
  <2> DEFINE open == IF deal.phase = "negotiation" THEN At(deal, "escrow_created") ELSE deal
             after == [open EXCEPT !.pda = TRUE]
  <2>1. deal # Absent /\ deal' = after /\ Store(after, {deal, open})
    BY <1>13 DEF Activate
  <2>2. Remains(open) /\ Remains(deal)
    BY <1>1, <1>4, <2>1 DEF Plain
  <2>3. Remains(after)
    <3> HIDE DEF open
    <3> QED BY <2>2, Opened DEF Remains
  <2> HIDE DEF open, after
  <2> QED BY <1>3, <2>1, <2>2, <2>3
\* The two deposit paths record what is flagged.
<1>14. ASSUME NEW p \in Parties, Gone' \/ FlagOf(p) \in flags', deal # Absent, RecordDeposit(p)
       PROVE  Goal
  <2> DEFINE given == [deal EXCEPT !.deposited = @ \cup {p}]
  <2>1. Remains(deal)
    BY <1>1, <1>14
  <2>2. /\ Remains(Recorded(deal, p)) /\ (Recorded(deal, p) # deal => Remains(given))
    BY <2>1, <1>14, RecordedSound DEF Remains, Gone
  <2>3. CASE Recorded(deal, p) = deal
    BY <1>0, <1>2, <1>14, <2>3 DEF RecordDeposit, rows
  <2>4. CASE Recorded(deal, p) # deal /\ Recorded(deal, p).phase = deal.phase
    <3>1. deal' = Recorded(deal, p) /\ Store(given, {})
      BY <1>14, <2>4 DEF RecordDeposit
    <3>2. Remains(deal') /\ deal' # Absent
      BY <2>2, <3>1, PhaseAssumption DEF Remains, Sound
    <3>3. Remains(given)
      BY <2>2, <2>4
    <3> HIDE DEF given
    <3> QED BY <1>0, <1>1, <3>1, <3>2, <3>3, Stored
  <2>5. CASE Recorded(deal, p).phase # deal.phase
    <3>1. deal' = Recorded(deal, p) /\ Store(Recorded(deal, p), {given})
      BY <1>14, <2>5 DEF RecordDeposit
    <3> HIDE DEF given
    <3> QED BY <1>3, <2>2, <2>5, <3>1
  <2> QED BY <2>3, <2>4, <2>5
<1>15. ASSUME NEW progress \in BOOLEAN, Gone' \/ flags' = Deposits, deal # Absent,
              RecordPayment(progress)
       PROVE  Goal
  <2> DEFINE paid == [deal EXCEPT !.paid = TRUE]
  <2>1. Remains(deal) /\ Remains(paid) /\ paid.phase = deal.phase /\ paid.pda = deal.pda
    <3>1. Remains(deal)
      BY <1>1, <1>15
    <3>2. /\ paid \in DealStates /\ paid.phase = deal.phase /\ paid.releases = deal.releases
          /\ paid.pda = deal.pda /\ paid.deposited = deal.deposited
      BY <3>1 DEF Remains, Sound, DealStates
    <3>3. Remains(paid)
      <4> HIDE DEF paid
      <4> QED BY <3>1, <3>2 DEF Remains, Sound, Truthful
    <3> QED BY <3>1, <3>2, <3>3
  <2>2. ASSUME deal.phase = "awaiting_deposits"
        PROVE  Remains(At(paid, "delivery"))
    <3>1. deal.pda /\ paid \in DealStates
      BY <2>1, <2>2 DEF Remains, Sound, Truthful
    <3>2. /\ At(paid, "delivery") \in DealStates /\ At(paid, "delivery").phase = "delivery"
          /\ At(paid, "delivery").pda /\ At(paid, "delivery").releases = paid.releases
          /\ At(paid, "delivery").deposited = paid.deposited
      <4> HIDE DEF paid
      <4> QED BY <2>1, <3>1 DEF At, DealStates, Phases
    <3>3. Gone' \/ Chain!Collaterals \subseteq flags'
      BY <1>15 DEF Chain!Collaterals, Deposits
    <3> HIDE DEF paid
    <3> QED BY <2>1, <3>2, <3>3 DEF Remains, Sound, Truthful, Gone
  <2>3. deal' \in {paid, At(paid, "delivery")} /\ (deal' = paid \/ Remains(deal'))
        /\ Store(deal', {paid})
    BY <1>15, <2>2 DEF RecordPayment
  <2> HIDE DEF paid
  <2>4. Remains(deal')
    BY <2>1, <2>3
  <2> QED BY <1>3, <2>1, <2>3, <2>4
<1>16. ASSUME NEW t \in Deposits, Gone' \/ t \in flags', "BuyerPayment" \in flags' => flags' = Deposits,
              deal # Absent,
              IF t = "BuyerPayment" THEN RecordPayment(TRUE) \/ RecordPayment(FALSE)
              ELSE RecordDeposit(IF t = "BuyerCollateral" THEN "buyer" ELSE "seller")
       PROVE  Goal
  <2>1. CASE t = "BuyerPayment"
    BY <1>15, <1>16, <2>1
  <2>2. CASE t = "BuyerCollateral"
    BY <1>14, <1>16, <2>2 DEF FlagOf, Parties
  <2>3. CASE t = "SellerCollateral"
    BY <1>14, <1>16, <2>3 DEF FlagOf, Parties
  <2> QED BY <1>16, <2>1, <2>2, <2>3 DEF Deposits
<1>17. "BuyerPayment" \in flags' => flags' = Deposits
  BY ChainStep DEF ChainInv
<1>18. ASSUME NEW t \in Deposits, Record(t)
       PROVE  Goal
  <2>1. CASE deal = Absent
    BY <1>0, <1>2, <1>18, <2>1 DEF Record, db
  <2>2. CASE deal # Absent
    <3>1. Gone' \/ t \in flags'
      BY <1>0, <1>18 DEF Record, JobsInv, Later
    <3> QED BY <1>16, <1>17, <1>18, <2>2, <3>1 DEF Record
  <2> QED BY <2>1, <2>2
<1>19. ASSUME NEW t \in Deposits, RecordFromProgram(t)
       PROVE  Goal
  <2>1. t \in flags' /\ deal # Absent
    BY <1>19 DEF RecordFromProgram, chain
  <2> QED BY <1>16, <1>17, <1>19, <2>1 DEF RecordFromProgram
<1>20. CASE PublishExecuted
  <2>1. deal # Absent /\ Sync("completed") /\ (Gone' \/ onchain' = "Completed")
    BY <1>0, <1>20 DEF PublishExecuted, JobsInv, Later
  <2> DEFINE after == Synced(deal, "completed")
  <2>2. Remains(deal)
    BY <1>1, <2>1
  <2>3. /\ after \in DealStates /\ after.phase = "completed" /\ after.pda = deal.pda
        /\ after.deposited = deal.deposited /\ after.releases = deal.releases
    BY <2>2 DEF Synced, Remains, Sound, DealStates, Phases, TerminalPhases
  <2>4. Remains(after)
    <3> HIDE DEF after
    <3> QED BY <2>1, <2>2, <2>3 DEF Remains, Sound, Truthful, ReleasePhases, Gone
  <2> QED BY <1>3, <2>1, <2>4 DEF Sync
<1>21. CASE Crash
  BY <1>2, <1>21 DEF Crash
<1>22. CASE Recover
  <2>1. Stands(HealedRow)
    BY <1>0, HealedStands
  <2>2. CASE row' = HealedRow /\ rowFixed' \in Declared /\ UNCHANGED deal
    BY <1>1, <2>1, <2>2, Kept, DeclaredType
  <2>3. ASSUME NEW d \in Reconciled(HealedRow),
               LET ready == d.phase = "escrow_created" /\ d.pda
                   after == IF ready THEN At(d, "awaiting_deposits") ELSE d
               IN  /\ deal' = after
                   /\ \/ row' = after /\ rowFixed' \in Declared
                      \/ row' = d /\ rowFixed' = TRUE
        PROVE  Goal
    <3>1. Remains(d)
      BY <1>0, <2>1, Kept, ReconciledStands
    <3>2. d.pda => Remains(At(d, "awaiting_deposits"))
      BY <3>1, Moved DEF Remains, Phases
    <3>3. Remains(deal') /\ Remains(row') /\ rowFixed' \in BOOLEAN
      BY <2>3, <3>1, <3>2, DeclaredType
    <3> QED BY <3>3, PhaseAssumption DEF Remains, Sound
  <2> QED BY <1>22, <2>2, <2>3 DEF Recover
<1>23. CASE \/ AskCreate \/ StartPipeline \/ AskRelease \/ RefuseRelease
            \/ CreateLands \/ CreateSkipped \/ ConfirmFails \/ BeginRelease \/ ReleaseLands
            \/ ReleaseFails \/ ReleaseStored \/ CloseEscrow \/ ReleaseUnseen
            \/ PartyCancels \/ RefundLands \/ PartyCloses \/ Expire
  <2>1. deal' = deal /\ row' = row /\ rowFixed' = rowFixed
    BY <1>23 DEF AskCreate, StartPipeline, AskRelease, RefuseRelease, CreateLands, CreateSkipped,
                 ConfirmFails, BeginRelease, ReleaseLands, ReleaseFails, ReleaseStored, CloseEscrow,
                 ReleaseUnseen, PartyCancels, RefundLands, PartyCloses, Expire, db, rows
  <2> QED BY <1>0, <1>2, <2>1
<1>24. ASSUME NEW t \in Deposits, PartyDeposits(t) \/ ConfirmDeposit(t)
       PROVE  Goal
  BY <1>0, <1>2, <1>24 DEF PartyDeposits, ConfirmDeposit, db, rows
<1>25. ASSUME NEW j \in {"split", "cancel"}, JudgedLands(j) \/ JudgedFails(j)
       PROVE  Goal
  BY <1>0, <1>2, <1>25 DEF JudgedLands, JudgedFails, rows
<1> QED
  BY <1>5, <1>6, <1>7, <1>8, <1>9, <1>10, <1>11, <1>12, <1>13, <1>18, <1>19, <1>20, <1>21, <1>22,
     <1>23, <1>24, <1>25 DEF Next

-----------------------------------------------------------------------------
\* Work: the status of the ticket, the jobs, the handlers, and the agent itself.
LEMMA StatusStep ==
  ASSUME IInv, Next, Later
  PROVE  /\ status' \in {"none", "open"} \cup Healing /\ statusFixed' \in BOOLEAN
         /\ status' = "completed" => Gone' \/ onchain' = "Completed" \/ "judge" \in authorities'
<1> DEFINE Goal == /\ status' \in {"none", "open"} \cup Healing /\ statusFixed' \in BOOLEAN
                   /\ status' = "completed"
                        => Gone' \/ onchain' = "Completed" \/ "judge" \in authorities'
<1>0. /\ TypeOK /\ JobsInv
      /\ status \in {"none", "open"} \cup Healing /\ statusFixed \in BOOLEAN
      /\ Stands(row) /\ (deal = Absent \/ Stands(deal))
  BY DEF IInv, DealsInv, TypeOK
<1>1. status = "completed" => Gone' \/ onchain' = "Completed" \/ "judge" \in authorities'
  BY <1>0 DEF JobsInv, Later
<1>2. ASSUME status' = status, statusFixed' \in BOOLEAN
      PROVE  Goal
  BY <1>0, <1>1, <1>2
<1>3. ASSUME NEW s \in {"open"} \cup Healing, Mark(s) \/ (status' = s /\ statusFixed' \in Declared),
             s = "completed" => Gone' \/ onchain' = "Completed" \/ "judge" \in authorities'
      PROVE  Goal
  BY <1>0, <1>1, <1>3, Marked, DeclaredType
<1>4. ASSUME Mark("open") \/ (status' = "open" /\ statusFixed' \in Declared) \/ UNCHANGED statuses
      PROVE  Goal
  <2>1. CASE UNCHANGED statuses
    BY <1>0, <1>2, <2>1 DEF statuses
  <2> QED BY <1>3, <1>4, <2>1
<1>5. ASSUME NEW d, Stands(d) \/ Remains(d), Mark(StatusOf(d.phase))
      PROVE  Goal
  <2>1. Remains(d)
    BY <1>5, Kept
  <2>2. d.phase \in Phases
    BY <2>1 DEF Remains, Sound, DealStates
  <2>3. d.phase = "completed" => Gone' \/ onchain' = "Completed" \/ "judge" \in authorities'
    BY <2>1 DEF Remains, Sound, Truthful, Gone
  <2> QED BY <1>3, <1>5, <2>2, <2>3, StatusOfType
<1>6. StatusOf("disputed") = "disputed" /\ StatusOf("cancelled") = "cancelled"
      /\ StatusOf("awaiting_deposits") = "open" /\ StatusOf("awaiting_release") = "open"
      /\ {"disputed", "cancelled", "refunded", "completed"} \subseteq Healing
  BY DEF StatusOf, Healing, TerminalPhases
<1>7. CASE LoadDeal
  BY <1>0, <1>4, <1>5, <1>7, ReconciledStands DEF LoadDeal, IInv
<1>8. CASE CreateEscrow \/ CreateLands
  BY <1>4, <1>8 DEF CreateEscrow, CreateLands
<1>9. CASE AcceptRelease
  BY <1>4, <1>6, <1>9 DEF AcceptRelease, db, statuses
<1>10. CASE Dispute \/ Cancel \/ Advance
  BY <1>3, <1>6, <1>10 DEF Dispute, Cancel, Advance, Transition
<1>11. ASSUME NEW job \in {"cancel", "split", "release"}, Verdict(job)
       PROVE  Goal
  <2> DEFINE after == [deal EXCEPT !.phase = IF job = "cancel" THEN "cancelled" ELSE "completed",
                                   !.releases = IF job = "release" THEN @ \cup {"other"} ELSE @]
  <2>1. deal # Absent /\ Mark(StatusOf(after.phase)) /\ (job # "cancel" => "judge" \in authorities')
    BY <1>11 DEF Verdict, IInv, HandlersInv, TypeOK
  <2>2. after.phase = IF job = "cancel" THEN "cancelled" ELSE "completed"
    BY <1>0, <2>1 DEF Stands, Sound, DealStates
  <2>3. StatusOf("completed") = "completed"
    BY DEF StatusOf, TerminalPhases
  <2> HIDE DEF after
  <2> QED BY <1>3, <1>6, <2>1, <2>2, <2>3
<1>12. CASE CreateFails
  BY <1>3, <1>6, <1>12 DEF CreateFails
<1>13. CASE \/ Activate \/ ConfirmFails \/ ReleaseFails \/ CloseEscrow \/ ReleaseUnseen
  BY <1>4, <1>13 DEF Activate, ConfirmFails, ReleaseFails, CloseEscrow, ReleaseUnseen
<1>14. ASSUME NEW p, RecordDeposit(p)
       PROVE  Goal
  BY <1>4, <1>14 DEF RecordDeposit
<1>15. ASSUME NEW b, RecordPayment(b)
       PROVE  Goal
  BY <1>4, <1>15 DEF RecordPayment
<1>16. ASSUME NEW t \in Deposits, PartyDeposits(t) \/ ConfirmDeposit(t) \/ Record(t) \/ RecordFromProgram(t)
       PROVE  Goal
  BY <1>4, <1>14, <1>15, <1>16
     DEF PartyDeposits, ConfirmDeposit, Record, RecordFromProgram, db, statuses
<1>17. CASE ReleaseStored \/ PublishExecuted
  BY <1>0, <1>3, <1>6, <1>17 DEF ReleaseStored, PublishExecuted, JobsInv, Later
<1>18. ASSUME NEW j \in {"split", "cancel"}, JudgedLands(j) \/ JudgedFails(j)
       PROVE  Goal
  BY <1>3, <1>4, <1>6, <1>18 DEF JudgedLands, JudgedFails, Chain!Release
<1>19. CASE RefundLands
  BY <1>3, <1>4, <1>6, <1>19 DEF RefundLands
<1>20. CASE Crash
  BY <1>2, <1>20 DEF Crash
<1>21. CASE Recover
  <2>1. Stands(HealedRow)
    BY <1>0, HealedStands
  <2>2. CASE UNCHANGED status /\ statusFixed' \in Declared
    BY <1>2, <2>2, DeclaredType
  <2>3. ASSUME NEW d \in Reconciled(HealedRow), NEW after,
               after \in {d, At(d, "awaiting_deposits")}, after = d \/ d.pda,
               UNCHANGED statuses \/ Mark(StatusOf(after.phase))
        PROVE  Goal
    <3>1. Stands(d)
      BY <1>0, <2>1, ReconciledStands DEF IInv
    <3>2. Stands(after)
      BY <2>3, <3>1, Moved DEF Stands, Phases
    <3> QED BY <1>4, <1>5, <2>3, <3>2
  <2> QED BY <1>21, <2>2, <2>3 DEF Recover
<1>22. CASE \/ SelfHeal \/ AskCreate \/ StartPipeline \/ AskRelease \/ RefuseRelease
            \/ CreateSkipped \/ BeginRelease \/ ReleaseLands
            \/ PartyCancels \/ PartyCloses \/ Expire
  BY <1>4, <1>22 DEF SelfHeal, AskCreate, StartPipeline, AskRelease, RefuseRelease,
                     CreateSkipped, BeginRelease, ReleaseLands,
                     PartyCancels, PartyCloses, Expire, db, statuses
<1> QED
  BY <1>7, <1>8, <1>9, <1>10, <1>11, <1>12, <1>13, <1>16, <1>17, <1>18, <1>19, <1>20, <1>21,
     <1>22 DEF Next

Jobs == {"create", "activate", "release", "releasing", "released", "close", "publish", "split",
         "cancel"} \cup Deposits
\* A job that may be in progress after this step.
Justified(j) ==
    /\ j \in Jobs
    /\ j \in Deposits => Gone' \/ j \in flags'
    /\ j \in {"release", "releasing", "split"} => authorities' # {}
    /\ j \in {"released", "close", "publish"} => Gone' \/ onchain' = "Completed"

LEMMA JobsStep ==
  ASSUME IInv, Next, Later
  PROVE  \A j \in jobs' : Justified(j)
<1> DEFINE Goal == \A j \in jobs' : Justified(j)
<1>0. TypeOK /\ JobsInv /\ jobs \subseteq Jobs
  BY DEF IInv, TypeOK, Jobs
<1>1. \A j \in jobs : Justified(j)
  BY <1>0 DEF JobsInv, Justified, Later
<1>2. ASSUME jobs' \subseteq jobs
      PROVE  Goal
  BY <1>1, <1>2
<1>3. ASSUME NEW j, Justified(j), jobs' \subseteq jobs \cup {j}
      PROVE  Goal
  BY <1>1, <1>3
<1>4. ASSUME NEW j \in {"create", "activate", "cancel"}
      PROVE  Justified(j)
  BY <1>4 DEF Justified, Jobs, Deposits
<1>5. ASSUME NEW j \in {"release", "releasing", "split"}, authorities' # {}
      PROVE  Justified(j)
  BY <1>5 DEF Justified, Jobs, Deposits
<1>6. ASSUME NEW j \in {"released", "close", "publish"}, Gone' \/ onchain' = "Completed"
      PROVE  Justified(j)
  BY <1>6 DEF Justified, Jobs, Deposits
<1>7. CASE CreateEscrow \/ StartPipeline \/ Cancel \/ CreateLands
  BY <1>2, <1>3, <1>4, <1>7 DEF CreateEscrow, StartPipeline, Cancel, CreateLands
<1>8. CASE AcceptRelease
  BY <1>3, <1>5, <1>8 DEF AcceptRelease
<1>9. ASSUME NEW job \in {"cancel", "split", "release"}, Verdict(job)
      PROVE  Goal
  BY <1>3, <1>4, <1>5, <1>9 DEF Verdict
<1>10. ASSUME NEW t \in Deposits, ConfirmDeposit(t)
       PROVE  Goal
  <2>1. t \in flags' /\ jobs' = jobs \cup {t}
    BY <1>10 DEF ConfirmDeposit, Chain!Deposit
  <2>2. Justified(t)
    BY <2>1 DEF Justified, Jobs, Deposits
  <2> QED BY <1>3, <2>1, <2>2
<1>11. CASE BeginRelease
  <2>1. authorities' # {}
    BY <1>0, <1>11 DEF BeginRelease, JobsInv
  <2> QED BY <1>2, <1>3, <1>5, <1>11, <2>1 DEF BeginRelease
<1>12. CASE ReleaseLands
  <2>1. onchain' = "Completed"
    BY <1>12 DEF ReleaseLands, Chain!Release
  <2> QED BY <1>3, <1>6, <1>12, <2>1 DEF ReleaseLands
<1>13. CASE ReleaseStored \/ CloseEscrow
  <2>1. Gone' \/ onchain' = "Completed"
    BY <1>0, <1>13 DEF ReleaseStored, CloseEscrow, JobsInv, Later
  <2> QED BY <1>3, <1>6, <1>13, <2>1 DEF ReleaseStored, CloseEscrow
<1>14. CASE Recover
  <2>1. Stands(HealedRow)
    BY <1>0, HealedStands DEF IInv, DealsInv
  <2>2. CASE UNCHANGED jobs
    BY <1>2, <2>2
  <2>3. ASSUME NEW d \in Reconciled(HealedRow), NEW after,
               after \in {d, At(d, "awaiting_deposits")}, after = d \/ d.pda,
               jobs' = Retried(after)
        PROVE  Goal
    <3>1. Stands(d)
      BY <1>0, <2>1, ReconciledStands DEF IInv
    <3>2. Stands(after)
      BY <2>3, <3>1, Moved DEF Stands, Phases
    <3>3. Remains(after)
      BY <3>2, Kept
    <3>4. jobs' # {} => authorities' # {}
      BY <2>3, <3>3 DEF Retried, hasBuyerReleaseAuthorization, Remains, Sound, Truthful
    <3> QED BY <1>3, <1>5, <2>3, <3>4 DEF Retried
  <2> QED BY <1>14, <2>2, <2>3 DEF Recover
<1>15. CASE \/ LoadDeal \/ SelfHeal \/ AskCreate \/ AskRelease \/ RefuseRelease \/ Dispute
            \/ Advance \/ CreateFails \/ CreateSkipped \/ Activate \/ ConfirmFails \/ ReleaseFails
            \/ ReleaseUnseen \/ PublishExecuted
            \/ PartyCancels \/ RefundLands \/ PartyCloses \/ Expire \/ Crash
  <2>1. jobs' \subseteq jobs
    BY <1>15 DEF LoadDeal, SelfHeal, AskCreate, AskRelease, RefuseRelease, Dispute,
                 Advance, CreateFails, CreateSkipped, Activate, ConfirmFails, ReleaseFails,
                 ReleaseUnseen, PublishExecuted, PartyCancels, RefundLands, PartyCloses, Expire,
                 Crash, work
  <2> QED BY <1>2, <2>1
<1>16. ASSUME NEW t \in Deposits, PartyDeposits(t) \/ Record(t) \/ RecordFromProgram(t)
       PROVE  Goal
  BY <1>2, <1>16 DEF PartyDeposits, Record, RecordFromProgram, work
<1>17. ASSUME NEW j \in {"split", "cancel"}, JudgedLands(j) \/ JudgedFails(j)
       PROVE  Goal
  BY <1>2, <1>17 DEF JudgedLands, JudgedFails
<1> QED
  BY <1>7, <1>8, <1>9, <1>10, <1>11, <1>12, <1>13, <1>14, <1>15, <1>16, <1>17 DEF Next

\* The handlers, the record of the release and the bounds.
LEMMA AgentStep ==
  ASSUME IInv, Next
  PROVE  /\ record' \in {"none", "pending", "failed", "confirmed"}
         /\ pending' \subseteq {"create", "release"} /\ scene' \in Scenes
         /\ judging' \in 0..scene'.judges /\ crashes' \in 0..scene'.crashes /\ up' \in BOOLEAN
<1> DEFINE Goal == /\ record' \in {"none", "pending", "failed", "confirmed"}
                   /\ pending' \subseteq {"create", "release"} /\ scene' \in Scenes
                   /\ judging' \in 0..scene'.judges /\ crashes' \in 0..scene'.crashes
                   /\ up' \in BOOLEAN
<1>0. /\ record \in {"none", "pending", "failed", "confirmed"}
      /\ pending \subseteq {"create", "release"} /\ scene \in Scenes
      /\ judging \in 0..scene.judges /\ crashes \in 0..scene.crashes /\ up \in BOOLEAN
  BY DEF IInv, TypeOK
<1>1. scene.judges \in Nat /\ scene.crashes \in Nat
  BY <1>0, PhaseAssumption
<1>2. ASSUME record' \in {record, "pending", "failed", "confirmed"},
             pending' \subseteq pending \cup {"create", "release"}, judging' = judging,
             UNCHANGED agent
      PROVE  Goal
  BY <1>0, <1>2 DEF agent
<1>3. CASE Dispute
  BY <1>0, <1>1, <1>3 DEF Dispute, agent
<1>4. ASSUME NEW job, Verdict(job)
      PROVE  Goal
  BY <1>0, <1>1, <1>4 DEF Verdict, agent
<1>5. CASE Crash \/ Recover
  <2>1. CASE Crash
    <3>1. /\ up' = FALSE /\ crashes < scene.crashes /\ crashes' = crashes + 1
          /\ pending' = {} /\ judging' = 0 /\ UNCHANGED <<record, scene>>
      BY <2>1 DEF Crash
    <3>2. crashes' \in 0..scene'.crashes /\ judging' \in 0..scene'.judges
      BY <1>0, <1>1, <3>1
    <3>3. up' \in BOOLEAN /\ pending' \subseteq {"create", "release"}
      BY <3>1
    <3> QED BY <1>0, <3>1, <3>2, <3>3
  <2>2. CASE Recover
    <3>1. UNCHANGED <<record, pending, judging, crashes, scene>> /\ up' = TRUE
      BY <2>2 DEF Recover
    <3> QED BY <1>0, <3>1
  <2> QED BY <1>5, <2>1, <2>2
<1>6. CASE \/ LoadDeal \/ SelfHeal \/ AskCreate \/ CreateEscrow \/ StartPipeline
           \/ AskRelease \/ AcceptRelease \/ RefuseRelease \/ Cancel \/ Advance
           \/ CreateLands \/ CreateFails \/ CreateSkipped \/ Activate \/ ConfirmFails
  BY <1>2, <1>6 DEF LoadDeal, SelfHeal, AskCreate, CreateEscrow, StartPipeline, AskRelease,
                    AcceptRelease, RefuseRelease, Cancel, Advance, CreateLands, CreateFails,
                    CreateSkipped, Activate, ConfirmFails, work
<1>7. CASE \/ BeginRelease \/ ReleaseLands \/ ReleaseFails \/ ReleaseStored
           \/ CloseEscrow \/ ReleaseUnseen \/ PublishExecuted
           \/ PartyCancels \/ RefundLands \/ PartyCloses \/ Expire
  BY <1>2, <1>7 DEF BeginRelease, ReleaseLands, ReleaseFails, ReleaseStored, CloseEscrow,
                    ReleaseUnseen, PublishExecuted, PartyCancels, RefundLands, PartyCloses, Expire,
                    work
<1>8. ASSUME NEW t \in Deposits,
             PartyDeposits(t) \/ ConfirmDeposit(t) \/ Record(t) \/ RecordFromProgram(t)
      PROVE  Goal
  BY <1>2, <1>8 DEF PartyDeposits, ConfirmDeposit, Record, RecordFromProgram, work
<1>9. ASSUME NEW j \in {"split", "cancel"}, JudgedLands(j) \/ JudgedFails(j)
      PROVE  Goal
  BY <1>2, <1>9 DEF JudgedLands, JudgedFails
<1> QED
  BY <1>3, <1>4, <1>5, <1>6, <1>7, <1>8, <1>9 DEF Next

\* An agent that is down does nothing, and a handler does not outlive its deal.
LEMMA IdleStep ==
  ASSUME IInv, Next, Later
  PROVE  /\ ~up' => deal' = Absent /\ jobs' = {} /\ pending' = {} /\ judging' = 0
         /\ HandlersInv'
<1> DEFINE Goal == /\ ~up' => deal' = Absent /\ jobs' = {} /\ pending' = {} /\ judging' = 0
                   /\ HandlersInv'
<1>0. /\ ~up => deal = Absent /\ jobs = {} /\ pending = {} /\ judging = 0
      /\ up \in BOOLEAN
      /\ HandlersInv
      /\ deal' = Absent => deal = Absent \/ Crash
  BY DealsStep DEF IInv, TypeOK
<1>1. CASE Crash
  BY <1>1 DEF Crash, HandlersInv
<1>2. ASSUME UNCHANGED <<deal, work, agent>>
      PROVE  Goal
  BY <1>0, <1>2 DEF work, agent, HandlersInv
\* The agent is up, and what waits has a deal.
<1>3. ASSUME up, up', ~Crash, deal = Absent => pending' \subseteq pending /\ judging' = judging
      PROVE  Goal
  BY <1>0, <1>3 DEF HandlersInv
<1>4. CASE \/ LoadDeal \/ SelfHeal \/ AskCreate \/ StartPipeline \/ AskRelease \/ Dispute
           \/ Cancel \/ Advance \/ ConfirmFails
  BY <1>1, <1>3, <1>4 DEF LoadDeal, SelfHeal, AskCreate, StartPipeline, AskRelease, Dispute,
                          Cancel, Advance, ConfirmFails, work, agent
<1>5. CASE CreateEscrow \/ AcceptRelease \/ RefuseRelease
  BY <1>0, <1>1, <1>3, <1>5 DEF CreateEscrow, AcceptRelease, RefuseRelease, HandlersInv, agent
<1>6. ASSUME NEW job, Verdict(job)
      PROVE  Goal
  BY <1>0, <1>1, <1>3, <1>6 DEF Verdict, HandlersInv, agent
<1>7. CASE \/ CreateLands \/ CreateFails \/ CreateSkipped \/ Activate \/ BeginRelease
           \/ ReleaseLands \/ ReleaseFails \/ ReleaseStored \/ CloseEscrow \/ ReleaseUnseen
           \/ PublishExecuted
  BY <1>0, <1>1, <1>3, <1>7
     DEF CreateLands, CreateFails, CreateSkipped, Activate, BeginRelease, ReleaseLands,
         ReleaseFails, ReleaseStored, CloseEscrow, ReleaseUnseen, PublishExecuted, agent
<1>8. ASSUME NEW t \in Deposits, ConfirmDeposit(t) \/ Record(t) \/ RecordFromProgram(t)
      PROVE  Goal
  BY <1>0, <1>1, <1>3, <1>8 DEF ConfirmDeposit, Record, RecordFromProgram, work, agent
<1>9. ASSUME NEW j \in {"split", "cancel"}, JudgedLands(j) \/ JudgedFails(j)
      PROVE  Goal
  BY <1>0, <1>1, <1>3, <1>9 DEF JudgedLands, JudgedFails, agent
<1>10. CASE Recover
  <2>1. UNCHANGED <<pending, judging>> /\ up' /\ ~up
    BY <1>10 DEF Recover
  <2> QED BY <1>0, <2>1 DEF HandlersInv
<1>11. ASSUME \/ PartyCancels \/ RefundLands \/ PartyCloses \/ Expire
              \/ \E t \in Deposits : PartyDeposits(t)
       PROVE  Goal
  BY <1>2, <1>11 DEF PartyCancels, RefundLands, PartyCloses, Expire, PartyDeposits
<1> QED
  BY <1>1, <1>4, <1>5, <1>6, <1>7, <1>8, <1>9, <1>10, <1>11 DEF Next

-----------------------------------------------------------------------------
LEMMA InitStands == Init => IInv
<1> SUFFICES ASSUME Init PROVE IInv
  OBVIOUS
<1>1. Stands(Fresh)
  BY FreshSound DEF Stands
<1>2. row = Fresh /\ deal = Fresh /\ Fresh \in DealStates
  BY <1>1 DEF Init, Stands, Sound
<1>3. scene.judges \in Nat /\ scene.crashes \in Nat
  BY PhaseAssumption DEF Init
<1>4. TypeOK
  <2>1. rowFixed \in BOOLEAN
    <3>1. rowFixed \in {FALSE, scene.crashes > 0}
      BY DEF Init
    <3>2. {FALSE, scene.crashes > 0} \subseteq BOOLEAN
      OBVIOUS
    <3> QED BY <3>1, <3>2
  <2>2. Chain!TypeOK
    BY DEF Init, Chain!Init, Chain!TypeOK
  <2>3. judging \in 0..scene.judges /\ crashes \in 0..scene.crashes
    BY <1>3 DEF Init
  <2> QED BY <1>2, <2>1, <2>2, <2>3 DEF Init, TypeOK
<1> QED
  BY <1>1, <1>2, <1>4 DEF Init, IInv, ChainInv, JobsInv, HandlersInv, DealsInv, ReleaseAuthorized,
                          Chain!Init, Chain!Collaterals

LEMMA Invariance == IInv /\ [Next]_vars => IInv'
<1> SUFFICES ASSUME IInv, [Next]_vars PROVE IInv'
  OBVIOUS
<1>1. CASE Next
  <2>1. Later /\ ChainInv' /\ ReleaseAuthorized' /\ Chain!TypeOK' /\ made' \in BOOLEAN
        /\ authorities' \subseteq {"buyer", "judge"}
    BY <1>1, ChainStep
  <2>2. /\ Remains(row') /\ (deal' = Absent \/ Remains(deal')) /\ rowFixed' \in BOOLEAN
    BY <1>1, <2>1, DealsStep
  <2>3. HandlersInv' /\ (~up' => deal' = Absent /\ jobs' = {} /\ pending' = {} /\ judging' = 0)
    BY <1>1, <2>1, IdleStep
  <2>4. \A j \in jobs' : Justified(j)
    BY <1>1, <2>1, JobsStep
  <2>5. /\ status' \in {"none", "open"} \cup Healing /\ statusFixed' \in BOOLEAN
        /\ status' = "completed" => Gone' \/ onchain' = "Completed" \/ "judge" \in authorities'
    BY <1>1, <2>1, StatusStep
  <2>6. DealsInv'
    BY <2>2 DEF DealsInv, Stands, Remains
  <2>7. JobsInv'
    BY <2>4, <2>5 DEF JobsInv, Justified
  <2>8. row' \in DealStates /\ deal' \in DealStates \cup {Absent} /\ jobs' \subseteq Jobs
    BY <2>2, <2>4 DEF Remains, Sound, Justified
  <2>9. TypeOK'
    BY <1>1, <2>1, <2>2, <2>3, <2>5, <2>8, AgentStep DEF TypeOK, Jobs
  <2> QED BY <2>1, <2>3, <2>6, <2>7, <2>9 DEF IInv
<1>2. CASE UNCHANGED vars
  BY <1>2 DEF vars, IInv, TypeOK, ChainInv, JobsInv, HandlersInv, DealsInv, ReleaseAuthorized,
              Stands, Gone, Chain!TypeOK
<1> QED BY <1>1, <1>2

-----------------------------------------------------------------------------
THEOREM Inductive == Spec => []IInv
  BY InitStands, Invariance, PTL DEF Spec

\* Every variable has its type, whatever crashes, retries and disputes do.
THEOREM TypeCorrect == Spec => []TypeOK
<1>1. IInv => TypeOK
  BY DEF IInv
<1> QED BY <1>1, Inductive, PTL

\* "No Unauthorized Release": the program pays the seller only after a release of the buyer
\* was accepted or the judge ruled so.
THEOREM ReleasesAreAuthorized == Spec => []ReleaseAuthorized
<1>1. IInv => ReleaseAuthorized
  BY DEF IInv
<1> QED BY <1>1, Inductive, PTL

\* What is said of the deals that are known is what the invariant says of each.
LEMMA KnownStand ==
  ASSUME IInv, NEW d \in Known
  PROVE  Truthful(d, made, onchain, flags, authorities)
BY DEF IInv, DealsInv, Known, Stands, Sound

\* A collateral the agent counts, in memory or in the database, is flagged by the program.
THEOREM CountedIsConfirmed == Spec => []DepositsConfirmed
<1>1. IInv => DepositsConfirmed
  BY KnownStand DEF DepositsConfirmed, Truthful, Gone, FlagOf
<1> QED BY <1>1, Inductive, PTL

\* The seller is asked to deliver only when both collaterals are locked.
THEOREM DeliveryIsFunded == Spec => []DeliveryFunded
<1>1. IInv => DeliveryFunded
  BY KnownStand DEF DeliveryFunded, Truthful, Gone
<1> QED BY <1>1, Inductive, PTL

\* A deal shows as completed, unless by a verdict, only when the escrow has paid.
THEOREM CompletedWasPaid == Spec => []CompletedIsPaid
<1>1. IInv => CompletedIsPaid
  BY KnownStand DEF CompletedIsPaid, Truthful, Gone
<1> QED BY <1>1, Inductive, PTL
=============================================================================
