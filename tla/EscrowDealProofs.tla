--------------------------- MODULE EscrowDealProofs ---------------------------
(***************************************************************************)
(* Theorems about EscrowDeal, for every set of keys, of offers, of plain   *)
(* transfers, and for every deadline, amount and word size.                *)
(***************************************************************************)
EXTENDS EscrowDeal, TLAPS, FiniteSetTheorems

-----------------------------------------------------------------------------
(* The arithmetic of EscrowTerms. *)

\* The fields of an offer have the types of create_deal's arguments.
LEMMA OfferFields ==
    ASSUME NEW o \in Offers
    PROVE  /\ o.buyer \in Keys /\ o.seller \in Keys /\ o.middleman \in Keys
           /\ o.price \in Nat /\ o.collateral_buyer \in Nat /\ o.collateral_seller \in Nat
           /\ o.timeout \in Nat /\ o.trade_mode \in TradeModes
           /\ o # NoDeal
  <1>1. o \in OfferSet /\ o # NoDeal
    BY EscrowAssumption
  <1>2. QED BY <1>1, EscrowAssumption DEF OfferSet

\* What each deposit stands for.
LEMMA Amounts ==
    ASSUME NEW o \in Offers
    PROVE  /\ Amount(o, "BuyerCollateral") = o.collateral_buyer
           /\ Amount(o, "SellerCollateral") = o.collateral_seller
           /\ Amount(o, "BuyerPayment") = o.price
           /\ \A d \in Deposits : Amount(o, d) \in Nat
  BY OfferFields DEF Amount, Deposits

\* The fee is at most 1.1% of the price: it never eats the whole payment.
LEMMA FeeBound ==
    ASSUME NEW o \in Offers
    PROVE  /\ Fee(o) \in Nat
           /\ Fee(o) <= o.price
           /\ Fee(o) * 10000 <= o.price * 110
           /\ o.price > 0 => Fee(o) < o.price
  <1>1. o.price \in Nat BY OfferFields
  <1>2. CASE FeeBps(o) = 100
    <2>1. Fee(o) = (o.price * 100) \div 10000 BY <1>2 DEF Fee
    <2>2. QED BY <1>1, <2>1
  <1>3. CASE FeeBps(o) = 110
    <2>1. Fee(o) = (o.price * 110) \div 10000 BY <1>3 DEF Fee
    <2>2. QED BY <1>1, <2>1
  <1>4. QED BY <1>2, <1>3 DEF FeeBps

\* The release split pays out exactly the three deposits.
LEMMA SplitTotal ==
    ASSUME NEW o \in Offers
    PROVE  /\ ReleaseSplit(o) \in [Roles -> Nat]
           /\ Total(ReleaseSplit(o)) = o.collateral_buyer + o.collateral_seller + o.price
  <1>1. /\ o.price \in Nat /\ o.collateral_buyer \in Nat /\ o.collateral_seller \in Nat
        /\ Fee(o) \in Nat /\ Fee(o) <= o.price
    BY OfferFields, FeeBound
  <1>2. (o.price - Fee(o)) + o.collateral_seller \in Nat BY <1>1
  <1>3. QED BY <1>1, <1>2 DEF ReleaseSplit, Total, Roles

\* What is owed, written out, for any flags.
LEMMA OwedValue ==
    ASSUME NEW o \in Offers, NEW L
    PROVE  /\ OwedBy(o, L) \in [Roles -> Nat]
           /\ OwedBy(o, L)["buyer"] = (IF "BuyerCollateral" \in L THEN o.collateral_buyer ELSE 0)
                                      + (IF "BuyerPayment" \in L THEN o.price ELSE 0)
           /\ OwedBy(o, L)["seller"] = IF "SellerCollateral" \in L THEN o.collateral_seller ELSE 0
           /\ OwedBy(o, L)["middleman"] = 0
           /\ Total(OwedBy(o, L)) \in Nat
  <1>1. /\ o.price \in Nat /\ o.collateral_buyer \in Nat /\ o.collateral_seller \in Nat
    BY OfferFields
  <1>2. /\ Flagged(o, L, "BuyerCollateral") = IF "BuyerCollateral" \in L THEN o.collateral_buyer ELSE 0
        /\ Flagged(o, L, "SellerCollateral") = IF "SellerCollateral" \in L THEN o.collateral_seller ELSE 0
        /\ Flagged(o, L, "BuyerPayment") = IF "BuyerPayment" \in L THEN o.price ELSE 0
    BY Amounts DEF Flagged
  <1>3. QED BY <1>1, <1>2 DEF OwedBy, Total, Roles

\* Nothing is owed while no flag is set.
LEMMA NothingOwed ==
    ASSUME NEW o
    PROVE  OwedBy(o, {}) = Zero /\ Total(Zero) = 0
  <1>1. /\ Flagged(o, {}, "BuyerCollateral") = 0
        /\ Flagged(o, {}, "SellerCollateral") = 0
        /\ Flagged(o, {}, "BuyerPayment") = 0
    BY DEF Flagged
  <1>2. OwedBy(o, {}) = [buyer |-> 0, seller |-> 0, middleman |-> 0]
    BY <1>1 DEF OwedBy
  <1>3. Zero = [buyer |-> 0, seller |-> 0, middleman |-> 0]
    BY DEF Zero, Roles
  <1>4. Total(Zero) = 0
    BY DEF Total, Zero, Roles
  <1>5. QED BY <1>2, <1>3, <1>4

-----------------------------------------------------------------------------
(* Type correctness. *)

LEMMA InitType == Init => TypeOK
  <1>1. Zero \in [Roles -> Nat] BY DEF Zero
  <1>2. 0 \in 0..MaxU64 BY EscrowAssumption
  <1> SUFFICES ASSUME Init PROVE TypeOK
    OBVIOUS
  <1>3. wallet \in [Keys -> Nat] BY EscrowAssumption DEF Init
  <1>4. stake \in [Roles -> Nat] /\ got \in [Roles -> Nat] BY <1>1 DEF Init
  <1>5. pda \in 0..MaxU64 /\ ata \in 0..MaxU64 BY <1>2 DEF Init
  <1>6. authority \in Keys \cup {NoKey} /\ signer \in Keys \cup {NoKey} BY DEF Init
  <1>7. deal \in Offers \cup {NoDeal} /\ (deal = NoDeal <=> status = "None") BY DEF Init
  <1>8. QED BY <1>3, <1>4, <1>5, <1>6, <1>7 DEF Init, TypeOK

\* A settlement of any split of naturals keeps the types.
LEMMA SettleType ==
    ASSUME TypeOK, HasDeal, NEW k \in Keys, NEW pay \in [Roles -> Nat],
           NEW final \in {"Completed", "Refunded", "Cancelled"}, Settle(k, pay, final)
    PROVE  TypeOK'
  <1>1. Total(pay) \in Nat BY DEF Total, Roles
  <1>2. pda' \in 0..MaxU64 /\ ata' \in 0..MaxU64
    BY <1>1, EscrowAssumption DEF Settle, PayOut, Covered, Vault, TypeOK
  <1>3. Credited(pay) \in [Keys -> Nat]
    BY DEF Credited, TypeOK, Roles
  <1>4. got' \in [Roles -> Nat]
    BY DEF Settle, TypeOK
  <1>5. QED BY <1>2, <1>3, <1>4 DEF Settle, PayOut, TypeOK, HasDeal

\* Moving the amount of a deposit in keeps the types of what it changes.
LEMMA MoveInType ==
    ASSUME TypeOK, HasDeal, NEW k \in Keys, NEW d \in Deposits, NEW r \in Roles, MoveIn(k, d, r)
    PROVE  /\ ata' \in 0..MaxU64 /\ wallet' \in [Keys -> Nat]
           /\ stake' \in [Roles -> Nat] /\ locked' \in SUBSET Deposits
  <1>1. Amount(deal, d) \in Nat BY Amounts DEF TypeOK, HasDeal
  <1>2. QED BY <1>1, EscrowAssumption DEF MoveIn, TypeOK

LEMMA NextType == TypeOK /\ [Next]_vars => TypeOK'
  <1> SUFFICES ASSUME TypeOK, [Next]_vars PROVE TypeOK'
    OBVIOUS
  <1>1. ASSUME NEW k \in Keys, InitializeConfig(k) PROVE TypeOK'
    BY <1>1 DEF InitializeConfig, TypeOK
  <1>2. ASSUME NEW k \in Keys, NEW p \in BOOLEAN, SetPaused(k, p) PROVE TypeOK'
    BY <1>2 DEF SetPaused, TypeOK
  <1>3. ASSUME NEW k \in Keys, NEW o \in Offers, CreateDeal(k, o) PROVE TypeOK'
    <2>1. o # NoDeal BY OfferFields
    <2>2. QED BY <1>3, <2>1 DEF CreateDeal, TypeOK
  <1>4. ASSUME NEW k \in Keys, LockCollateral(k) PROVE TypeOK'
    <2>1. HasDeal BY <1>4 DEF LockCollateral, LockCollateralAccounts
    <2>2. \E d \in Deposits, r \in Roles : MoveIn(k, d, r)
      BY <1>4 DEF LockCollateral, Deposits, Roles
    <2>3. /\ ata' \in 0..MaxU64 /\ wallet' \in [Keys -> Nat]
          /\ stake' \in [Roles -> Nat] /\ locked' \in SUBSET Deposits
      BY <2>1, <2>2, MoveInType
    <2>4. QED BY <1>4, <2>1, <2>3 DEF LockCollateral, Advanced, TypeOK, HasDeal
  <1>5. ASSUME NEW k \in Keys, LockPayment(k) PROVE TypeOK'
    <2>1. HasDeal BY <1>5 DEF LockPayment, LockPaymentAccounts
    <2>2. MoveIn(k, "BuyerPayment", "buyer") BY <1>5 DEF LockPayment
    <2>3. /\ ata' \in 0..MaxU64 /\ wallet' \in [Keys -> Nat]
          /\ stake' \in [Roles -> Nat] /\ locked' \in SUBSET Deposits
      BY <2>1, <2>2, MoveInType DEF Deposits, Roles
    <2>4. QED BY <1>5, <2>1, <2>3 DEF LockPayment, TypeOK, HasDeal
  <1>6. ASSUME NEW k \in Keys, NEW d \in Deposits, ConfirmDeposit(k, d) PROVE TypeOK'
    <2>1. locked' \in SUBSET Deposits BY <1>6 DEF ConfirmDeposit, TypeOK
    <2>2. status' \in {"Created", "CollateralLocked", "PaymentLocked"}
      BY <1>6 DEF ConfirmDeposit, Advanced
    <2>3. HasDeal BY <1>6 DEF ConfirmDeposit, ConfirmDepositAccounts
    <2>4. QED BY <1>6, <2>1, <2>2, <2>3 DEF ConfirmDeposit, TypeOK, HasDeal
  <1>7. ASSUME NEW k \in Keys, ReleaseFunds(k) PROVE TypeOK'
    <2>1. HasDeal /\ Settle(k, ReleaseSplit(deal), "Completed")
      BY <1>7 DEF ReleaseFunds, ReleaseFundsAccounts
    <2>2. ReleaseSplit(deal) \in [Roles -> Nat] BY <2>1, SplitTotal DEF TypeOK, HasDeal
    <2>3. QED BY <2>1, <2>2, SettleType
  <1>8. ASSUME NEW k \in Keys, CancelDeal(k) PROVE TypeOK'
    <2>1. HasDeal /\ Settle(k, OwedBy(deal, locked \ {"BuyerPayment"}), "Cancelled")
      BY <1>8 DEF CancelDeal, CancelDealAccounts
    <2>2. OwedBy(deal, locked \ {"BuyerPayment"}) \in [Roles -> Nat]
      BY <2>1, OwedValue DEF TypeOK, HasDeal
    <2>3. QED BY <2>1, <2>2, SettleType
  <1>9. ASSUME NEW k \in Keys, RefundOnTimeout(k) PROVE TypeOK'
    <2>1. HasDeal /\ Settle(k, Owed, "Refunded")
      BY <1>9 DEF RefundOnTimeout, RefundOnTimeoutAccounts
    <2>2. Owed \in [Roles -> Nat] BY <2>1, OwedValue DEF TypeOK, HasDeal, Owed
    <2>3. QED BY <2>1, <2>2, SettleType
  <1>10. ASSUME NEW k \in Keys, NEW receiver \in Keys, CloseDeal(k, receiver) PROVE TypeOK'
    <2>1. Zero \in [Roles -> Nat] BY DEF Zero
    <2>2. pda \in Nat /\ ata \in Nat /\ 0 \in 0..MaxU64 BY EscrowAssumption DEF TypeOK
    <2>3. wallet' \in [Keys -> Nat] BY <1>10, <2>2 DEF CloseDeal, TypeOK
    <2>4. QED BY <1>10, <2>1, <2>2, <2>3 DEF CloseDeal, TypeOK
  <1>11. ASSUME NEW k \in Keys, NEW p \in Hashes, RevealTerms(k, p) PROVE TypeOK'
    BY <1>11 DEF RevealTerms, TypeOK
  <1>12. ASSUME NEW k \in Keys, NEW n \in Gifts, PlainTransfer(k, n) PROVE TypeOK'
    <2>1. n \in Nat BY EscrowAssumption
    <2>2. QED BY <1>12, <2>1, EscrowAssumption DEF PlainTransfer, Vault, TypeOK
  <1>13. CASE Tick
    BY <1>13 DEF Tick, TypeOK
  <1>14. CASE UNCHANGED vars
    BY <1>14 DEF vars, TypeOK
  <1>15. QED
    BY <1>1, <1>2, <1>3, <1>4, <1>5, <1>6, <1>7, <1>8, <1>9, <1>10, <1>11, <1>12, <1>13, <1>14
    DEF Next

\* Every variable keeps its type, and an account exists exactly when the status is
\* one of Deal's: what create_deal, the settlements and close_deal must agree on.
THEOREM TypeCorrect == Spec => []TypeOK
  BY InitType, NextType, PTL DEF Spec

-----------------------------------------------------------------------------
(* The inductive invariant: one lemma per kind of step. *)

\* The values the invariant talks about, for a deal that exists.
LEMMA DealValues ==
    ASSUME TypeOK, HasDeal
    PROVE  /\ deal \in Offers
           /\ deal.price \in Nat /\ deal.collateral_buyer \in Nat /\ deal.collateral_seller \in Nat
           /\ Owed \in [Roles -> Nat]
           /\ Owed["buyer"] = (IF "BuyerCollateral" \in locked THEN deal.collateral_buyer ELSE 0)
                              + (IF "BuyerPayment" \in locked THEN deal.price ELSE 0)
           /\ Owed["seller"] = IF "SellerCollateral" \in locked THEN deal.collateral_seller ELSE 0
           /\ Owed["middleman"] = 0
           /\ Locked = Owed["buyer"] + Owed["seller"]
           /\ Locked \in Nat
  <1>1. deal \in Offers BY DEF TypeOK, HasDeal
  <1>2. QED BY <1>1, OwedValue, OfferFields DEF Owed, Locked, Total, Roles

\* Acknowledging a deposit that was not flagged before adds its amount to what its
\* role is owed, and to nothing else.
LEMMA FlagOne ==
    ASSUME NEW o \in Offers, NEW L \in SUBSET Deposits, NEW d \in Deposits, d \notin L
    PROVE  /\ OwedBy(o, L \cup {d}) =
                [OwedBy(o, L) EXCEPT ![IF d = "SellerCollateral" THEN "seller" ELSE "buyer"] =
                    @ + Amount(o, d)]
           /\ Total(OwedBy(o, L \cup {d})) = Total(OwedBy(o, L)) + Amount(o, d)
  <1> DEFINE M == L \cup {d}
  <1>1. /\ OwedBy(o, L) \in [Roles -> Nat] /\ OwedBy(o, M) \in [Roles -> Nat]
        /\ OwedBy(o, L)["buyer"] = (IF "BuyerCollateral" \in L THEN o.collateral_buyer ELSE 0)
                                   + (IF "BuyerPayment" \in L THEN o.price ELSE 0)
        /\ OwedBy(o, L)["seller"] = IF "SellerCollateral" \in L THEN o.collateral_seller ELSE 0
        /\ OwedBy(o, L)["middleman"] = 0
        /\ OwedBy(o, M)["buyer"] = (IF "BuyerCollateral" \in M THEN o.collateral_buyer ELSE 0)
                                   + (IF "BuyerPayment" \in M THEN o.price ELSE 0)
        /\ OwedBy(o, M)["seller"] = IF "SellerCollateral" \in M THEN o.collateral_seller ELSE 0
        /\ OwedBy(o, M)["middleman"] = 0
    BY OwedValue
  <1>2. /\ o.price \in Nat /\ o.collateral_buyer \in Nat /\ o.collateral_seller \in Nat
    BY OfferFields
  <1>3. /\ Amount(o, "BuyerCollateral") = o.collateral_buyer
        /\ Amount(o, "SellerCollateral") = o.collateral_seller
        /\ Amount(o, "BuyerPayment") = o.price
    BY Amounts
  <1> DEFINE r == IF d = "SellerCollateral" THEN "seller" ELSE "buyer"
  <1>4. /\ OwedBy(o, M)["buyer"] = OwedBy(o, L)["buyer"] + (IF r = "buyer" THEN Amount(o, d) ELSE 0)
        /\ OwedBy(o, M)["seller"] = OwedBy(o, L)["seller"] + (IF r = "seller" THEN Amount(o, d) ELSE 0)
    BY <1>1, <1>2, <1>3 DEF Deposits
  <1>5. Amount(o, d) \in Nat BY Amounts
  <1> HIDE DEF M
  <1>6. OwedBy(o, M) = [OwedBy(o, L) EXCEPT ![r] = @ + Amount(o, d)]
    BY <1>1, <1>4, <1>5 DEF Roles
  <1>7. Total(OwedBy(o, M)) = Total(OwedBy(o, L)) + Amount(o, d)
    BY <1>1, <1>4, <1>5 DEF Total, Roles
  <1>8. QED BY <1>6, <1>7 DEF M

\* The invariant is about these variables only.
LEMMA MoneylessStep ==
    ASSUME IInv, TypeOK', UNCHANGED <<status, deal, locked, pda, ata, stake, got, plain>>
    PROVE  IInv'
  BY DEF IInv, FlagsMatchStatus, Solvent, NativeCovered, StakeOwed, PaidExactly, Accounted,
         Live, HasDeal, Locked, Owed, Vault

LEMMA InitInv == Init => IInv
  <1> SUFFICES ASSUME Init PROVE IInv
    OBVIOUS
  <1>1. TypeOK BY InitType
  <1>2. Owed = Zero /\ Total(Zero) = 0 BY NothingOwed DEF Init, Owed
  <1>3. \A r \in Roles : stake[r] <= Owed[r]
    <2>1. \A r \in Roles : Zero[r] <= Zero[r] BY DEF Zero
    <2>2. QED BY <1>2, <2>1 DEF Init
  <1>4. pda + ata + Total(got) = Total(stake) + plain BY <1>2 DEF Init
  <1>5. QED
    BY <1>1, <1>2, <1>3, <1>4 DEF Init, IInv, FlagsMatchStatus, Solvent, NativeCovered,
       StakeOwed, PaidExactly, Accounted, Live, HasDeal

LEMMA CreateInv ==
    ASSUME IInv, TypeOK', NEW k \in Keys, NEW o \in Offers, CreateDeal(k, o)
    PROVE  IInv'
  <1>1. status = "None" /\ status' = "Created" /\ locked' = {}
    BY DEF CreateDeal, CreateDealAccounts, HasDeal
  <1>2. stake = Zero /\ stake' = Zero /\ got = Zero /\ got' = Zero
    BY <1>1 DEF CreateDeal, IInv, StakeOwed, PaidExactly, HasDeal
  <1>3. Owed' = Zero /\ Total(Zero) = 0 BY <1>1, NothingOwed DEF Owed
  <1>4. Locked' = 0 BY <1>3 DEF Locked
  <1>5. pda' \in Nat /\ ata' \in Nat /\ 0 <= MaxU64 BY EscrowAssumption DEF TypeOK
  <1>6. Solvent' /\ NativeCovered'
    <2>1. Locked' <= pda' + Total(stake')
      <3>1. Total(stake') = 0 /\ Total(stake') \in Nat BY <1>2, <1>3
      <3>2. ASSUME NEW t \in Nat, NEW q \in Nat PROVE 0 <= q + t OBVIOUS
      <3>3. pda' \in Nat BY <1>5
      <3>4. 0 <= pda' + Total(stake') BY <3>1, <3>2, <3>3
      <3>5. QED BY <1>4, <3>4
    <2>2. Solvent' BY <1>4, <1>5 DEF Solvent, Vault
    <2>3. NativeCovered' BY <2>1 DEF NativeCovered
    <2>4. QED BY <2>2, <2>3
  <1>7. StakeOwed'
    <2>1. \A r \in Roles : Zero[r] <= Zero[r] BY DEF Zero
    <2>2. \A r \in Roles : stake'[r] <= Owed'[r] BY <1>2, <1>3, <2>1
    <2>3. QED BY <1>2, <2>2 DEF StakeOwed
  <1>8. FlagsMatchStatus' BY <1>1 DEF FlagsMatchStatus
  <1>9. PaidExactly' BY <1>1, <1>2 DEF PaidExactly, Live
  <1>10. Accounted' BY DEF CreateDeal, IInv, Accounted
  <1>11. QED BY <1>6, <1>7, <1>8, <1>9, <1>10 DEF IInv

\* A deposit that lock_collateral or lock_payment moves in.
LEMMA MoveInInv ==
    ASSUME IInv, TypeOK', NEW k \in Keys, NEW d \in Deposits, d \notin locked, Live, Live',
           FlagsMatchStatus', MoveIn(k, d, IF d = "SellerCollateral" THEN "seller" ELSE "buyer"),
           UNCHANGED <<deal, pda, got, plain>>
    PROVE  IInv'
  <1> DEFINE r == IF d = "SellerCollateral" THEN "seller" ELSE "buyer"
             a == Amount(deal, d)
  <1>1. TypeOK /\ HasDeal /\ HasDeal' BY DEF IInv, Live, HasDeal
  <1>2. deal \in Offers /\ a \in Nat BY <1>1, DealValues, Amounts
  <1>3. Owed' = [Owed EXCEPT ![r] = @ + a] /\ Locked' = Locked + a
    BY <1>1, <1>2, FlagOne DEF MoveIn, Owed, Locked, TypeOK
  <1>4. /\ ata' = ata + a /\ stake' = [stake EXCEPT ![r] = @ + a]
    BY DEF MoveIn
  <1>5. /\ stake \in [Roles -> Nat] /\ Owed \in [Roles -> Nat] /\ Locked \in Nat
        /\ ata \in Nat /\ pda \in Nat /\ plain \in Nat /\ ata' <= MaxU64 /\ got \in [Roles -> Nat]
        /\ MaxU64 \in Nat
    BY <1>1, DealValues, EscrowAssumption DEF TypeOK
  <1> HIDE DEF a
  <1>6. Total(stake') = Total(stake) + a
    BY <1>2, <1>4, <1>5 DEF Total, Roles
  <1>7. Total(stake) \in Nat /\ Total(got) \in Nat
    BY <1>5 DEF Total, Roles
  <1>8. ~Native => Solvent'
    BY <1>2, <1>3, <1>4, <1>5 DEF IInv, Solvent, Vault
  <1>9. NativeCovered'
    BY <1>2, <1>3, <1>5, <1>6, <1>7 DEF IInv, NativeCovered
  <1>10. StakeOwed'
    BY <1>1, <1>2, <1>3, <1>4, <1>5 DEF IInv, StakeOwed, Roles
  <1>11. PaidExactly'
    BY DEF IInv, PaidExactly, Live
  <1>12. Accounted'
    BY <1>2, <1>4, <1>5, <1>6, <1>7 DEF IInv, Accounted
  <1>13. QED BY <1>8, <1>9, <1>10, <1>11, <1>12 DEF IInv

\* confirm_deposit: what it checks against the balance is everything owed afterwards.
LEMMA ConfirmInv ==
    ASSUME IInv, TypeOK', NEW k \in Keys, NEW d \in Deposits, ConfirmDeposit(k, d)
    PROVE  IInv'
  <1>1. /\ HasDeal /\ HasDeal' /\ Live /\ Live' /\ TypeOK /\ deal' = deal
        /\ locked' = locked \cup {d} /\ d \notin locked
        /\ Expected(d) <= MaxU64 /\ Expected(d) <= Vault
        /\ UNCHANGED <<pda, ata, stake, got, plain>>
    BY DEF ConfirmDeposit, ConfirmDepositAccounts, HasDeal, Live, Advanced, IInv
  <1>2. /\ status = IF d = "BuyerPayment" THEN "CollateralLocked" ELSE "Created"
        /\ status' = IF d = "BuyerPayment" THEN "PaymentLocked" ELSE Advanced(locked')
    BY DEF ConfirmDeposit
  <1>3. locked \in {{}, {"BuyerCollateral"}, {"SellerCollateral"},
                    {"BuyerCollateral", "SellerCollateral"}}
        /\ (d = "BuyerPayment" => locked = {"BuyerCollateral", "SellerCollateral"})
        /\ (d # "BuyerPayment" => locked \in {{}, {"BuyerCollateral"}, {"SellerCollateral"}})
    BY <1>2 DEF IInv, FlagsMatchStatus
  <1>4. deal \in Offers /\ deal' \in Offers BY <1>1, DealValues
  <1>5. /\ deal.price \in Nat /\ deal.collateral_buyer \in Nat /\ deal.collateral_seller \in Nat
    BY <1>1, DealValues
  <1>6. Owed' = [Owed EXCEPT ![IF d = "SellerCollateral" THEN "seller" ELSE "buyer"] =
                    @ + Amount(deal, d)]
        /\ Locked' = Locked + Amount(deal, d)
    BY <1>1, <1>4, FlagOne DEF Owed, Locked, TypeOK
  <1>7. Expected(d) = Locked'
    <2>1. /\ Flagged(deal, locked, "SellerCollateral") =
               IF "SellerCollateral" \in locked THEN deal.collateral_seller ELSE 0
          /\ Flagged(deal, locked, "BuyerCollateral") =
               IF "BuyerCollateral" \in locked THEN deal.collateral_buyer ELSE 0
      BY <1>4, Amounts DEF Flagged
    <2>2. Locked = (IF "BuyerCollateral" \in locked THEN deal.collateral_buyer ELSE 0)
                   + (IF "BuyerPayment" \in locked THEN deal.price ELSE 0)
                   + (IF "SellerCollateral" \in locked THEN deal.collateral_seller ELSE 0)
      BY <1>1, DealValues
    <2>3. CASE d = "BuyerPayment"
      <3>1. Amount(deal, d) = deal.price BY <2>3, <1>4, Amounts
      <3>2. Locked = deal.collateral_buyer + deal.collateral_seller
        BY <2>2, <2>3, <1>3, <1>5
      <3>3. Expected(d) = deal.collateral_buyer + deal.collateral_seller + deal.price
        BY <2>3 DEF Expected
      <3>4. QED BY <3>1, <3>2, <3>3, <1>5, <1>6
    <2>4. CASE d = "BuyerCollateral"
      <3>1. Amount(deal, d) = deal.collateral_buyer BY <2>4, <1>4, Amounts
      <3>2. Expected(d) = deal.collateral_buyer + Flagged(deal, locked, "SellerCollateral")
        BY <2>4 DEF Expected
      <3>3. QED BY <3>1, <3>2, <2>1, <2>2, <2>4, <1>1, <1>3, <1>5, <1>6
    <2>5. CASE d = "SellerCollateral"
      <3>1. Amount(deal, d) = deal.collateral_seller BY <2>5, <1>4, Amounts
      <3>2. Expected(d) = deal.collateral_seller + Flagged(deal, locked, "BuyerCollateral")
        BY <2>5 DEF Expected
      <3>3. QED BY <3>1, <3>2, <2>1, <2>2, <2>5, <1>1, <1>3, <1>5, <1>6
    <2>6. QED BY <2>3, <2>4, <2>5 DEF Deposits
  <1>8. Locked' <= Vault' /\ Locked' <= MaxU64 BY <1>1, <1>7 DEF Vault
  <1>9. FlagsMatchStatus'
    BY <1>1, <1>2, <1>3 DEF FlagsMatchStatus, Advanced, Deposits
  <1>10. Total(stake') \in Nat /\ pda' \in Nat /\ Locked' \in Nat
    <2>1. Locked \in Nat /\ Amount(deal, d) \in Nat BY <1>1, <1>4, DealValues, Amounts
    <2>2. QED BY <1>6, <2>1 DEF TypeOK, Total, Roles
  <1>11. Solvent' /\ NativeCovered'
    BY <1>1, <1>8, <1>10 DEF Solvent, NativeCovered, Vault
  <1>12. StakeOwed'
    <2>1. Amount(deal, d) \in Nat /\ Owed \in [Roles -> Nat] /\ stake \in [Roles -> Nat]
      BY <1>1, <1>4, DealValues, Amounts DEF TypeOK
    <2>2. QED BY <1>1, <1>6, <2>1 DEF IInv, StakeOwed, Roles
  <1>13. PaidExactly' BY <1>1 DEF IInv, PaidExactly, Live
  <1>14. Accounted' BY <1>1 DEF IInv, Accounted
  <1>15. QED BY <1>9, <1>11, <1>12, <1>13, <1>14 DEF IInv

\* A settlement whose split is the one its final status stands for.
LEMMA SettleInv ==
    ASSUME IInv, TypeOK', HasDeal, Live, NEW k \in Keys, NEW pay \in [Roles -> Nat],
           NEW final \in {"Completed", "Refunded", "Cancelled"}, Settle(k, pay, final),
           Total(pay) = Locked,
           final = "Completed" => pay = ReleaseSplit(deal) /\ locked = Deposits,
           final # "Completed" => pay = Owed,
           final = "Cancelled" => "BuyerPayment" \notin locked
    PROVE  IInv'
  <1>1. /\ status' = final /\ UNCHANGED <<deal, locked, stake, plain>> /\ HasDeal'
        /\ Owed' = Owed /\ Locked' = Locked
    BY DEF Settle, HasDeal, Owed, Locked
  <1>2. got = Zero BY DEF IInv, PaidExactly
  <1>3. got' = pay
    <2>1. got' = [r \in Roles |-> 0 + pay[r]] BY <1>2 DEF Settle, Zero
    <2>2. QED BY <2>1
  <1>4. ~Live' BY <1>1 DEF Live
  <1>5. Solvent' /\ NativeCovered' BY <1>4 DEF Solvent, NativeCovered
  <1>6. StakeOwed' BY <1>1 DEF IInv, StakeOwed
  <1>7. FlagsMatchStatus' BY <1>1 DEF FlagsMatchStatus
  <1>8. PaidExactly'
    <2>1. Total(got') = Locked' BY <1>1, <1>3
    <2>2. final = "Completed" => got' = ReleaseSplit(deal') BY <1>1, <1>3
    <2>3. final # "Completed" => got' = Owed' BY <1>1, <1>3
    <2>4. ~(status' = "None" \/ Live') BY <1>1, <1>4
    <2>5. QED BY <1>1, <2>1, <2>2, <2>3, <2>4 DEF PaidExactly
  <1>9. Accounted'
    <2>1. Total(got) = 0 /\ Total(got') = Total(pay) BY <1>2, <1>3, NothingOwed
    <2>2. Total(pay) \in Nat BY DEF Total, Roles
    <2>3. pda \in Nat /\ ata \in Nat BY EscrowAssumption DEF IInv, TypeOK
    <2>4. pda' + ata' + Total(pay) = pda + ata
      <3>1. CASE Native
        <4>1. pda' = pda - Total(pay) /\ ata' = ata BY <3>1 DEF Settle, PayOut
        <4>2. QED BY <4>1, <2>2, <2>3
      <3>2. CASE ~Native
        <4>1. pda' = pda /\ ata' = ata - Total(pay) BY <3>2 DEF Settle, PayOut
        <4>2. QED BY <4>1, <2>2, <2>3
      <3>3. QED BY <3>1, <3>2
    <2>5. pda + ata + 0 = Total(stake) + plain BY <2>1 DEF IInv, Accounted
    <2>6. Total(stake)' + plain' = Total(stake) + plain BY <1>1
    <2>7. pda + ata + 0 = pda + ata BY <2>3
    <2>8. QED BY <2>1, <2>4, <2>5, <2>6, <2>7 DEF Accounted
  <1>10. QED BY <1>5, <1>6, <1>7, <1>8, <1>9 DEF IInv

LEMMA CloseInv ==
    ASSUME IInv, TypeOK', NEW k \in Keys, NEW receiver \in Keys, CloseDeal(k, receiver)
    PROVE  IInv'
  <1>1. /\ status' = "None" /\ locked' = {} /\ stake' = Zero /\ got' = Zero
        /\ pda' = 0 /\ ata' = ata /\ plain' = ata
    BY DEF CloseDeal
  <1>2. ~Live' /\ ~HasDeal' BY <1>1 DEF Live, HasDeal
  <1>3. Owed' = Zero /\ Total(Zero) = 0 BY <1>1, NothingOwed DEF Owed
  <1>4. Solvent' /\ NativeCovered' BY <1>2 DEF Solvent, NativeCovered
  <1>5. StakeOwed'
    <2>1. \A r \in Roles : Zero[r] <= Zero[r] BY DEF Zero
    <2>2. \A r \in Roles : stake'[r] <= Owed'[r] BY <1>1, <1>3, <2>1
    <2>3. QED BY <1>1, <2>2 DEF StakeOwed
  <1>6. FlagsMatchStatus' BY <1>1 DEF FlagsMatchStatus
  <1>7. PaidExactly' BY <1>1 DEF PaidExactly
  <1>8. Accounted'
    <2>1. Total(got') = 0 /\ Total(stake') = 0 BY <1>1, <1>3
    <2>2. ata \in Nat BY EscrowAssumption DEF IInv, TypeOK
    <2>3. 0 + ata + 0 = 0 + ata BY <2>2
    <2>4. QED BY <1>1, <2>1, <2>3 DEF Accounted
  <1>9. QED BY <1>4, <1>5, <1>6, <1>7, <1>8 DEF IInv

LEMMA PlainInv ==
    ASSUME IInv, TypeOK', NEW k \in Keys, NEW n \in Gifts, PlainTransfer(k, n)
    PROVE  IInv'
  <1>1. /\ UNCHANGED <<status, deal, locked, stake, got>> /\ plain' = plain + n
        /\ Owed' = Owed /\ Locked' = Locked /\ (Live' <=> Live) /\ (HasDeal' <=> HasDeal)
    BY DEF PlainTransfer, Owed, Locked, Live, HasDeal
  <1>2. n \in Nat /\ pda \in Nat /\ ata \in Nat /\ plain \in Nat
    BY EscrowAssumption DEF IInv, TypeOK
  <1>3. pda' + ata' = pda + ata + n /\ pda' \in Nat /\ ata' \in Nat /\ pda' >= pda /\ ata' >= ata
    BY <1>2 DEF PlainTransfer
  <1>4. Total(got) \in Nat /\ Total(stake) \in Nat
    BY DEF IInv, TypeOK, Total, Roles
  <1>5. Live => Locked \in Nat BY DealValues DEF IInv, Live, HasDeal
  <1>6. Vault' >= Vault /\ Vault \in Nat /\ Vault' \in Nat BY <1>2, <1>3 DEF Vault
  <1>7. ~Native => Solvent'
    <2>1. ~Native /\ Live => Locked <= Vault /\ Locked <= MaxU64 BY DEF IInv, Solvent
    <2>2. ~Native /\ Live => Locked <= Vault' BY <2>1, <1>5, <1>6
    <2>3. QED BY <1>1, <2>1, <2>2 DEF Solvent
  <1>8. NativeCovered'
    <2>1. Native /\ Live => Locked <= pda + Total(stake) BY DEF IInv, NativeCovered
    <2>2. Native /\ Live => Locked <= pda' + Total(stake) BY <2>1, <1>2, <1>3, <1>4, <1>5
    <2>3. QED BY <1>1, <2>2 DEF NativeCovered
  <1>9. StakeOwed' BY <1>1 DEF IInv, StakeOwed
  <1>10. FlagsMatchStatus' BY <1>1 DEF IInv, FlagsMatchStatus
  <1>11. PaidExactly' BY <1>1 DEF IInv, PaidExactly
  <1>12. Accounted'
    <2>1. pda + ata + Total(got) = Total(stake) + plain BY DEF IInv, Accounted
    <2>2. CASE Native
      <3>1. pda' = pda + n /\ ata' = ata BY <2>2 DEF PlainTransfer
      <3>2. QED BY <1>1, <1>2, <1>4, <2>1, <3>1 DEF Accounted
    <2>3. CASE ~Native
      <3>1. pda' = pda /\ ata' = ata + n BY <2>3 DEF PlainTransfer
      <3>2. QED BY <1>1, <1>2, <1>4, <2>1, <3>1 DEF Accounted
    <2>4. QED BY <2>2, <2>3
  <1>13. QED BY <1>7, <1>8, <1>9, <1>10, <1>11, <1>12 DEF IInv

LEMMA NextInv == IInv /\ [Next]_vars => IInv'
  <1> SUFFICES ASSUME IInv, [Next]_vars PROVE IInv'
    OBVIOUS
  <1>0. TypeOK' BY NextType DEF IInv
  <1> USE <1>0
  <1>1. ASSUME NEW k \in Keys, InitializeConfig(k) PROVE IInv'
    BY <1>1, MoneylessStep DEF InitializeConfig
  <1>2. ASSUME NEW k \in Keys, NEW p \in BOOLEAN, SetPaused(k, p) PROVE IInv'
    BY <1>2, MoneylessStep DEF SetPaused
  <1>3. ASSUME NEW k \in Keys, NEW o \in Offers, CreateDeal(k, o) PROVE IInv'
    BY <1>3, CreateInv
  <1>4. ASSUME NEW k \in Keys, LockCollateral(k) PROVE IInv'
    <2>1. /\ status = "Created" /\ status' = Advanced(locked')
          /\ UNCHANGED <<deal, pda, got, plain>>
      BY <1>4 DEF LockCollateral
    <2>2. locked \in {{}, {"BuyerCollateral"}, {"SellerCollateral"}}
      BY <2>1 DEF IInv, FlagsMatchStatus
    <2>3. Live /\ Live' BY <2>1 DEF Live, Advanced
    <2>4. ASSUME "BuyerCollateral" \notin locked, MoveIn(k, "BuyerCollateral", "buyer") PROVE IInv'
      <3>1. FlagsMatchStatus'
        <4>1. locked' = locked \cup {"BuyerCollateral"} BY <2>4 DEF MoveIn
        <4>2. QED BY <4>1, <2>1, <2>2, <2>4 DEF FlagsMatchStatus, Advanced
      <3>2. QED BY <3>1, <2>1, <2>3, <2>4, MoveInInv DEF Deposits
    <2>5. ASSUME "SellerCollateral" \notin locked, MoveIn(k, "SellerCollateral", "seller") PROVE IInv'
      <3>1. FlagsMatchStatus'
        <4>1. locked' = locked \cup {"SellerCollateral"} BY <2>5 DEF MoveIn
        <4>2. QED BY <4>1, <2>1, <2>2, <2>5 DEF FlagsMatchStatus, Advanced
      <3>2. QED BY <3>1, <2>1, <2>3, <2>5, MoveInInv DEF Deposits
    <2>6. QED BY <1>4, <2>4, <2>5 DEF LockCollateral
  <1>5. ASSUME NEW k \in Keys, LockPayment(k) PROVE IInv'
    <2>1. /\ status = "CollateralLocked" /\ status' = "PaymentLocked" /\ "BuyerPayment" \notin locked
          /\ MoveIn(k, "BuyerPayment", "buyer") /\ UNCHANGED <<deal, pda, got, plain>>
      BY <1>5 DEF LockPayment
    <2>2. FlagsMatchStatus'
      <3>1. locked = {"BuyerCollateral", "SellerCollateral"} BY <2>1 DEF IInv, FlagsMatchStatus
      <3>2. locked' = locked \cup {"BuyerPayment"} BY <2>1 DEF MoveIn
      <3>3. QED BY <2>1, <3>1, <3>2 DEF FlagsMatchStatus, Deposits
    <2>3. Live /\ Live' BY <2>1 DEF Live
    <2>4. QED BY <2>1, <2>2, <2>3, MoveInInv DEF Deposits
  <1>6. ASSUME NEW k \in Keys, NEW d \in Deposits, ConfirmDeposit(k, d) PROVE IInv'
    BY <1>6, ConfirmInv
  <1>7. ASSUME NEW k \in Keys, ReleaseFunds(k) PROVE IInv'
    <2>1. /\ HasDeal /\ Live /\ locked = Deposits /\ Settle(k, ReleaseSplit(deal), "Completed")
          /\ TypeOK
      BY <1>7 DEF ReleaseFunds, ReleaseFundsAccounts, Live, IInv
    <2>2. ReleaseSplit(deal) \in [Roles -> Nat] /\ Total(ReleaseSplit(deal)) = Locked
      <3>1. deal \in Offers BY <2>1, DealValues
      <3>2. Locked = deal.collateral_buyer + deal.price + deal.collateral_seller
        BY <2>1, DealValues DEF Deposits
      <3>3. deal.price \in Nat /\ deal.collateral_buyer \in Nat /\ deal.collateral_seller \in Nat
        BY <2>1, DealValues
      <3>4. QED BY <3>1, <3>2, <3>3, SplitTotal
    <2>3. QED BY <2>1, <2>2, SettleInv
  <1>8. ASSUME NEW k \in Keys, CancelDeal(k) PROVE IInv'
    <2>1. /\ HasDeal /\ status \in {"Created", "CollateralLocked"} /\ TypeOK
          /\ Settle(k, OwedBy(deal, locked \ {"BuyerPayment"}), "Cancelled")
      BY <1>8 DEF CancelDeal, CancelDealAccounts, Cancellable, IInv
    <2>2. "BuyerPayment" \notin locked BY <2>1 DEF IInv, FlagsMatchStatus
    <2>3. locked \ {"BuyerPayment"} = locked BY <2>2
    <2>4. Owed \in [Roles -> Nat] BY <2>1, DealValues
    <2>5. Settle(k, Owed, "Cancelled") /\ Total(Owed) = Locked BY <2>1, <2>3 DEF Owed, Locked
    <2>6. Live BY <2>1 DEF Live
    <2>7. QED BY <2>1, <2>2, <2>4, <2>5, <2>6, SettleInv
  <1>9. ASSUME NEW k \in Keys, RefundOnTimeout(k) PROVE IInv'
    <2>1. HasDeal /\ Live /\ TypeOK /\ Settle(k, Owed, "Refunded")
      BY <1>9 DEF RefundOnTimeout, RefundOnTimeoutAccounts, Refundable, Live, HasDeal, IInv, TypeOK
    <2>2. Owed \in [Roles -> Nat] /\ Total(Owed) = Locked BY <2>1, DealValues DEF Locked
    <2>3. QED BY <2>1, <2>2, SettleInv
  <1>10. ASSUME NEW k \in Keys, NEW receiver \in Keys, CloseDeal(k, receiver) PROVE IInv'
    BY <1>10, CloseInv
  <1>11. ASSUME NEW k \in Keys, NEW p \in Hashes, RevealTerms(k, p) PROVE IInv'
    BY <1>11, MoneylessStep DEF RevealTerms
  <1>12. ASSUME NEW k \in Keys, NEW n \in Gifts, PlainTransfer(k, n) PROVE IInv'
    BY <1>12, PlainInv
  <1>13. CASE Tick
    BY <1>13, MoneylessStep DEF Tick
  <1>14. CASE UNCHANGED vars
    BY <1>14, MoneylessStep DEF vars
  <1>15. QED
    BY <1>1, <1>2, <1>3, <1>4, <1>5, <1>6, <1>7, <1>8, <1>9, <1>10, <1>11, <1>12, <1>13, <1>14
    DEF Next

\* All of the invariant's parts, for every reachable state.
THEOREM Invariance == Spec => []IInv
  BY InitInv, NextInv, PTL DEF Spec

-----------------------------------------------------------------------------
(* What follows for the users of the escrow. *)

\* The flags set by lock_collateral, lock_payment and confirm_deposit always agree
\* with the status they advance.
THEOREM FlagsCoherent == Spec => []FlagsMatchStatus
  <1>1. IInv => FlagsMatchStatus BY DEF IInv
  <1>2. QED BY Invariance, <1>1, PTL

\* A live token deal can always pay out what its flags promise, and the sums fit in
\* a u64: release, cancellation and refund cannot fail their checks.
THEOREM TokenDealsSolvent == Spec => [](~Native => Solvent)
  <1>1. IInv => (~Native => Solvent) BY DEF IInv
  <1>2. QED BY Invariance, <1>1, PTL

\* Every settlement pays each role exactly its due, once.
THEOREM SettlementsExact == Spec => []PaidExactly
  <1>1. IInv => PaidExactly BY DEF IInv
  <1>2. QED BY Invariance, <1>1, PTL

\* The address neither loses nor invents units.
THEOREM EverythingAccounted == Spec => []Accounted
  <1>1. IInv => Accounted BY DEF IInv
  <1>2. QED BY Invariance, <1>1, PTL

\* Whatever somebody moved in through the program comes back on a refund or a
\* cancellation; a completed deal keeps at most the price of the buyer's.
THEOREM StakesReturned == Spec => []StakeReturned
  <1>1. IInv => StakeReturned
    <2> SUFFICES ASSUME IInv PROVE StakeReturned
      OBVIOUS
    <2>1. ASSUME status \in {"Refunded", "Cancelled"}, NEW r \in Roles PROVE got[r] >= stake[r]
      <3>1. got = Owed BY <2>1 DEF IInv, PaidExactly
      <3>2. HasDeal /\ TypeOK BY <2>1 DEF HasDeal, IInv
      <3>3. Owed[r] \in Nat /\ stake[r] \in Nat /\ stake[r] <= Owed[r]
        BY <3>2, DealValues DEF IInv, StakeOwed, TypeOK
      <3>4. QED BY <3>1, <3>3
    <2>2. ASSUME status = "Completed"
          PROVE  got["buyer"] >= stake["buyer"] - deal.price /\ got["seller"] >= stake["seller"]
      <3>1. got = ReleaseSplit(deal) /\ locked = Deposits
        BY <2>2 DEF IInv, PaidExactly, FlagsMatchStatus
      <3>2. HasDeal /\ TypeOK BY <2>2 DEF HasDeal, IInv
      <3>3. /\ deal.price \in Nat /\ deal.collateral_buyer \in Nat /\ deal.collateral_seller \in Nat
            /\ Fee(deal) \in Nat /\ Fee(deal) <= deal.price
        BY <3>2, DealValues, FeeBound
      <3>4. /\ Owed["buyer"] = deal.collateral_buyer + deal.price
            /\ Owed["seller"] = deal.collateral_seller
        BY <3>1, <3>2, DealValues DEF Deposits
      <3>5. /\ stake["buyer"] \in Nat /\ stake["buyer"] <= Owed["buyer"]
            /\ stake["seller"] \in Nat /\ stake["seller"] <= Owed["seller"]
        BY <3>2 DEF IInv, StakeOwed, TypeOK, Roles
      <3>6. /\ got["buyer"] = deal.collateral_buyer
            /\ got["seller"] = (deal.price - Fee(deal)) + deal.collateral_seller
        BY <3>1 DEF ReleaseSplit
      <3>7. QED BY <3>3, <3>4, <3>5, <3>6
    <2>3. QED BY <2>1, <2>2 DEF StakeReturned
  <1>2. QED BY Invariance, <1>1, PTL

\* A step that pays is a settlement, of a kind its status and signer allow.
LEMMA PayingStep ==
    ASSUME TypeOK, Next, got' # got, HasDeal, HasDeal'
    PROVE  \E k \in Keys :
              /\ signer' = k
              /\ \/ status = "PaymentLocked" /\ status' = "Completed" /\ k = deal.middleman
                 \/ status = "Created" /\ status' = "Cancelled"
                 \/ status = "CollateralLocked" /\ status' = "Cancelled" /\ k = deal.middleman
                 \/ now > deal.timeout
  <1>1. PICK k \in Keys : ReleaseFunds(k) \/ CancelDeal(k) \/ RefundOnTimeout(k)
    BY DEF Next, InitializeConfig, SetPaused, CreateDeal, LockCollateral, LockPayment,
       ConfirmDeposit, CloseDeal, RevealTerms, PlainTransfer, Tick, HasDeal
  <1>2. CASE ReleaseFunds(k)
    BY <1>2 DEF ReleaseFunds, ReleaseFundsAccounts, Settle
  <1>3. CASE CancelDeal(k)
    BY <1>3 DEF CancelDeal, Cancellable, Settle
  <1>4. CASE RefundOnTimeout(k)
    BY <1>4 DEF RefundOnTimeout, Settle
  <1>5. QED BY <1>1, <1>2, <1>3, <1>4

\* From both collaterals to the deadline, only the middleman's signature moves funds.
THEOREM PartiesCannotExitAlone == Spec => NoPartyExitsAlone
  <1> DEFINE A == (status \in {"CollateralLocked", "PaymentLocked"} /\ Total(got') > Total(got))
                     => (signer' = deal.middleman \/ now > deal.timeout)
  <1>1. IInv /\ [Next]_vars => [A]_vars
    <2> SUFFICES ASSUME IInv, Next, status \in {"CollateralLocked", "PaymentLocked"},
                        Total(got') > Total(got)
                 PROVE  signer' = deal.middleman \/ now > deal.timeout
      BY DEF A
    <2>1. TypeOK /\ HasDeal BY DEF IInv, HasDeal
    <2>2. got' # got
      <3>1. Total(got) \in Nat BY <2>1 DEF TypeOK, Total, Roles
      <3>2. QED BY <3>1
    <2>3. HasDeal'
      BY <2>1 DEF Next, InitializeConfig, SetPaused, CreateDeal, CreateDealAccounts, LockCollateral,
         LockPayment, ConfirmDeposit, ReleaseFunds, CancelDeal, RefundOnTimeout, Settle, CloseDeal,
         Terminal, RevealTerms, PlainTransfer, Tick, Advanced, HasDeal
    <2>4. QED BY <2>1, <2>2, <2>3, PayingStep
  <1>2. QED BY Invariance, <1>1, PTL DEF Spec, NoPartyExitsAlone, A

\* Until the deadline a payment leaves the escrow by the release and in no other way.
THEOREM PaymentsAreCommitted == Spec => PaymentIsCommitted
  <1> DEFINE A == (status = "PaymentLocked" /\ status' # status)
                     => (status' = "Completed" \/ now > deal.timeout)
  <1>1. [Next]_vars => [A]_vars
    <2> SUFFICES ASSUME Next, status = "PaymentLocked", status' # status
                 PROVE  status' = "Completed" \/ now > deal.timeout
      BY DEF A
    <2>1. PICK k \in Keys : ReleaseFunds(k) \/ RefundOnTimeout(k)
      BY DEF Next, InitializeConfig, SetPaused, CreateDeal, CreateDealAccounts, LockCollateral,
         LockPayment, ConfirmDeposit, CancelDeal, Cancellable, CloseDeal, Terminal, RevealTerms, PlainTransfer,
         Tick, HasDeal
    <2>2. QED BY <2>1 DEF ReleaseFunds, RefundOnTimeout, Settle
  <1>2. QED BY <1>1, PTL DEF Spec, PaymentIsCommitted, A

-----------------------------------------------------------------------------
(* The program implements EscrowPromise. *)

\* A settlement that returns what is owed is the promise's Return.
LEMMA ReturnStep ==
    ASSUME IInv, IInv', Live, status' \in {"Refunded", "Cancelled"}, deal' = deal, locked' = locked
    PROVE  Promise!Return
  <1>1. got' = Owed' BY DEF IInv, PaidExactly
  <1>2. Owed' = Owed BY DEF Owed
  <1>3. QED BY <1>1, <1>2 DEF Promise!Return, Live, Terminal

\* A release is the promise's Trade.
LEMMA TradeStep ==
    ASSUME IInv, IInv', status = "PaymentLocked", status' = "Completed", deal' = deal,
           locked' = locked, deal.price > 0, deal.collateral_buyer > 0, deal.collateral_seller > 0
    PROVE  Promise!Trade
  <1>1. got' = ReleaseSplit(deal) /\ locked = Deposits /\ Owed' = Owed
    BY DEF IInv, PaidExactly, FlagsMatchStatus, Owed
  <1>2. TypeOK /\ HasDeal BY DEF IInv, HasDeal
  <1>3. /\ deal.price \in Nat /\ deal.collateral_buyer \in Nat /\ deal.collateral_seller \in Nat
        /\ Owed["buyer"] = deal.collateral_buyer + deal.price
        /\ Owed["seller"] = deal.collateral_seller
    BY <1>1, <1>2, DealValues DEF Deposits
  <1>4. Fee(deal) \in Nat /\ Fee(deal) <= deal.price /\ Fee(deal) * 10000 <= deal.price * 110
    BY <1>2, DealValues, FeeBound
  <1>5. /\ got'["buyer"] = deal.collateral_buyer
        /\ got'["middleman"] = Fee(deal)
        /\ got' = [buyer |-> deal.collateral_buyer,
                   seller |-> (deal.price - Fee(deal)) + deal.collateral_seller,
                   middleman |-> Fee(deal)]
    BY <1>1 DEF ReleaseSplit
  <1>6. Owed["buyer"] - got'["buyer"] = deal.price BY <1>3, <1>5
  <1>7. got' = [buyer |-> Owed["buyer"] - deal.price,
                seller |-> Owed["seller"] + (deal.price - Fee(deal)), middleman |-> Fee(deal)]
    BY <1>3, <1>4, <1>5
  <1>8. 0 < deal.price /\ deal.price < Owed["buyer"] /\ Owed["seller"] > 0 BY <1>3
  <1>9. QED BY <1>1, <1>4, <1>5, <1>6, <1>7, <1>8 DEF Promise!Trade, Terminal

\* The offers create_deal accepts have positive amounts, for as long as the deal exists.
PositiveAmounts == HasDeal => deal.price > 0 /\ deal.collateral_buyer > 0 /\ deal.collateral_seller > 0

LEMMA PositiveInv == PositiveAmounts /\ [Next]_vars => PositiveAmounts'
  <1> SUFFICES ASSUME PositiveAmounts, [Next]_vars, HasDeal'
               PROVE  deal'.price > 0 /\ deal'.collateral_buyer > 0 /\ deal'.collateral_seller > 0
    BY DEF PositiveAmounts
  <1>1. ASSUME NEW k \in Keys, NEW o \in Offers, CreateDeal(k, o)
        PROVE  deal'.price > 0 /\ deal'.collateral_buyer > 0 /\ deal'.collateral_seller > 0
    BY <1>1 DEF CreateDeal
  <1>2. ASSUME deal' = deal, HasDeal
        PROVE  deal'.price > 0 /\ deal'.collateral_buyer > 0 /\ deal'.collateral_seller > 0
    BY <1>2 DEF PositiveAmounts
  <1>3. \/ deal' = deal /\ HasDeal
        \/ \E k \in Keys, o \in Offers : CreateDeal(k, o)
    BY DEF Next, InitializeConfig, SetPaused, LockCollateral, LockCollateralAccounts, LockPayment,
       LockPaymentAccounts, ConfirmDeposit, ConfirmDepositAccounts, ReleaseFunds,
       ReleaseFundsAccounts, CancelDeal, CancelDealAccounts, RefundOnTimeout,
       RefundOnTimeoutAccounts, Settle, CloseDeal, RevealTerms, PlainTransfer, Tick, HasDeal, vars
  <1>4. QED BY <1>1, <1>2, <1>3

\* Setting one flag is the promise's Hold of the role the deposit belongs to.
LEMMA HoldStep ==
    ASSUME IInv, PositiveAmounts, Live, Live', NEW d \in Deposits, d \notin locked,
           locked' = locked \cup {d}, deal' = deal, got' = got
    PROVE  Promise!Next
  <1> DEFINE r == IF d = "SellerCollateral" THEN "seller" ELSE "buyer"
             a == Amount(deal, d)
  <1>1. TypeOK /\ HasDeal /\ r \in Roles BY DEF IInv, HasDeal, Live, Roles
  <1>2. deal \in Offers /\ Owed \in [Roles -> Nat] BY <1>1, DealValues
  <1>3. a \in Nat /\ a > 0
    <2>1. a \in Nat BY <1>2, Amounts
    <2>2. /\ Amount(deal, "BuyerCollateral") = deal.collateral_buyer
          /\ Amount(deal, "SellerCollateral") = deal.collateral_seller
          /\ Amount(deal, "BuyerPayment") = deal.price
      BY <1>2, Amounts
    <2>3. deal.price > 0 /\ deal.collateral_buyer > 0 /\ deal.collateral_seller > 0
      BY <1>1 DEF PositiveAmounts
    <2>4. QED BY <2>1, <2>2, <2>3 DEF Deposits
  <1>4. Owed' = [Owed EXCEPT ![r] = @ + a]
    BY <1>1, <1>2, FlagOne DEF Owed, TypeOK
  <1> HIDE DEF a
  <1>5. Owed'[r] = Owed[r] + a BY <1>1, <1>2, <1>4
  <1>6. Owed'[r] > Owed[r] BY <1>1, <1>2, <1>3, <1>5
  <1>7. Owed' = [Owed EXCEPT ![r] = Owed'[r]] BY <1>4, <1>5
  <1>8. /\ status # "None" /\ ~Terminal /\ status' # "None" /\ ~Terminal'
    BY DEF Live, Terminal
  <1>9. Promise!Hold(r) BY <1>6, <1>7, <1>8 DEF Promise!Hold
  <1>10. QED BY <1>1, <1>9 DEF Promise!Next, Promise!Roles, Roles

LEMMA InitImplements == Init => Promise!Init
  <1> SUFFICES ASSUME Init PROVE Promise!Init
    OBVIOUS
  <1>1. Owed = Zero BY NothingOwed DEF Init, Owed
  <1>2. Promise!Zero = Zero BY DEF Promise!Zero, Promise!Roles, Zero, Roles
  <1>3. QED BY <1>1, <1>2 DEF Init, Promise!Init

LEMMA StepImplements ==
    IInv /\ IInv' /\ PositiveAmounts /\ [Next]_vars => [Promise!Next]_(Promise!vars)
  <1> SUFFICES ASSUME IInv, IInv', PositiveAmounts, [Next]_vars
               PROVE  [Promise!Next]_(Promise!vars)
    OBVIOUS
  <1>1. ASSUME UNCHANGED <<status, deal, locked, got>> PROVE UNCHANGED Promise!vars
    BY <1>1 DEF Promise!vars, Owed, Terminal
  <1>2. ASSUME NEW k \in Keys, NEW o \in Offers, CreateDeal(k, o) PROVE Promise!Next
    <2>1. /\ status = "None" /\ status' = "Created" /\ locked' = {} /\ got' = got
      BY <1>2 DEF CreateDeal, CreateDealAccounts, HasDeal
    <2>2. locked = {} BY <2>1 DEF IInv, FlagsMatchStatus
    <2>3. Owed' = Owed BY <2>1, <2>2, NothingOwed DEF Owed
    <2>4. Promise!Open BY <2>1, <2>3 DEF Promise!Open, Terminal
    <2>5. QED BY <2>4 DEF Promise!Next
  <1>3. ASSUME NEW k \in Keys, LockCollateral(k) PROVE Promise!Next
    <2>1. Live /\ Live' /\ deal' = deal /\ got' = got
      BY <1>3 DEF LockCollateral, Advanced, Live
    <2>2. PICK d \in Deposits : d \notin locked /\ locked' = locked \cup {d}
      BY <1>3 DEF LockCollateral, MoveIn, Deposits
    <2>3. QED BY <2>1, <2>2, HoldStep
  <1>4. ASSUME NEW k \in Keys, LockPayment(k) PROVE Promise!Next
    <2>1. Live /\ Live' /\ deal' = deal /\ got' = got
      BY <1>4 DEF LockPayment, Live
    <2>2. "BuyerPayment" \notin locked /\ locked' = locked \cup {"BuyerPayment"}
      BY <1>4 DEF LockPayment, MoveIn
    <2>3. QED BY <2>1, <2>2, HoldStep DEF Deposits
  <1>5. ASSUME NEW k \in Keys, NEW d \in Deposits, ConfirmDeposit(k, d) PROVE Promise!Next
    <2>1. Live /\ Live' /\ deal' = deal /\ got' = got /\ d \notin locked /\ locked' = locked \cup {d}
      BY <1>5 DEF ConfirmDeposit, Advanced, Live
    <2>2. QED BY <2>1, HoldStep
  <1>6. ASSUME NEW k \in Keys, ReleaseFunds(k) PROVE Promise!Next
    <2>1. /\ status = "PaymentLocked" /\ status' = "Completed" /\ deal' = deal /\ locked' = locked
          /\ HasDeal
      BY <1>6 DEF ReleaseFunds, ReleaseFundsAccounts, Settle
    <2>2. deal.price > 0 /\ deal.collateral_buyer > 0 /\ deal.collateral_seller > 0
      BY <2>1 DEF PositiveAmounts
    <2>3. QED BY <2>1, <2>2, TradeStep DEF Promise!Next
  <1>7. ASSUME NEW k \in Keys, CancelDeal(k) PROVE Promise!Next
    <2>1. Live /\ status' = "Cancelled" /\ deal' = deal /\ locked' = locked
      BY <1>7 DEF CancelDeal, Cancellable, Settle, Live
    <2>2. QED BY <2>1, ReturnStep DEF Promise!Next
  <1>8. ASSUME NEW k \in Keys, RefundOnTimeout(k) PROVE Promise!Next
    <2>1. Live /\ status' = "Refunded" /\ deal' = deal /\ locked' = locked
      BY <1>8 DEF RefundOnTimeout, RefundOnTimeoutAccounts, Refundable, Live, HasDeal, Settle,
         IInv, TypeOK
    <2>2. QED BY <2>1, ReturnStep DEF Promise!Next
  <1>9. ASSUME NEW k \in Keys, NEW receiver \in Keys, CloseDeal(k, receiver) PROVE Promise!Next
    <2>1. Terminal /\ status' = "None" /\ locked' = {} /\ got' = Zero
      BY <1>9 DEF CloseDeal
    <2>2. Owed' = Zero BY <2>1, NothingOwed DEF Owed
    <2>3. Promise!Zero = Zero BY DEF Promise!Zero, Promise!Roles, Zero, Roles
    <2>4. Promise!Forget BY <2>1, <2>2, <2>3 DEF Promise!Forget, Terminal
    <2>5. QED BY <2>4 DEF Promise!Next
  <1>10. \/ UNCHANGED <<status, deal, locked, got>>
         \/ \E k \in Keys : \/ \E o \in Offers : CreateDeal(k, o)
                            \/ LockCollateral(k) \/ LockPayment(k)
                            \/ \E d \in Deposits : ConfirmDeposit(k, d)
                            \/ ReleaseFunds(k) \/ CancelDeal(k) \/ RefundOnTimeout(k)
                            \/ \E receiver \in Keys : CloseDeal(k, receiver)
    BY DEF Next, vars, InitializeConfig, SetPaused, RevealTerms, PlainTransfer, Tick
  <1>11. QED BY <1>1, <1>2, <1>3, <1>4, <1>5, <1>6, <1>7, <1>8, <1>9, <1>10

\* The program implements its promise: it only ever owes more, settles once, and
\* either returns everything or trades with a fee of at most 1.1%.
THEOREM ImplementsPromise == Spec => KeepsPromise
  <1>1. Init => PositiveAmounts BY DEF Init, PositiveAmounts, HasDeal
  <1>2. Spec => []PositiveAmounts BY <1>1, PositiveInv, PTL DEF Spec
  <1>3. QED BY <1>2, Invariance, InitImplements, StepImplements, PTL
        DEF Spec, KeepsPromise, Promise!Spec

-----------------------------------------------------------------------------
(* What clients see. *)

\* A step is a step of the view, or leaves what clients see alone.
LEMMA StepShown ==
    ASSUME TypeOK, [Next]_vars
    PROVE  [View!Next]_View!vars
  <1> USE DEF View!Next, View!vars, HasDeal
  <1>1. ASSUME NEW k \in Keys, NEW o \in Offers, CreateDeal(k, o) PROVE View!Next
    <2>1. status = "None" /\ status' = "Created" /\ locked' = {} /\ deal' = o /\ now' = now
          /\ o.timeout > now
      BY <1>1 DEF CreateDeal, CreateDealAccounts
    <2>2. ~(now > o.timeout)
      <3>1. now \in Nat /\ o.timeout \in Nat BY OfferFields DEF TypeOK
      <3>2. QED BY <2>1, <3>1
    <2>3. QED BY <2>1, <2>2 DEF View!Create
  <1>2. ASSUME NEW d \in Deposits, d \notin locked, locked' = locked \cup {d},
               deal' = deal, now' = now, status' # "None", status # "None",
               status = (IF d = "BuyerPayment" THEN "CollateralLocked" ELSE "Created"),
               status' = (IF d = "BuyerPayment" THEN "PaymentLocked" ELSE Advanced(locked'))
        PROVE  View!Next
    BY <1>2 DEF View!Deposit, View!Collaterals, View!Deposits, Deposits, Advanced
  <1>3. ASSUME NEW k \in Keys, LockCollateral(k) PROVE View!Next
    <2>1. /\ deal' = deal /\ now' = now /\ status = "Created" /\ status' = Advanced(locked')
          /\ status' # "None"
      BY <1>3 DEF LockCollateral, Advanced
    <2>2. PICK d \in Deposits \ {"BuyerPayment"} : d \notin locked /\ locked' = locked \cup {d}
      BY <1>3 DEF LockCollateral, MoveIn, Deposits
    <2>3. QED BY <2>1, <2>2, <1>2
  <1>4. ASSUME NEW k \in Keys, LockPayment(k) PROVE View!Next
    <2>1. /\ deal' = deal /\ now' = now /\ status = "CollateralLocked" /\ status' = "PaymentLocked"
          /\ "BuyerPayment" \notin locked /\ locked' = locked \cup {"BuyerPayment"}
      BY <1>4 DEF LockPayment, MoveIn
    <2>2. QED BY <2>1, <1>2 DEF Deposits
  <1>5. ASSUME NEW k \in Keys, NEW d \in Deposits, ConfirmDeposit(k, d) PROVE View!Next
    <2>1. /\ deal' = deal /\ now' = now
          /\ status = (IF d = "BuyerPayment" THEN "CollateralLocked" ELSE "Created")
          /\ status' = (IF d = "BuyerPayment" THEN "PaymentLocked" ELSE Advanced(locked'))
          /\ d \notin locked /\ locked' = locked \cup {d}
      BY <1>5 DEF ConfirmDeposit
    <2>2. status # "None" /\ status' # "None" BY <2>1 DEF Advanced
    <2>3. QED BY <2>1, <2>2, <1>2
  <1>6. ASSUME NEW k \in Keys, ReleaseFunds(k) PROVE View!Next
    BY <1>6 DEF ReleaseFunds, Settle, View!Release
  <1>7. ASSUME NEW k \in Keys, CancelDeal(k) PROVE View!Next
    BY <1>7 DEF CancelDeal, Cancellable, Settle, View!Cancel
  <1>8. ASSUME NEW k \in Keys, RefundOnTimeout(k) PROVE View!Next
    <2>1. View!Live
      BY <1>8 DEF RefundOnTimeout, RefundOnTimeoutAccounts, Refundable, View!Live, TypeOK
    <2>2. QED BY <1>8, <2>1 DEF RefundOnTimeout, RefundOnTimeoutAccounts, Settle, View!Refund
  <1>9. ASSUME NEW k \in Keys, NEW receiver \in Keys, CloseDeal(k, receiver) PROVE View!Next
    BY <1>9 DEF CloseDeal, Terminal, View!Close, View!Settled
  <1>10. ASSUME Tick PROVE [View!Next]_View!vars
    <2>1. status' = status /\ deal' = deal /\ locked' = locked BY <1>10 DEF Tick
    <2>2. CASE status = "None" BY <2>1, <2>2
    <2>3. CASE status # "None" /\ now' > deal.timeout BY <2>1, <2>3 DEF View!Expire
    <2>4. CASE status # "None" /\ ~(now' > deal.timeout)
      <3>1. deal \in Offers BY <2>4 DEF TypeOK
      <3>2. now \in Nat /\ deal.timeout \in Nat /\ now' = now + 1
        BY <1>10, <3>1, OfferFields DEF TypeOK, Tick
      <3>3. ~(now > deal.timeout) BY <2>4, <3>2
      <3>4. QED BY <2>1, <2>4, <3>3
    <2>5. QED BY <2>2, <2>3, <2>4
  <1>11. ASSUME UNCHANGED <<status, locked, deal, now>> PROVE [View!Next]_View!vars
    BY <1>11
  <1>12. \/ UNCHANGED <<status, locked, deal, now>>
         \/ Tick
         \/ \E k \in Keys : \/ \E o \in Offers : CreateDeal(k, o)
                            \/ LockCollateral(k) \/ LockPayment(k)
                            \/ \E d \in Deposits : ConfirmDeposit(k, d)
                            \/ ReleaseFunds(k) \/ CancelDeal(k) \/ RefundOnTimeout(k)
                            \/ \E receiver \in Keys : CloseDeal(k, receiver)
    BY DEF Next, vars, InitializeConfig, SetPaused, RevealTerms, PlainTransfer
  <1>13. QED BY <1>1, <1>3, <1>4, <1>5, <1>6, <1>7, <1>8, <1>9, <1>10, <1>11, <1>12

\* Clients see an escrow that moves as EscrowView says: what the off-chain modules
\* assume of their chain holds of the program.
THEOREM ImplementsView == Spec => ShowsView
  <1>1. Init => View!Init BY DEF Init, View!Init, HasDeal
  <1>2. QED BY <1>1, TypeCorrect, StepShown, PTL DEF Spec, ShowsView, View!Spec

-----------------------------------------------------------------------------
(* Sums of balances. *)

\* The units of one account are counted by its balance.
LEMMA UnitsOfOne ==
    ASSUME NEW a, NEW n \in Nat
    PROVE  IsFiniteSet({a} \X (1..n)) /\ Cardinality({a} \X (1..n)) = n
  <1>1. IsFiniteSet({a}) /\ Cardinality({a}) = 1 BY FS_Singleton
  <1>2. IsFiniteSet(1..n) /\ Cardinality(1..n) = n BY FS_Interval
  <1>3. IsFiniteSet({a} \X (1..n)) /\ Cardinality({a} \X (1..n)) = Cardinality({a}) * Cardinality(1..n)
    BY <1>1, <1>2, FS_Product
  <1>4. QED BY <1>1, <1>2, <1>3

\* Finitely many balances hold a natural number of units.
LEMMA HoldingsType ==
    ASSUME NEW K, IsFiniteSet(K), NEW f \in [K -> Nat]
    PROVE  IsFiniteSet(Units(f)) /\ Holdings(f) \in Nat
  <1> DEFINE U == { {a} \X (1..f[a]) : a \in K }
             g == [a \in K |-> {a} \X (1..f[a])]
  <1>1. g \in Surjection(K, U) BY DEF Surjection
  <1>2. IsFiniteSet(U)
    <2> HIDE DEF U, g
    <2> QED BY <1>1, FS_Surjection
  <1>3. ASSUME NEW S \in U PROVE IsFiniteSet(S)
    <2>1. PICK a \in K : S = {a} \X (1..f[a]) OBVIOUS
    <2>2. QED BY <2>1, UnitsOfOne
  <1>4. IsFiniteSet(UNION U)
    <2> HIDE DEF U
    <2> QED BY <1>2, <1>3, FS_UNION
  <1>5. Units(f) = UNION U BY DEF Units
  <1>6. QED BY <1>4, <1>5, FS_CardinalityType DEF Holdings

\* Changing one balance changes the sum by as much.
LEMMA HoldingsUpdate ==
    ASSUME NEW K, IsFiniteSet(K), NEW f \in [K -> Nat], NEW g \in [K -> Nat], NEW k \in K,
           \A a \in K \ {k} : g[a] = f[a]
    PROVE  Holdings(g) = Holdings(f) - f[k] + g[k]
  <1> DEFINE old == {k} \X (1..f[k])
             new == {k} \X (1..g[k])
             rest == Units(f) \ old
  <1>1. /\ IsFiniteSet(old) /\ Cardinality(old) = f[k]
        /\ IsFiniteSet(new) /\ Cardinality(new) = g[k]
    BY UnitsOfOne
  <1>2. IsFiniteSet(Units(f)) /\ Holdings(f) \in Nat BY HoldingsType
  <1>3. Units(f) \cap old = old BY DEF Units
  <1>4. IsFiniteSet(rest) /\ Cardinality(rest) = Holdings(f) - f[k]
    <2>1. Cardinality(rest) = Cardinality(Units(f)) - Cardinality(Units(f) \cap old)
      BY <1>2, FS_Difference
    <2>2. QED BY <1>1, <1>2, <1>3, <2>1, FS_Difference DEF Holdings
  <1>5. rest \cap new = {} BY DEF Units
  <1>6. Units(g) = rest \cup new BY DEF Units
  <1>7. Cardinality(rest \cup new) = Cardinality(rest) + Cardinality(new) - Cardinality(rest \cap new)
    BY <1>1, <1>4, FS_Union
  <1>8. Cardinality(rest \cap new) = 0 BY <1>5, FS_EmptySet
  <1>9. Cardinality(rest \cup new) = Holdings(f) - f[k] + g[k]
    <2> HIDE DEF rest, new
    <2> QED BY <1>1, <1>2, <1>4, <1>7, <1>8
  <1>10. QED BY <1>6, <1>9 DEF Holdings

-----------------------------------------------------------------------------
(* Conservation. *)

LEMMA InitConserved == Init => Conserved
  <1>1. IsFiniteSet(Keys) /\ Wallet0 \in [Keys -> Nat] BY EscrowAssumption
  <1>2. Holdings(Wallet0) \in Nat BY <1>1, HoldingsType
  <1>3. QED BY <1>2 DEF Init, Conserved, Supply

\* Paying the three roles raises the wallets by the sum of the payments, whichever
\* keys the roles share: one wallet after the other is raised.
LEMMA CreditedHoldings ==
    ASSUME TypeOK, HasDeal, NEW pay \in [Roles -> Nat]
    PROVE  Holdings(Credited(pay)) = Holdings(wallet) + Total(pay)
  <1> DEFINE one == [wallet EXCEPT ![deal.buyer] = wallet[deal.buyer] + pay["buyer"]]
             two == [one EXCEPT ![deal.seller] = one[deal.seller] + pay["seller"]]
             three == [two EXCEPT ![deal.middleman] = two[deal.middleman] + pay["middleman"]]
  <1>1. IsFiniteSet(Keys) BY EscrowAssumption
  <1>2. wallet \in [Keys -> Nat] BY DEF TypeOK
  <1>3. deal.buyer \in Keys /\ deal.seller \in Keys /\ deal.middleman \in Keys
    BY OfferFields DEF TypeOK, HasDeal
  <1>4. pay["buyer"] \in Nat /\ pay["seller"] \in Nat /\ pay["middleman"] \in Nat BY DEF Roles
  <1>5. one \in [Keys -> Nat] BY <1>2, <1>3, <1>4
  <1>6. two \in [Keys -> Nat]
    <2> HIDE DEF one
    <2> QED BY <1>3, <1>4, <1>5
  <1>7. Credited(pay) = three
    <2>1. ASSUME NEW a \in Keys PROVE Credited(pay)[a] = three[a]
      BY <1>2, <1>3, <1>4 DEF Credited
    <2>2. three \in [Keys -> Nat]
      <3> HIDE DEF two
      <3> QED BY <1>3, <1>4, <1>6
    <2>3. Credited(pay) \in [Keys -> Nat] BY <1>2, <1>4 DEF Credited
    <2> HIDE DEF three
    <2>4. QED BY <2>1, <2>2, <2>3
  <1>8. Holdings(wallet) \in Nat BY <1>1, <1>2, HoldingsType
  <1>9. Holdings(one) = Holdings(wallet) + pay["buyer"]
    <2>1. wallet[deal.buyer] \in Nat /\ wallet[deal.buyer] + pay["buyer"] \in Nat
      BY <1>2, <1>3, <1>4
    <2>2. /\ one \in [Keys -> Nat] /\ one[deal.buyer] = wallet[deal.buyer] + pay["buyer"]
          /\ \A a \in Keys \ {deal.buyer} : one[a] = wallet[a]
      BY <1>2, <1>3, <1>5, <1>6, <2>1
    <2>3. Holdings(one) = Holdings(wallet) - wallet[deal.buyer] + one[deal.buyer]
      <3> HIDE DEF one
      <3> QED BY <1>1, <1>2, <1>3, <1>5, <1>6, <2>2, HoldingsUpdate
    <2>4. QED BY <1>4, <1>8, <2>1, <2>2, <2>3
  <1>10. Holdings(two) = Holdings(one) + pay["seller"]
    <2> HIDE DEF one
    <2>1. one[deal.seller] \in Nat /\ one[deal.seller] + pay["seller"] \in Nat
      BY <1>3, <1>4, <1>5
    <2>2. /\ two \in [Keys -> Nat] /\ two[deal.seller] = one[deal.seller] + pay["seller"]
          /\ \A a \in Keys \ {deal.seller} : two[a] = one[a]
      BY <1>2, <1>3, <1>5, <1>6, <2>1
    <2>3. Holdings(two) = Holdings(one) - one[deal.seller] + two[deal.seller]
      <3> HIDE DEF two
      <3> QED BY <1>1, <1>2, <1>3, <1>5, <1>6, <2>2, HoldingsUpdate
    <2>4. Holdings(one) \in Nat BY <1>1, <1>5, HoldingsType
    <2>5. QED BY <1>4, <2>1, <2>2, <2>3, <2>4
  <1>11. Holdings(three) = Holdings(two) + pay["middleman"]
    <2> HIDE DEF two
    <2>1. two[deal.middleman] \in Nat /\ two[deal.middleman] + pay["middleman"] \in Nat
      BY <1>3, <1>4, <1>6
    <2>2. /\ three \in [Keys -> Nat] /\ three[deal.middleman] = two[deal.middleman] + pay["middleman"]
          /\ \A a \in Keys \ {deal.middleman} : three[a] = two[a]
      BY <1>2, <1>3, <1>5, <1>6, <2>1
    <2>3. Holdings(three) = Holdings(two) - two[deal.middleman] + three[deal.middleman]
      <3> HIDE DEF three
      <3> QED BY <1>1, <1>2, <1>3, <1>5, <1>6, <2>2, HoldingsUpdate
    <2>4. Holdings(two) \in Nat BY <1>1, <1>6, HoldingsType
    <2>5. QED BY <1>4, <2>1, <2>2, <2>3, <2>4
  <1>12. QED
    <2> HIDE DEF one, two, three
    <2> QED BY <1>4, <1>7, <1>8, <1>9, <1>10, <1>11 DEF Total

\* One wallet gains or loses what the accounts of the address lose or gain.
LEMMA WalletStep ==
    ASSUME TypeOK, TypeOK', Conserved, NEW k \in Keys, \A a \in Keys \ {k} : wallet'[a] = wallet[a],
           wallet'[k] + pda' + ata' = wallet[k] + pda + ata
    PROVE  Conserved'
  <1>1. IsFiniteSet(Keys) BY EscrowAssumption
  <1>2. wallet \in [Keys -> Nat] /\ wallet' \in [Keys -> Nat] BY DEF TypeOK
  <1>3. wallet[k] \in Nat /\ wallet'[k] \in Nat BY <1>2
  <1>4. Holdings(wallet') = Holdings(wallet) - wallet[k] + wallet'[k]
    BY <1>1, <1>2, HoldingsUpdate
  <1>5. Holdings(wallet) \in Nat BY <1>1, <1>2, HoldingsType
  <1>6. pda \in Nat /\ ata \in Nat /\ pda' \in Nat /\ ata' \in Nat
    BY EscrowAssumption DEF TypeOK
  <1>7. QED BY <1>3, <1>4, <1>5, <1>6 DEF Conserved, Supply

\* A settlement takes out of the vault what it adds to the wallets.
LEMMA SettleConserved ==
    ASSUME TypeOK, TypeOK', Conserved, HasDeal, NEW k \in Keys, NEW pay \in [Roles -> Nat], NEW final,
           Settle(k, pay, final)
    PROVE  Conserved'
  <1>1. Total(pay) \in Nat BY DEF Total, Roles
  <1>2. Holdings(wallet') = Holdings(wallet) + Total(pay)
    BY CreditedHoldings DEF Settle, PayOut
  <1>3. Holdings(wallet) \in Nat BY EscrowAssumption, HoldingsType DEF TypeOK
  <1>4. pda \in Nat /\ ata \in Nat /\ pda' \in Nat /\ ata' \in Nat
    BY EscrowAssumption DEF TypeOK
  <1>5. pda' + ata' + Total(pay) = pda + ata
    <2>1. CASE Native BY <1>1, <1>4, <2>1 DEF Settle, PayOut
    <2>2. CASE ~Native BY <1>1, <1>4, <2>2 DEF Settle, PayOut
    <2>3. QED BY <2>1, <2>2
  <1>6. QED BY <1>1, <1>2, <1>3, <1>4, <1>5 DEF Conserved, Supply

LEMMA NextConserved == TypeOK /\ Conserved /\ [Next]_vars => Conserved'
  <1> SUFFICES ASSUME TypeOK, Conserved, [Next]_vars PROVE Conserved'
    OBVIOUS
  <1>0. TypeOK' BY NextType
  <1>1. ASSUME NEW k \in Keys, NEW d \in Deposits, NEW r \in Roles, HasDeal, MoveIn(k, d, r), UNCHANGED pda
        PROVE  Conserved'
    <2>1. Amount(deal, d) \in Nat BY <1>1, Amounts DEF TypeOK, HasDeal
    <2>2. pda \in Nat /\ ata \in Nat BY EscrowAssumption DEF TypeOK
    <2>3. wallet[k] \in Nat BY DEF TypeOK
    <2>4. wallet'[k] = wallet[k] - Amount(deal, d) /\ \A a \in Keys \ {k} : wallet'[a] = wallet[a]
      BY <1>1 DEF MoveIn, TypeOK
    <2>5. wallet'[k] + pda' + ata' = wallet[k] + pda + ata
      BY <1>1, <2>1, <2>2, <2>3, <2>4 DEF MoveIn
    <2>6. QED BY <1>0, <2>4, <2>5, WalletStep
  <1>2. ASSUME NEW k \in Keys, LockCollateral(k) PROVE Conserved'
    <2>1. \E d \in Deposits, r \in Roles : MoveIn(k, d, r)
      BY <1>2 DEF LockCollateral, Deposits, Roles
    <2>2. QED BY <1>1, <1>2, <2>1 DEF LockCollateral, LockCollateralAccounts
  <1>3. ASSUME NEW k \in Keys, LockPayment(k) PROVE Conserved'
    BY <1>1, <1>3 DEF LockPayment, LockPaymentAccounts, Deposits, Roles
  <1>4. ASSUME NEW k \in Keys, ReleaseFunds(k) PROVE Conserved'
    <2>1. HasDeal BY <1>4 DEF ReleaseFunds, ReleaseFundsAccounts
    <2>2. deal \in Offers BY <2>1 DEF TypeOK, HasDeal
    <2>3. QED BY <1>0, <1>4, <2>1, <2>2, SplitTotal, SettleConserved DEF ReleaseFunds
  <1>5. ASSUME NEW k \in Keys, CancelDeal(k) PROVE Conserved'
    <2>1. HasDeal BY <1>5 DEF CancelDeal, CancelDealAccounts
    <2>2. deal \in Offers BY <2>1 DEF TypeOK, HasDeal
    <2>3. QED BY <1>0, <1>5, <2>1, <2>2, OwedValue, SettleConserved DEF CancelDeal
  <1>6. ASSUME NEW k \in Keys, RefundOnTimeout(k) PROVE Conserved'
    <2>1. HasDeal BY <1>6 DEF RefundOnTimeout, RefundOnTimeoutAccounts
    <2>2. deal \in Offers BY <2>1 DEF TypeOK, HasDeal
    <2>3. QED BY <1>0, <1>6, <2>1, <2>2, OwedValue, SettleConserved DEF RefundOnTimeout, Owed
  <1>7. ASSUME NEW k \in Keys, NEW receiver \in Keys, CloseDeal(k, receiver) PROVE Conserved'
    <2>1. pda \in Nat /\ ata \in Nat /\ wallet[receiver] \in Nat BY EscrowAssumption DEF TypeOK
    <2>2. wallet'[receiver] = wallet[receiver] + pda /\ \A a \in Keys \ {receiver} : wallet'[a] = wallet[a]
      BY <1>7 DEF CloseDeal, TypeOK
    <2>3. wallet'[receiver] + pda' + ata' = wallet[receiver] + pda + ata
      BY <1>7, <2>1, <2>2 DEF CloseDeal
    <2>4. QED BY <1>0, <2>2, <2>3, WalletStep
  <1>8. ASSUME NEW k \in Keys, NEW n \in Gifts, PlainTransfer(k, n) PROVE Conserved'
    <2>1. n \in Nat BY EscrowAssumption
    <2>2. pda \in Nat /\ ata \in Nat BY EscrowAssumption DEF TypeOK
    <2>3. wallet[k] \in Nat BY DEF TypeOK
    <2>4. wallet'[k] = wallet[k] - n /\ \A a \in Keys \ {k} : wallet'[a] = wallet[a]
      BY <1>8 DEF PlainTransfer, TypeOK
    <2>5. wallet'[k] + pda' + ata' = wallet[k] + pda + ata
      BY <1>8, <2>1, <2>2, <2>3, <2>4 DEF PlainTransfer
    <2>6. QED BY <1>0, <2>4, <2>5, WalletStep
  <1>9. CASE UNCHANGED <<pda, ata, wallet>> BY <1>9 DEF Conserved, Supply
  <1>10. QED
    BY <1>2, <1>3, <1>4, <1>5, <1>6, <1>7, <1>8, <1>9
    DEF Next, vars, InitializeConfig, SetPaused, CreateDeal, ConfirmDeposit, RevealTerms, Tick

\* No instruction creates or destroys a unit: for any finite set of keys, whichever roles
\* a key plays, the wallets and the two accounts of the address always hold the supply.
THEOREM NothingCreatedOrLost == Spec => []Conserved
  <1>1. TypeOK /\ Conserved /\ [Next]_vars => (TypeOK /\ Conserved)' BY NextType, NextConserved
  <1>2. Init => TypeOK /\ Conserved BY InitType, InitConserved
  <1>3. QED BY <1>1, <1>2, PTL DEF Spec

-----------------------------------------------------------------------------
(* No settlement is refused for want of funds. *)

\* The two checks of a settlement that pays out pay: the checked sums and the balance.
Payable(pay) == Total(pay) <= MaxU64 /\ Covered(Total(pay))

\* The refund of a live deal, its release and its cancellation each pass the checks: neither
\* an overflow nor a vault that is too small can keep the funds in.  A lamport deal has to
\* have been funded by plain transfers only, as lock_* puts tokens where no settlement of it
\* looks for them.
SettlementsPayable ==
    (Native => stake = Zero) =>
        /\ Live => Payable(Owed)
        /\ status = "PaymentLocked" => Payable(ReleaseSplit(deal))
        /\ status \in {"Created", "CollateralLocked"} => Payable(OwedBy(deal, locked \ {"BuyerPayment"}))

\* Once its status and its signer allow it, a settlement goes through, for every amount: of a
\* token deal whatever mixture of instructions and plain transfers funded it, of a lamport
\* deal if no instruction moved tokens.
THEOREM SettlementsNeverRefused == Spec => []SettlementsPayable
  <1>1. IInv => SettlementsPayable
    <2> SUFFICES ASSUME IInv, Native => stake = Zero PROVE
            /\ Live => Payable(Owed)
            /\ status = "PaymentLocked" => Payable(ReleaseSplit(deal))
            /\ status \in {"Created", "CollateralLocked"} => Payable(OwedBy(deal, locked \ {"BuyerPayment"}))
      BY DEF SettlementsPayable
    <2>1. ASSUME Live PROVE Payable(Owed)
      <3>1. HasDeal /\ TypeOK BY <2>1 DEF IInv, Live, HasDeal, TypeOK
      <3>2. Locked \in Nat BY <3>1, DealValues
      <3>3. Locked <= Vault /\ Locked <= MaxU64
        <4>1. CASE ~Native BY <2>1, <4>1 DEF IInv, Solvent
        <4>2. CASE Native
          <5>1. Total(stake) = 0 BY <4>2 DEF Total, Zero, Roles
          <5>2. pda \in 0..MaxU64 /\ MaxU64 \in Nat BY <3>1, EscrowAssumption DEF TypeOK
          <5>3. Locked <= pda BY <2>1, <4>2, <3>2, <5>1, <5>2 DEF IInv, NativeCovered
          <5>4. QED BY <3>2, <4>2, <5>2, <5>3 DEF Vault
        <4>3. QED BY <4>1, <4>2
      <3>4. QED BY <3>3 DEF Payable, Covered, Locked
    <2>2. ASSUME status = "PaymentLocked" PROVE Payable(ReleaseSplit(deal))
      <3>1. HasDeal /\ Live /\ TypeOK /\ locked = Deposits
        BY <2>2 DEF HasDeal, Live, IInv, FlagsMatchStatus
      <3>2. Total(ReleaseSplit(deal)) = Total(Owed)
        <4>1. Total(ReleaseSplit(deal)) = deal.collateral_buyer + deal.collateral_seller + deal.price
          BY <3>1, DealValues, SplitTotal
        <4>2. /\ Owed["buyer"] = deal.collateral_buyer + deal.price
              /\ Owed["seller"] = deal.collateral_seller
              /\ Locked = Owed["buyer"] + Owed["seller"]
          BY <3>1, DealValues DEF Deposits
        <4>3. /\ deal.price \in Nat /\ deal.collateral_buyer \in Nat /\ deal.collateral_seller \in Nat
          BY <3>1, DealValues
        <4>4. QED BY <4>1, <4>2, <4>3 DEF Locked
      <3>3. QED BY <2>1, <3>1, <3>2 DEF Payable
    <2>3. ASSUME status \in {"Created", "CollateralLocked"}
          PROVE  Payable(OwedBy(deal, locked \ {"BuyerPayment"}))
      <3>1. "BuyerPayment" \notin locked BY <2>3 DEF IInv, FlagsMatchStatus
      <3>2. locked \ {"BuyerPayment"} = locked BY <3>1
      <3>3. QED BY <2>1, <2>3, <3>2 DEF Live, Owed
    <2>4. QED BY <2>1, <2>2, <2>3
  <1>2. QED BY Invariance, <1>1, PTL
=============================================================================
