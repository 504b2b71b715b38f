----------------------------- MODULE EscrowTerms -----------------------------
(***************************************************************************)
(* The arithmetic of a deal: its deposits, the fee and the split of a      *)
(* release.  Shared by the escrow program and by what is proved about it.  *)
(***************************************************************************)
EXTENDS Integers

Roles == {"buyer", "seller", "middleman"}
TradeModes == {"Normal", "Privacy"}

\* DepositType, and the three *_locked flags of Deal.
Deposits == {"BuyerCollateral", "SellerCollateral", "BuyerPayment"}

\* The amount of the deal a deposit stands for.
Amount(d, t) ==
    [BuyerCollateral  |-> d.collateral_buyer,
     SellerCollateral |-> d.collateral_seller,
     BuyerPayment     |-> d.price][t]

Total(f) == f["buyer"] + f["seller"] + f["middleman"]

Zero == [r \in Roles |-> 0]

\* The part of deposit t that counts when the flags in L are set.
Flagged(d, L, t) == IF t \in L THEN Amount(d, t) ELSE 0

\* What the flags in L say each role has in escrow: the payouts of cancel_deal and
\* refund_on_timeout.
OwedBy(d, L) == [buyer     |-> Flagged(d, L, "BuyerCollateral") + Flagged(d, L, "BuyerPayment"),
                 seller    |-> Flagged(d, L, "SellerCollateral"),
                 middleman |-> 0]

\* create_deal: fee_bps by trade mode.
FeeBps(d) == IF d.trade_mode = "Privacy" THEN 110 ELSE 100

\* release_funds: computed in u128, so the product does not wrap.
Fee(d) == (d.price * FeeBps(d)) \div 10000

\* Mutant: the seller's collateral is not given back on release.
SplitWithoutCollateral(d) ==
    [buyer     |-> d.collateral_buyer,
     seller    |-> d.price - Fee(d),
     middleman |-> Fee(d)]

\* release_funds: seller_total, buyer_total and fee.
ReleaseSplit(d) ==
    [buyer     |-> d.collateral_buyer,
     seller    |-> (d.price - Fee(d)) + d.collateral_seller,
     middleman |-> Fee(d)]
=============================================================================
