---------------------------- MODULE MCEscrowDeal ----------------------------
(***************************************************************************)
(* Instances of EscrowDeal for TLC.  b, s and m play buyer, seller and     *)
(* middleman.                                                              *)
(***************************************************************************)
EXTENDS EscrowDeal, TLC

CONSTANTS b, s, m,   \* keys
          h, h2      \* digests

MCKeys == {b, s, m}
MCHashes == {h, h2}

Offer(buyer, seller, middleman, price, cb, cs, timeout, mode, hash) ==
    [buyer |-> buyer, seller |-> seller, middleman |-> middleman, price |-> price,
     collateral_buyer |-> cb, collateral_seller |-> cs, timeout |-> timeout,
     trade_mode |-> mode, terms_hash |-> hash]

\* A deal whose total, 400, is the largest u64 of the instance; one in privacy mode, of
\* whose price of 199 each rate keeps another fee (110 bps: 2, 100 bps: 1); one whose
\* total does not fit; and two that create_deal refuses.  A plain transfer of 100 stands
\* for a collateral, two for a payment.
MCOffers ==
    { Offer(b, s, m, 200, 100, 100, 1, "Normal", NoHash),
      Offer(b, s, m, 199, 100, 100, 1, "Privacy", h),
      Offer(b, s, m, 201, 100, 100, 1, "Normal", NoHash),
      Offer(b, s, m, 200, 0, 100, 1, "Normal", NoHash),
      Offer(b, s, m, 200, 100, 100, 1, "Privacy", ZeroHash) }
MCWallet == (b :> 301) @@ (s :> 100) @@ (m :> 0)

\* And one key in two roles: buyer and seller, buyer and middleman, seller and middleman.
AllOffers ==
    MCOffers \cup { Offer(b, b, m, 200, 100, 100, 1, "Normal", ZeroHash),
                     Offer(b, s, b, 200, 100, 100, 1, "Normal", NoHash),
                     Offer(b, m, m, 199, 100, 100, 1, "Privacy", h) }
=============================================================================
