---------------------------- MODULE MCMarketplace ----------------------------
(* The instances of the marketplace that TLC checks. *)
EXTENDS MarketplaceProperties, TLC

CONSTANTS seller, ann, bob, cat, nft1, nft2

\* Outside parties.
AllSellers == [n \in Nfts |-> seller]
SellerAndAnn == (nft1 :> seller) @@ (nft2 :> ann)
NoAnswer == [n \in Nfts |-> None]
CatMints == [n \in Nfts |-> cat]
NoSity == [u \in Users |-> 0]
SomeSity == [u \in Users |-> IF u = ann THEN 3 ELSE 1]

\* Decimals are in twentieths: a margin of 5%, the LOTA fees 10% and 5%.
CoarseConfig ==
  [bid_margin |-> 1, lota_fee |-> 2, lota_fee_low |-> 1,
   sity_full_rewards |-> 20, sity_partial_rewards |-> 10,
   sity_fee_registration |-> 5, sity_min_opening |-> 1, cancellation_fee |-> 10]

\* The configuration that instantiate writes has no cancellation fee.
FreeCancelConfig == [CoarseConfig EXCEPT !.cancellation_fee = 0]

\* A margin that the small amounts of the runs feel.
WideMarginConfig == [CoarseConfig EXCEPT !.bid_margin = 5]

-----------------------------------------------------------------------------
(* What is put on sale. *)
PlainListing ==
  [start_price |-> None, start_time |-> None, end_time |-> Genesis + MIN_TIME_AUCTION + 1,
   charity |-> None, instant_buy |-> None, reserve_price |-> None, private_sale |-> FALSE]

PricedListing ==
  [PlainListing EXCEPT !.start_price = 3, !.reserve_price = 6, !.instant_buy = 9]

ReserveListing == [PlainListing EXCEPT !.reserve_price = 4]

LateListing == [PlainListing EXCEPT !.start_time = Genesis + 1,
                                    !.end_time = Genesis + MIN_TIME_AUCTION + 2,
                                    !.instant_buy = 6]

PrivateListing ==
  [PlainListing EXCEPT !.private_sale = TRUE, !.reserve_price = 3, !.instant_buy = 8]

CharityListing == [PlainListing EXCEPT !.charity = 7, !.reserve_price = 20]

PublicListings == {PricedListing, LateListing}
PrivateListings == {PrivateListing}
TwoListings == {[PlainListing EXCEPT !.instant_buy = 6], ReserveListing}
TaxedListings == {CharityListing, [CharityListing EXCEPT !.charity = 20],
                  [PrivateListing EXCEPT !.instant_buy = None]}
BriefListings == {ReserveListing}

Bidders == Permutations({ann, bob, cat})
AnnBob == Permutations({ann, bob})
=============================================================================
