----------------------------- MODULE Refinement -----------------------------
(***************************************************************************)
(* How an auction of the marketplace is a lot of the auction house.        *)
(***************************************************************************)
EXTENDS MarketplaceProperties

CONSTANT Prices   \* the amounts of AuctionHouse; all of Nat in the proofs

\* What u has at stake is the total of its entry in BIDS, if there is one.
LotOf(a) ==
  [piece |-> items[a].nft, seller |-> items[a].creator,
   reserve |-> OrZero(items[a].reserve_price), price |-> OrZero(items[a].highest_bid),
   leader |-> items[a].highest_bidder, stake |-> [u \in Users |-> Total(u, a)]]

LotsOfAuctions == [a \in Auctions |-> LotOf(a)]

\* Nothing but an end_time in the past closes an auction.
ClosedAuctions == {a \in Auctions : items[a].end_time < now}

SettledAuctions == {a \in Auctions : items[a].resolved}

House == INSTANCE AuctionHouse WITH
  Bidders <- Users, House <- Market, Pieces <- Nfts, Nobody <- None,
  size <- counter_items, lots <- LotsOfAuctions, closed <- ClosedAuctions,
  settled <- SettledAuctions, owner <- nft_owner

\* The marketplace is such an auction house: retractions, cancellations,
\* purchases, the last-minute extension and relistings, with all their
\* special cases, are only ever its few moves.
ImplementsAuctionHouse == House!HouseSpec
=============================================================================
