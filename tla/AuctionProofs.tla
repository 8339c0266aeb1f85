--------------------------- MODULE AuctionProofs ---------------------------
(***************************************************************************)
(* Invariants of the marketplace, for any number of users, NFTs and        *)
(* auctions and for every configuration: the winner's money, the price and *)
(* the end of an auction, the NFTs, private sales, the terms of creators   *)
(* and bidders, and the histories.                                         *)
(***************************************************************************)
EXTENDS MarketplaceProofs, FiniteSetTheorems

-----------------------------------------------------------------------------
(* What the other actions do to the auctions and the bids. *)

\* execute_create_auction adds one auction without bids and leaves the others
\* as they are.
LEMMA CreateAuctionEffect ==
  ASSUME TypeOK, NEW u \in Users, NEW n \in Nfts, NEW l \in Listings, CreateAuction(u, n, l)
  PROVE  /\ counter_items \in Nat /\ counter_items \notin Auctions
         /\ Auctions' = Auctions \cup {counter_items}
         /\ \A b \in Auctions : items'[b] = items[b] /\ bids'[b] = bids[b]
         /\ items'[counter_items] = NewItem(u, n, l)
         /\ bids'[counter_items] = [v \in Users |-> None]
<1>1. counter_items \in Nat /\ counter_items' = counter_items + 1
  BY DEF TypeOK, CreateAuction, ExecuteCreateAuction
<1>2. Auctions' = Auctions \cup {counter_items} /\ counter_items \notin Auctions
  BY <1>1 DEF Auctions
<1>3. /\ items \in [Auctions -> ItemInfo]
      /\ NewItem(u, n, l) \in ItemInfo
      /\ items' = NewEntry(items, NewItem(u, n, l))
  BY NewItemType DEF TypeOK, CreateAuction, ExecuteCreateAuction
<1>4. /\ bids \in [Auctions -> [Users -> Option(BidInfo)]]
      /\ [v \in Users |-> None] \in [Users -> Option(BidInfo)]
      /\ bids' = NewEntry(bids, [v \in Users |-> None])
  BY DEF TypeOK, CreateAuction, ExecuteCreateAuction, Option
<1>5. /\ \A b \in Auctions : items'[b] = items[b]
      /\ items'[counter_items] = NewItem(u, n, l)
  BY <1>1, <1>3 DEF NewEntry, Auctions
<1>6. /\ \A b \in Auctions : bids'[b] = bids[b]
      /\ bids'[counter_items] = [v \in Users |-> None]
  BY <1>1, <1>4 DEF NewEntry, Auctions
<1> QED
  BY <1>1, <1>2, <1>5, <1>6

\* execute_register_private_sale opens one bidder's entry, with nothing at
\* stake, and records the SITY it took.
LEMMA RegisterPrivateSaleEffect ==
  ASSUME TypeOK, NEW u \in Users, NEW a \in Auctions, RegisterPrivateSale(u, a)
  PROVE  /\ items' = items
         /\ bids[a][u] = None
         /\ bids'[a][u] # None
         /\ bids'[a][u].total_bid = 0
         /\ bids'[a][u].sity_used = SityRequired(items[a])
         /\ \A b \in Auctions, v \in Users :
              b # a \/ v # u => bids'[b][v] = bids[b][v]
<1> DEFINE new == [bid_counter |-> 0, total_bid |-> 0, sity_used |-> SityRequired(items[a]),
                   resolved |-> FALSE]
<1>1. new \in BidInfo
  BY SityRequiredNat DEF TypeOK, BidInfo, Option
<1>2. new # None
  BY <1>1, NoneIsNoRecord
<1>3. bids' = [bids EXCEPT ![a][u] = new]
  BY DEF RegisterPrivateSale, ExecuteRegisterPrivateSale
<1>4. new.total_bid = 0 /\ new.sity_used = SityRequired(items[a])
  OBVIOUS
<1> HIDE DEF new
<1>5. bids'[a][u] = new
  BY <1>3 DEF TypeOK
<1>6. \A b \in Auctions, v \in Users : b # a \/ v # u => bids'[b][v] = bids[b][v]
  BY <1>3 DEF TypeOK
<1> QED
  BY <1>2, <1>4, <1>5, <1>6 DEF RegisterPrivateSale, ExecuteRegisterPrivateSale

\* What a bidder has at stake is an amount.
LEMMA TotalNat ==
  ASSUME TypeOK, NEW u \in Users, NEW a \in Auctions
  PROVE  Total(u, a) \in Nat
  BY DEF TypeOK, Option, BidInfo, Total

\* BidTotal is what the bidder has at stake already plus the coins sent.
LEMMA BidTotalAdds ==
  ASSUME TypeOK, NEW u \in Users, NEW a \in Auctions, NEW sent \in Amounts
  PROVE  BidTotal(u, a, sent) = Total(u, a) + sent
  BY InputAssumption DEF BidTotal, Total

\* Both kinds of bid: the bidder leads auction a at the new total, and
\* everything else is as before.
LEMMA BidEffect ==
  ASSUME TypeOK, NEW u \in Users, NEW a \in Auctions, NEW sent \in Amounts,
         PlaceBid(u, a, sent) \/ InstantBuy(u, a, sent)
  PROVE  /\ Auctions' = Auctions
         /\ items'[a].highest_bid = BidTotal(u, a, sent)
         /\ items'[a].highest_bidder = u
         /\ items'[a].creator = items[a].creator
         /\ items'[a].instant_buy = items[a].instant_buy
         /\ items'[a].reserve_price = items[a].reserve_price
         /\ items'[a].private_sale = items[a].private_sale
         /\ items'[a].nft = items[a].nft
         /\ items'[a].resolved = items[a].resolved
         /\ \A b \in Auctions : b # a => items'[b] = items[b]
         /\ Total(u, a)' = BidTotal(u, a, sent)
         /\ bids'[a][u] # None
         /\ \A b \in Auctions, v \in Users :
              b # a \/ v # u => bids'[b][v] = bids[b][v]
<1> DEFINE total == BidTotal(u, a, sent)
<1>1. RecordBid(u, a, sent) /\ counter_items' = counter_items
  BY DEF PlaceBid, InstantBuy
<1>2. PICK end \in Nat : items' = [items EXCEPT ![a] = Led(items[a], u, total, end)]
  BY PlaceBidEnd, ClosedEnd DEF PlaceBid, InstantBuy
<1>3. items \in [Auctions -> ItemInfo] /\ items[a] \in ItemInfo
  BY DEF TypeOK
<1>4. /\ items'[a] = Led(items[a], u, total, end)
      /\ \A b \in Auctions : b # a => items'[b] = items[b]
  BY <1>2, <1>3
<1>5. bids'[a][u] # None /\ bids'[a][u].total_bid = total
  BY <1>1, RecordBidEffect, NoneIsNoRecord
<1>6. Total(u, a)' = total
  BY <1>5 DEF Total
<1>7. \A b \in Auctions, v \in Users : b # a \/ v # u => bids'[b][v] = bids[b][v]
  BY <1>1, RecordBidEffect
<1>8. /\ items'[a].highest_bid = total /\ items'[a].highest_bidder = u
      /\ items'[a].creator = items[a].creator
      /\ items'[a].instant_buy = items[a].instant_buy
      /\ items'[a].reserve_price = items[a].reserve_price
      /\ items'[a].private_sale = items[a].private_sale
      /\ items'[a].nft = items[a].nft
      /\ items'[a].resolved = items[a].resolved
  BY <1>3, <1>4 DEF Led, ItemInfo
<1> QED
  BY <1>1, <1>4, <1>5, <1>6, <1>7, <1>8, SameAuctions

-----------------------------------------------------------------------------
(* Each action leaves the bids and the auctions that it is not about alone.
   TermsKept(a) says that auction a has its leader, price and terms as
   before. *)
TermsKept(a) ==
  /\ items'[a].highest_bid = items[a].highest_bid
  /\ items'[a].highest_bidder = items[a].highest_bidder
  /\ items'[a].end_time = items[a].end_time
  /\ items'[a].instant_buy = items[a].instant_buy
  /\ items'[a].reserve_price = items[a].reserve_price
  /\ items'[a].private_sale = items[a].private_sale
  /\ items'[a].nft = items[a].nft

\* execute_withdraw_nft changes neither the bids nor the terms of an auction.
LEMMA SettlementKeepsTerms ==
  ASSUME TypeOK, NEW a \in Auctions, NEW extra \in Extras, WithdrawNft(a, extra)
  PROVE  \A b \in Auctions : TermsKept(b)
<1>1. items[a] \in ItemInfo
  BY DEF TypeOK
<1>2. items'[a] = [items[a] EXCEPT !.resolved = TRUE]
  BY WithdrawNftEffect
<1>3. TermsKept(a)
  BY <1>1, <1>2 DEF TermsKept, ItemInfo
<1> QED
  BY <1>3, WithdrawNftEffect DEF TermsKept

\* execute_cancel_auction removes the bidder, moves the end into the past and
\* leaves the price.
LEMMA CancellationCloses ==
  ASSUME TypeOK, NEW u \in Users, NEW a \in Auctions,
         NEW extra \in Extras, CancelAuction(u, a, extra)
  PROVE  /\ items'[a].highest_bid = items[a].highest_bid
         /\ items'[a].highest_bidder = None
         /\ items'[a].end_time < now
         /\ items'[a].instant_buy = items[a].instant_buy
         /\ items'[a].creator = items[a].creator
         /\ items'[a].reserve_price = items[a].reserve_price
         /\ items'[a].private_sale = items[a].private_sale
         /\ items'[a].nft = items[a].nft
         /\ items'[a].resolved = items[a].resolved
<1>1. items[a] \in ItemInfo
  BY DEF TypeOK
<1>2. items'[a] = [items[a] EXCEPT !.end_time = now - MIN_TIME_AUCTION,
                                   !.highest_bidder = None]
  BY CancelAuctionEffect
<1>3. now - MIN_TIME_AUCTION < now
  BY ClosedEnd
<1> QED
  BY <1>1, <1>2, <1>3 DEF ItemInfo

-----------------------------------------------------------------------------
(* The money of the winner. *)

\* No handler parts the bidder an auction is going to from the price.
LEMMA WinnerEscrowedStep ==
  ASSUME TypeOK, WinnerEscrowed, [Next]_vars
  PROVE  WinnerEscrowed'
<1> SUFFICES ASSUME NEW b \in Auctions', NEW v \in Users, IsWinner(v, items'[b])
             PROVE  Total(v, b)' = items'[b].highest_bid
  BY DEF WinnerEscrowed, IsWinner, ReserveMet
<1>0. \A a \in Auctions, u \in Users : IsWinner(u, items[a]) => Total(u, a) = items[a].highest_bid
  BY DEF WinnerEscrowed, IsWinner, ReserveMet
<1>1. ASSUME UNCHANGED << counter_items, items, bids >>
      PROVE  Total(v, b)' = items'[b].highest_bid
  BY <1>1, <1>0, SameAuctions DEF Total
<1>2. ASSUME NEW u \in Users, NEW n \in Nfts, NEW l \in Listings, CreateAuction(u, n, l)
      PROVE  Total(v, b)' = items'[b].highest_bid
  <2>1. CASE b \in Auctions
    BY <1>2, <2>1, <1>0, CreateAuctionEffect DEF Total
  <2>2. CASE b = counter_items
    <3>1. items'[b] = NewItem(u, n, l)
      BY <1>2, <2>2, CreateAuctionEffect
    <3>2. items'[b].highest_bidder = None
      BY <3>1 DEF NewItem
    <3> QED
      BY <3>2, AddressAssumption DEF IsWinner
  <2> QED
    BY <1>2, <2>1, <2>2, CreateAuctionEffect
<1>3. ASSUME NEW u \in Users, NEW a \in Auctions, RegisterPrivateSale(u, a)
      PROVE  Total(v, b)' = items'[b].highest_bid
  <2>1. b \in Auctions /\ IsWinner(v, items[b])
    BY <1>3, RegisterPrivateSaleEffect, SameAuctions
       DEF RegisterPrivateSale, ExecuteRegisterPrivateSale
  <2>2. Total(v, b)' = Total(v, b)
    BY <1>3, <2>1, RegisterPrivateSaleEffect DEF Total
  <2> QED
    BY <1>3, <2>1, <2>2, <1>0, RegisterPrivateSaleEffect
<1>4. ASSUME NEW u \in Users, NEW a \in Auctions, NEW sent \in Amounts,
             PlaceBid(u, a, sent) \/ InstantBuy(u, a, sent)
      PROVE  Total(v, b)' = items'[b].highest_bid
  <2>1. b \in Auctions
    BY <1>4, BidEffect
  <2>2. CASE b = a
    BY <1>4, <2>2, BidEffect DEF IsWinner
  <2>3. CASE b # a
    BY <1>4, <2>1, <2>3, <1>0, BidEffect DEF Total
  <2> QED
    BY <2>2, <2>3
<1>5. ASSUME NEW u \in Users, NEW a \in Auctions,
             NEW extra \in Extras, RetractBids(u, a, extra)
      PROVE  Total(v, b)' = items'[b].highest_bid
  <2>1. items' = items /\ Auctions' = Auctions /\ ~IsWinner(u, items[a])
    BY <1>5, SameAuctions DEF RetractBids, ExecuteRetractBids
  <2>2. Total(v, b)' = Total(v, b)
    BY <1>5, <2>1, RetractBidsEffect DEF Total
  <2> QED
    BY <1>0, <2>1, <2>2
<1>6. ASSUME NEW a \in Auctions, NEW extra \in Extras, WithdrawNft(a, extra)
      PROVE  Total(v, b)' = items'[b].highest_bid
  <2>1. bids' = bids /\ Auctions' = Auctions
    BY <1>6, SameAuctions DEF WithdrawNft, ExecuteWithdrawNft
  <2> QED
    BY <1>6, <2>1, <1>0, SettlementKeepsTerms
       DEF TermsKept, Total, IsWinner, ReserveMet
<1>7. ASSUME NEW u \in Users, NEW a \in Auctions,
             NEW extra \in Extras, CancelAuction(u, a, extra)
      PROVE  Total(v, b)' = items'[b].highest_bid
  <2>1. bids' = bids /\ Auctions' = Auctions
    BY <1>7, SameAuctions DEF CancelAuction, ExecuteCancelAuction
  <2>2. b # a
    BY <1>7, CancellationCloses, AddressAssumption DEF IsWinner
  <2> QED
    BY <1>7, <2>1, <2>2, <1>0, CancelAuctionEffect DEF Total
<1>8. CASE Tick \/ UNCHANGED vars
  BY <1>1, <1>8 DEF Tick, vars
<1>9. ASSUME NEW u \in Users, NEW fee \in RoyaltyFees, NEW r \in Option(Users),
             NEW extra \in Extras,
             UpdateRoyalty(u, fee, r, extra)
      PROVE  Total(v, b)' = items'[b].highest_bid
  BY <1>1, <1>9 DEF UpdateRoyalty
<1> QED
  BY <1>2, <1>3, <1>4, <1>5, <1>6, <1>7, <1>8, <1>9 DEF Next

\* The highest bidder of an auction whose reserve price is met has the price
\* in the contract, through every interleaving of bids, refunds,
\* registrations, settlements and cancellations.
THEOREM WinnerEscrowedAlways == Spec => []WinnerEscrowed
<1>1. Init => WinnerEscrowed
  BY DEF Init, WinnerEscrowed, Auctions
<1>2. TypeOK /\ WinnerEscrowed /\ [Next]_vars => WinnerEscrowed'
  BY WinnerEscrowedStep
<1> QED
  BY <1>1, <1>2, TypeCorrect, PTL DEF Spec

-----------------------------------------------------------------------------
(* The price. *)

\* A new bid is never below the price so far.
LEMMA BidsRise ==
  ASSUME TypeOK, BoughtOutIsClosed, NEW u \in Users, NEW a \in Auctions, NEW sent \in Amounts,
         PlaceBid(u, a, sent) \/ InstantBuy(u, a, sent), items[a].highest_bid # None
  PROVE  /\ BidTotal(u, a, sent) \in Nat /\ items[a].highest_bid \in Nat
         /\ items[a].highest_bid <= BidTotal(u, a, sent)
<1>1. items[a] \in ItemInfo /\ BidTotal(u, a, sent) \in Nat
  BY BidTotalNat DEF TypeOK
<1>2. items[a].highest_bid \in Nat
  BY <1>1 DEF ItemInfo, Option
<1>3. CASE PlaceBid(u, a, sent)
  <2>1. BidTotal(u, a, sent) >= MinBid(items[a])
    BY <1>3 DEF PlaceBid
  <2>2. MinBid(items[a]) \in Nat /\ MinBid(items[a]) >= items[a].highest_bid
    BY <1>1, MinBidNat DEF OrZero
  <2> QED
    BY <1>1, <1>2, <2>1, <2>2
<1>4. CASE InstantBuy(u, a, sent)
  BY <1>1, <1>2, <1>4 DEF InstantBuy, BoughtOutIsClosed
<1> QED
  BY <1>1, <1>2, <1>3, <1>4

\* Block time never goes back.
LEMMA TimeAdvances ==
  ASSUME TypeOK, [Next]_vars
  PROVE  now \in Nat /\ now' \in Nat /\ now <= now'
<1>1. now \in Nat
  BY DEF TypeOK
<1>2. CASE Tick \/ UNCHANGED vars
  BY <1>1, <1>2 DEF Tick, vars
<1>3. ASSUME NEW u \in Users, NEW n \in Nfts, NEW l \in Listings, CreateAuction(u, n, l)
      PROVE  now' = now
  BY <1>3 DEF CreateAuction, ExecuteCreateAuction
<1>4. ASSUME NEW u \in Users, NEW a \in Auctions, NEW sent \in Amounts,
             PlaceBid(u, a, sent) \/ InstantBuy(u, a, sent)
      PROVE  now' = now
  BY <1>4 DEF PlaceBid, InstantBuy
<1>5. ASSUME NEW u \in Users, NEW a \in Auctions, RegisterPrivateSale(u, a)
      PROVE  now' = now
  BY <1>5 DEF RegisterPrivateSale, ExecuteRegisterPrivateSale
<1>6. ASSUME NEW u \in Users, NEW a \in Auctions, NEW extra \in Extras,
             RetractBids(u, a, extra) \/ CancelAuction(u, a, extra)
      PROVE  now' = now
  BY <1>6 DEF RetractBids, ExecuteRetractBids, CancelAuction, ExecuteCancelAuction
<1>7. ASSUME NEW a \in Auctions, NEW extra \in Extras, WithdrawNft(a, extra)
      PROVE  now' = now
  BY <1>7 DEF WithdrawNft, ExecuteWithdrawNft
<1>8. ASSUME NEW u \in Users, NEW fee \in RoyaltyFees, NEW r \in Option(Users),
             NEW extra \in Extras, UpdateRoyalty(u, fee, r, extra)
      PROVE  now' = now
  BY <1>8 DEF UpdateRoyalty
<1> QED
  BY <1>1, <1>2, <1>3, <1>4, <1>5, <1>6, <1>7, <1>8 DEF Next

\* Only execute_instant_buy reaches the instant price; afterwards the guards of
\* the bidding handlers keep the auction as it is.
LEMMA BoughtOutIsClosedStep ==
  ASSUME TypeOK, BoughtOutIsClosed, [Next]_vars
  PROVE  BoughtOutIsClosed'
<1> DEFINE Fine(i, t) == i.instant_buy # None /\ i.highest_bid # None =>
                           /\ i.highest_bid <= i.instant_buy
                           /\ i.highest_bid = i.instant_buy => i.end_time < t
<1>1. \A a \in Auctions : Fine(items[a], now)
  BY DEF BoughtOutIsClosed
<1> SUFFICES ASSUME NEW b \in Auctions' PROVE Fine(items'[b], now')
  BY DEF BoughtOutIsClosed
<1>2. now \in Nat /\ now' \in Nat /\ now <= now'
  BY TimeAdvances
<1>3. ASSUME b \in Auctions, items'[b] = items[b] PROVE Fine(items'[b], now')
  <2>1. items[b] \in ItemInfo
    BY <1>3 DEF TypeOK
  <2>2. items[b].end_time \in Nat
    BY <2>1 DEF ItemInfo
  <2> QED
    BY <1>1, <1>2, <1>3, <2>2
<1>4. ASSUME NEW u \in Users, NEW n \in Nfts, NEW l \in Listings, CreateAuction(u, n, l)
      PROVE  Fine(items'[b], now')
  <2>1. CASE b = counter_items
    <3>1. items'[b] = NewItem(u, n, l)
      BY <1>4, <2>1, CreateAuctionEffect
    <3> QED
      BY <3>1 DEF NewItem
  <2> QED
    BY <1>3, <1>4, <2>1, CreateAuctionEffect
<1>5. ASSUME NEW u \in Users, NEW a \in Auctions, NEW sent \in Amounts, PlaceBid(u, a, sent)
      PROVE  Fine(items'[b], now')
  <2>1. CASE b = a
    <3>1. /\ items'[a].highest_bid = BidTotal(u, a, sent)
          /\ items'[a].instant_buy = items[a].instant_buy
      BY <1>5, BidEffect
    <3>2. items[a].instant_buy # None =>
            items[a].instant_buy \in Nat /\ BidTotal(u, a, sent) < items[a].instant_buy
      BY <1>5 DEF PlaceBid, TypeOK, ItemInfo, Option
    <3> QED
      BY <2>1, <3>1, <3>2, BidTotalNat
  <2>2. CASE b # a
    BY <1>3, <1>5, <2>2, BidEffect
  <2> QED
    BY <2>1, <2>2
<1>6. ASSUME NEW u \in Users, NEW a \in Auctions, NEW sent \in Amounts, InstantBuy(u, a, sent)
      PROVE  Fine(items'[b], now')
  <2>1. CASE b = a
    <3>1. /\ items'[a].highest_bid = BidTotal(u, a, sent)
          /\ items'[a].instant_buy = items[a].instant_buy
      BY <1>6, BidEffect
    <3>2. items'[a] = Led(items[a], u, BidTotal(u, a, sent), now - MIN_TIME_AUCTION)
      BY <1>6 DEF InstantBuy, TypeOK
    <3>3. items[a] \in ItemInfo
      BY DEF TypeOK
    <3>4. items'[a].end_time = now - MIN_TIME_AUCTION
      BY <3>2, <3>3 DEF Led, ItemInfo
    <3>5. items'[a].end_time < now'
      BY <1>2, <3>4, ClosedEnd
    <3>6. items[a].instant_buy = BidTotal(u, a, sent)
      BY <1>6 DEF InstantBuy
    <3> QED
      BY <2>1, <3>1, <3>5, <3>6, BidTotalNat
  <2>2. CASE b # a
    BY <1>3, <1>6, <2>2, BidEffect
  <2> QED
    BY <2>1, <2>2
<1>7. ASSUME NEW a \in Auctions,
             NEW extra \in Extras, WithdrawNft(a, extra)
      PROVE  Fine(items'[b], now')
  <2>1. b \in Auctions /\ TermsKept(b) /\ now' = now
    BY <1>7, SettlementKeepsTerms, SameAuctions DEF WithdrawNft, ExecuteWithdrawNft
  <2> QED
    BY <1>1, <2>1 DEF TermsKept
<1>8. ASSUME NEW u \in Users, NEW a \in Auctions,
             NEW extra \in Extras, CancelAuction(u, a, extra)
      PROVE  Fine(items'[b], now')
  <2>1. b \in Auctions /\ now' = now
    BY <1>8, SameAuctions DEF CancelAuction, ExecuteCancelAuction
  <2>2. CASE b = a
    BY <1>1, <1>8, <2>1, <2>2, CancellationCloses
  <2>3. CASE b # a
    BY <1>3, <1>8, <2>1, <2>3, CancelAuctionEffect
  <2> QED
    BY <2>2, <2>3
<1>9. ASSUME items' = items, counter_items' = counter_items PROVE Fine(items'[b], now')
  BY <1>3, <1>9, SameAuctions
<1> HIDE DEF Fine
<1>10. CASE \/ Tick \/ UNCHANGED vars
            \/ \E u \in Users, a \in Auctions : RegisterPrivateSale(u, a)
            \/ \E u \in Users, a \in Auctions, extra \in Extras : RetractBids(u, a, extra)
            \/ \E u \in Users, fee \in RoyaltyFees, r \in Option(Users), extra \in Extras :
                 UpdateRoyalty(u, fee, r, extra)
  BY <1>9, <1>10 DEF Tick, vars, RegisterPrivateSale, ExecuteRegisterPrivateSale,
                     RetractBids, ExecuteRetractBids, UpdateRoyalty
<1> QED
  BY <1>4, <1>5, <1>6, <1>7, <1>8, <1>10 DEF Next

\* An auction sold at the instant price is closed at once and for good.
THEOREM BoughtOutIsClosedAlways == Spec => []BoughtOutIsClosed
<1>1. Init => BoughtOutIsClosed
  BY DEF Init, BoughtOutIsClosed, Auctions
<1>2. TypeOK /\ BoughtOutIsClosed /\ [Next]_vars => BoughtOutIsClosed'
  BY BoughtOutIsClosedStep
<1> QED
  BY <1>1, <1>2, TypeCorrect, PTL DEF Spec

\* A bid that counts is above all others, and a retraction only lowers one. An
\* auction bought at the instant price takes no bid at that price again.
LEMMA HighestBidTopsStep ==
  ASSUME TypeOK, BoughtOutIsClosed, HighestBidTops, [Next]_vars
  PROVE  HighestBidTops'
<1> DEFINE Tops(total, price) == total > 0 => price # None /\ total <= price
<1>1. \A a \in Auctions, u \in Users : Tops(Total(u, a), items[a].highest_bid)
  BY DEF HighestBidTops
<1> SUFFICES ASSUME NEW b \in Auctions', NEW v \in Users
             PROVE  Tops(Total(v, b)', items'[b].highest_bid)
  BY DEF HighestBidTops
<1>2. ASSUME b \in Auctions, items'[b].highest_bid = items[b].highest_bid,
             Total(v, b)' = Total(v, b) \/ Total(v, b)' = 0
      PROVE  Tops(Total(v, b)', items'[b].highest_bid)
  BY <1>1, <1>2
<1>3. ASSUME NEW u \in Users, NEW n \in Nfts, NEW l \in Listings, CreateAuction(u, n, l)
      PROVE  Tops(Total(v, b)', items'[b].highest_bid)
  <2>1. CASE b \in Auctions
    BY <1>2, <1>3, <2>1, CreateAuctionEffect DEF Total
  <2>2. CASE b = counter_items
    BY <1>3, <2>2, CreateAuctionEffect DEF Total
  <2> QED
    BY <1>3, <2>1, <2>2, CreateAuctionEffect
<1>4. ASSUME NEW u \in Users, NEW a \in Auctions, RegisterPrivateSale(u, a)
      PROVE  Tops(Total(v, b)', items'[b].highest_bid)
  <2>1. b \in Auctions /\ items' = items
    BY <1>4, SameAuctions DEF RegisterPrivateSale, ExecuteRegisterPrivateSale
  <2>2. Total(v, b)' = Total(v, b) \/ Total(v, b)' = 0
    BY <1>4, <2>1, RegisterPrivateSaleEffect DEF Total
  <2> QED
    BY <1>2, <2>1, <2>2
<1>5. ASSUME NEW u \in Users, NEW a \in Auctions, NEW sent \in Amounts,
             PlaceBid(u, a, sent) \/ InstantBuy(u, a, sent)
      PROVE  Tops(Total(v, b)', items'[b].highest_bid)
  <2>1. /\ b \in Auctions
        /\ items'[a].highest_bid = BidTotal(u, a, sent)
        /\ Total(u, a)' = BidTotal(u, a, sent)
    BY <1>5, BidEffect
  <2>2. BidTotal(u, a, sent) \in Nat /\ BidTotal(u, a, sent) # None
    BY BidTotalNat, NoneAssumption
  <2>3. CASE b # a
    BY <1>2, <1>5, <2>1, <2>3, BidEffect DEF Total
  <2>4. CASE b = a /\ v = u
    BY <2>1, <2>2, <2>4
  <2>5. CASE b = a /\ v # u
    <3>1. Total(v, b)' = Total(v, b)
      BY <1>5, <2>1, <2>5, BidEffect DEF Total
    <3>2. CASE items[a].highest_bid = None
      BY <1>1, <2>1, <2>5, <3>1, <3>2
    <3>3. CASE items[a].highest_bid # None
      <4>1. /\ items[a].highest_bid \in Nat
            /\ items[a].highest_bid <= BidTotal(u, a, sent)
        BY <1>5, <3>3, BidsRise
      <4>2. Total(v, b) \in Nat
        BY <2>1, TotalNat
      <4> QED
        BY <1>1, <2>1, <2>2, <2>5, <3>1, <4>1, <4>2
    <3> QED
      BY <3>2, <3>3
  <2> QED
    BY <2>3, <2>4, <2>5
<1>6. ASSUME NEW u \in Users, NEW a \in Auctions,
             NEW extra \in Extras, RetractBids(u, a, extra)
      PROVE  Tops(Total(v, b)', items'[b].highest_bid)
  <2>1. b \in Auctions /\ items' = items
    BY <1>6, SameAuctions DEF RetractBids, ExecuteRetractBids
  <2>2. Total(v, b)' = Total(v, b) \/ Total(v, b)' = 0
    BY <1>6, <2>1, RetractBidsEffect DEF Total
  <2> QED
    BY <1>2, <2>1, <2>2
<1>7. ASSUME NEW a \in Auctions, NEW extra \in Extras, WithdrawNft(a, extra)
      PROVE  Tops(Total(v, b)', items'[b].highest_bid)
  <2>1. bids' = bids /\ b \in Auctions
    BY <1>7, SameAuctions DEF WithdrawNft, ExecuteWithdrawNft
  <2> QED
    BY <1>2, <1>7, <2>1, SettlementKeepsTerms DEF TermsKept, Total
<1>8. ASSUME NEW u \in Users, NEW a \in Auctions,
             NEW extra \in Extras, CancelAuction(u, a, extra)
      PROVE  Tops(Total(v, b)', items'[b].highest_bid)
  <2>1. bids' = bids /\ b \in Auctions
    BY <1>8, SameAuctions DEF CancelAuction, ExecuteCancelAuction
  <2>2. items'[a].highest_bid = items[a].highest_bid
    BY <1>8, CancellationCloses
  <2>3. b # a => items'[b] = items[b]
    BY <1>8, <2>1, CancelAuctionEffect
  <2> QED
    BY <1>2, <2>1, <2>2, <2>3 DEF Total
<1>9. ASSUME UNCHANGED << counter_items, items, bids >>
      PROVE  Tops(Total(v, b)', items'[b].highest_bid)
  BY <1>2, <1>9, SameAuctions DEF Total
<1>10. CASE \/ Tick \/ UNCHANGED vars
            \/ \E u \in Users, fee \in RoyaltyFees, r \in Option(Users), extra \in Extras :
                 UpdateRoyalty(u, fee, r, extra)
  BY <1>9, <1>10 DEF Tick, vars, UpdateRoyalty
<1> HIDE DEF Tops
<1> QED
  BY <1>3, <1>4, <1>5, <1>6, <1>7, <1>8, <1>10 DEF Next

\* Nobody ever has more in an auction than its highest bid: when bids are
\* taken back and placed again, the price does not fall behind them.
THEOREM HighestBidTopsAlways == Spec => []HighestBidTops
<1>1. Init => HighestBidTops
  BY DEF Init, HighestBidTops, Auctions
<1>2. TypeOK /\ BoughtOutIsClosed /\ HighestBidTops /\ [Next]_vars => HighestBidTops'
  BY HighestBidTopsStep
<1> QED
  BY <1>1, <1>2, TypeCorrect, BoughtOutIsClosedAlways, PTL DEF Spec

-----------------------------------------------------------------------------
(* The end of an auction. *)

\* What any step does to an auction whose end lies in the past.
LEMMA ClosedForeverStep ==
  ASSUME TypeOK, [Next]_vars, NEW b \in Auctions, items[b].end_time < now
  PROVE  items'[b] \in {items[b], [items[b] EXCEPT !.resolved = TRUE]}
<1>1. now \in Nat /\ items[b].end_time \in Nat
  BY DEF TypeOK, ItemInfo
<1>2. ~NotEnded(items[b])
  BY <1>1 DEF NotEnded
<1>3. ASSUME NEW u \in Users, NEW n \in Nfts, NEW l \in Listings, CreateAuction(u, n, l)
      PROVE  items'[b] = items[b]
  BY <1>3, CreateAuctionEffect
<1>4. ASSUME NEW u \in Users, NEW a \in Auctions, NEW sent \in Amounts,
             PlaceBid(u, a, sent) \/ InstantBuy(u, a, sent)
      PROVE  items'[b] = items[b]
  <2>1. a # b
    BY <1>2, <1>4 DEF PlaceBid, InstantBuy
  <2> QED
    BY <1>4, <2>1, BidEffect
<1>5. ASSUME NEW a \in Auctions, NEW extra \in Extras, WithdrawNft(a, extra)
      PROVE  items'[b] \in {items[b], [items[b] EXCEPT !.resolved = TRUE]}
  BY <1>5, WithdrawNftEffect
<1>6. ASSUME NEW u \in Users, NEW a \in Auctions,
             NEW extra \in Extras, CancelAuction(u, a, extra)
      PROVE  items'[b] = items[b]
  <2>1. a # b
    BY <1>2, <1>6 DEF CancelAuction, ExecuteCancelAuction
  <2> QED
    BY <1>6, <2>1, CancelAuctionEffect
<1>7. CASE \/ Tick \/ UNCHANGED vars
           \/ \E u \in Users, a \in Auctions : RegisterPrivateSale(u, a)
           \/ \E u \in Users, a \in Auctions, extra \in Extras : RetractBids(u, a, extra)
           \/ \E u \in Users, fee \in RoyaltyFees, r \in Option(Users), extra \in Extras :
                UpdateRoyalty(u, fee, r, extra)
  BY <1>7 DEF Tick, vars, RegisterPrivateSale, ExecuteRegisterPrivateSale, RetractBids,
              ExecuteRetractBids, UpdateRoyalty
<1> QED
  BY <1>3, <1>4, <1>5, <1>6, <1>7 DEF Next

\* Once the end of an auction lies in the past, its price, bidder and end
\* are final: the guards of place_bid, instant_buy and cancel_auction agree.
THEOREM ClosedForeverAlways == Spec => ClosedForever
<1>1. TypeOK /\ [Next]_vars =>
        \A a \in Auctions :
          items[a].end_time < now =>
            items'[a] \in {items[a], [items[a] EXCEPT !.resolved = TRUE]}
  BY ClosedForeverStep
<1> QED
  BY <1>1, TypeCorrect, PTL DEF Spec, ClosedForever

\* An auction without a bidder gets one only by a bid, which a cancelled auction
\* refuses because its end lies in the past.
LEMMA CancelledIsClosedStep ==
  ASSUME TypeOK, CancelledIsClosed, [Next]_vars
  PROVE  CancelledIsClosed'
<1> SUFFICES ASSUME NEW b \in Auctions', items'[b].highest_bid # None,
                    items'[b].highest_bidder = None
             PROVE  items'[b].end_time < now'
  BY DEF CancelledIsClosed
<1>1. now \in Nat /\ now' \in Nat /\ now <= now'
  BY TimeAdvances
<1>2. ASSUME b \in Auctions, items'[b] = items[b] \/ TermsKept(b)
      PROVE  items'[b].end_time < now'
  <2>1. /\ items[b].highest_bid # None /\ items[b].highest_bidder = None
        /\ items'[b].end_time = items[b].end_time
    BY <1>2 DEF TermsKept
  <2>2. items[b].end_time < now
    BY <1>2, <2>1 DEF CancelledIsClosed
  <2>3. items[b].end_time \in Nat
    BY <1>2 DEF TypeOK, ItemInfo
  <2> QED
    BY <1>1, <2>1, <2>2, <2>3
<1>3. ASSUME NEW u \in Users, NEW n \in Nfts, NEW l \in Listings, CreateAuction(u, n, l)
      PROVE  items'[b].end_time < now'
  <2>1. CASE b = counter_items
    <3>1. items'[b] = NewItem(u, n, l)
      BY <1>3, <2>1, CreateAuctionEffect
    <3> QED
      BY <3>1 DEF NewItem
  <2> QED
    BY <1>2, <1>3, <2>1, CreateAuctionEffect
<1>4. ASSUME NEW u \in Users, NEW a \in Auctions, NEW sent \in Amounts,
             PlaceBid(u, a, sent) \/ InstantBuy(u, a, sent)
      PROVE  items'[b].end_time < now'
  <2>1. b \in Auctions /\ items'[a].highest_bidder = u
    BY <1>4, BidEffect
  <2>2. b # a
    BY <2>1, AddressAssumption
  <2> QED
    BY <1>2, <1>4, <2>1, <2>2, BidEffect
<1>5. ASSUME NEW a \in Auctions, NEW extra \in Extras, WithdrawNft(a, extra)
      PROVE  items'[b].end_time < now'
  <2>1. b \in Auctions
    BY <1>5, SameAuctions DEF WithdrawNft, ExecuteWithdrawNft
  <2> QED
    BY <1>2, <1>5, <2>1, SettlementKeepsTerms
<1>6. ASSUME NEW u \in Users, NEW a \in Auctions,
             NEW extra \in Extras, CancelAuction(u, a, extra)
      PROVE  items'[b].end_time < now'
  <2>1. b \in Auctions /\ now' = now
    BY <1>6, SameAuctions DEF CancelAuction, ExecuteCancelAuction
  <2>2. items'[a].end_time < now
    BY <1>6, CancellationCloses
  <2>3. b # a => items'[b] = items[b]
    BY <1>6, <2>1, CancelAuctionEffect
  <2> QED
    BY <1>2, <2>1, <2>2, <2>3
<1>7. ASSUME items' = items, counter_items' = counter_items PROVE items'[b].end_time < now'
  BY <1>2, <1>7, SameAuctions
<1>8. CASE \/ Tick \/ UNCHANGED vars
           \/ \E u \in Users, a \in Auctions : RegisterPrivateSale(u, a)
           \/ \E u \in Users, a \in Auctions, extra \in Extras : RetractBids(u, a, extra)
           \/ \E u \in Users, fee \in RoyaltyFees, r \in Option(Users), extra \in Extras :
                UpdateRoyalty(u, fee, r, extra)
  BY <1>7, <1>8 DEF Tick, vars, RegisterPrivateSale, ExecuteRegisterPrivateSale,
                    RetractBids, ExecuteRetractBids, UpdateRoyalty
<1> QED
  BY <1>3, <1>4, <1>5, <1>6, <1>8 DEF Next

\* A cancelled auction takes no bids, from the second of its cancellation on.
THEOREM CancelledIsClosedAlways == Spec => []CancelledIsClosed
<1>1. Init => CancelledIsClosed
  BY DEF Init, CancelledIsClosed, Auctions
<1>2. TypeOK /\ CancelledIsClosed /\ [Next]_vars => CancelledIsClosed'
  BY CancelledIsClosedStep
<1> QED
  BY <1>1, <1>2, TypeCorrect, PTL DEF Spec

-----------------------------------------------------------------------------
(* The NFTs. *)

\* The custody of the NFTs depends on their owners and on which auctions are
\* resolved, on nothing else.
LEMMA CustodyKept ==
  ASSUME NftCustody, nft_owner' = nft_owner, Auctions' = Auctions,
         \A b \in Auctions :
           items'[b].nft = items[b].nft /\ items'[b].resolved = items[b].resolved
  PROVE  NftCustody'
<1>1. \A n \in Nfts : Open(n)' = Open(n)
  BY DEF Open
<1> QED
  BY <1>1 DEF NftCustody

\* A new auction takes over an NFT that the contract did not hold before.
LEMMA NftCustodyCreate ==
  ASSUME TypeOK, NftCustody, NEW u \in Users, NEW m \in Nfts, NEW l \in Listings,
         CreateAuction(u, m, l)
  PROVE  NftCustody'
<1> SUFFICES ASSUME NEW n \in Nfts
             PROVE  IF nft_owner'[n] = Market
                    THEN \E a \in Auctions' : Open(n)' = {a}
                    ELSE Open(n)' = {}
  BY DEF NftCustody
<1>1. /\ Auctions' = Auctions \cup {counter_items}
      /\ \A b \in Auctions : items'[b] = items[b]
      /\ items'[counter_items] = NewItem(u, m, l)
  BY CreateAuctionEffect
<1>2. items'[counter_items].nft = m /\ items'[counter_items].resolved = FALSE
  BY <1>1 DEF NewItem
<1>3. /\ nft_owner[m] = u /\ u # Market /\ nft_owner'[m] = Market
      /\ \A k \in Nfts : k # m => nft_owner'[k] = nft_owner[k]
  BY AddressAssumption DEF CreateAuction, ExecuteCreateAuction, TypeOK
<1>4. CASE n = m
  <2>1. Open(m) = {}
    BY <1>3 DEF NftCustody
  <2>2. Open(m)' = {counter_items}
    BY <1>1, <1>2, <2>1 DEF Open
  <2> QED
    BY <1>1, <1>3, <1>4, <2>2
<1>5. CASE n # m
  <2>1. Open(n)' = Open(n)
    BY <1>1, <1>2, <1>5 DEF Open
  <2> QED
    BY <1>1, <1>3, <1>5, <2>1 DEF NftCustody
<1> QED
  BY <1>4, <1>5

\* A settlement hands out the NFT of the one auction it resolves.
LEMMA NftCustodyWithdraw ==
  ASSUME TypeOK, NftCustody, NEW a \in Auctions,
         NEW extra \in Extras, WithdrawNft(a, extra)
  PROVE  NftCustody'
<1>1. items[a] \in ItemInfo
  BY DEF TypeOK
<1>2. PICK m \in Nfts : m = items[a].nft
  BY <1>1 DEF ItemInfo
<1> SUFFICES ASSUME NEW n \in Nfts
             PROVE  IF nft_owner'[n] = Market
                    THEN \E b \in Auctions' : Open(n)' = {b}
                    ELSE Open(n)' = {}
  BY DEF NftCustody
<1>3. Auctions' = Auctions
  BY SameAuctions DEF WithdrawNft, ExecuteWithdrawNft
<1>4. /\ items'[a] = [items[a] EXCEPT !.resolved = TRUE]
      /\ \A b \in Auctions : b # a => items'[b] = items[b]
  BY WithdrawNftEffect
<1>5. items'[a].resolved /\ items'[a].nft = m
  BY <1>1, <1>2, <1>4 DEF ItemInfo
<1>6. NewOwner(items[a]) \in Users
  BY <1>1 DEF NewOwner, ItemInfo, Option
<1>7. /\ nft_owner' = [nft_owner EXCEPT ![m] = NewOwner(items[a])]
      /\ nft_owner[m] = Market /\ ~items[a].resolved
  BY <1>2 DEF WithdrawNft, ExecuteWithdrawNft, MaySettle
<1>8. CASE n = m
  <2>1. a \in Open(m)
    BY <1>2, <1>7 DEF Open
  <2>2. Open(m) = {a}
    BY <1>7, <2>1 DEF NftCustody
  <2>3. Open(m)' = {}
    BY <1>3, <1>4, <1>5, <2>2 DEF Open
  <2>4. nft_owner'[m] # Market
    BY <1>6, <1>7, AddressAssumption DEF TypeOK
  <2> QED
    BY <1>8, <2>3, <2>4
<1>9. CASE n # m
  <2>1. Open(n)' = Open(n)
    BY <1>2, <1>3, <1>4, <1>5, <1>9 DEF Open
  <2>2. nft_owner'[n] = nft_owner[n]
    BY <1>7, <1>9 DEF TypeOK
  <2> QED
    BY <1>3, <2>1, <2>2 DEF NftCustody
<1> QED
  BY <1>8, <1>9

\* Every handler keeps the NFTs and the unresolved auctions matched.
LEMMA NftCustodyStep ==
  ASSUME TypeOK, NftCustody, [Next]_vars
  PROVE  NftCustody'
<1>1. ASSUME NEW u \in Users, NEW a \in Auctions, NEW sent \in Amounts,
             PlaceBid(u, a, sent) \/ InstantBuy(u, a, sent)
      PROVE  NftCustody'
  <2>1. nft_owner' = nft_owner
    BY <1>1 DEF PlaceBid, InstantBuy
  <2>2. /\ Auctions' = Auctions
        /\ items'[a].nft = items[a].nft /\ items'[a].resolved = items[a].resolved
        /\ \A b \in Auctions : b # a => items'[b] = items[b]
    BY <1>1, BidEffect
  <2>3. \A b \in Auctions :
          items'[b].nft = items[b].nft /\ items'[b].resolved = items[b].resolved
    BY <2>2
  <2> QED
    BY <2>1, <2>2, <2>3, CustodyKept
<1>2. ASSUME NEW u \in Users, NEW a \in Auctions,
             NEW extra \in Extras, CancelAuction(u, a, extra)
      PROVE  NftCustody'
  <2>1. nft_owner' = nft_owner /\ Auctions' = Auctions
    BY <1>2, SameAuctions DEF CancelAuction, ExecuteCancelAuction
  <2>2. items'[a].nft = items[a].nft /\ items'[a].resolved = items[a].resolved
    BY <1>2, CancellationCloses
  <2>3. \A b \in Auctions : b # a => items'[b] = items[b]
    BY <1>2, CancelAuctionEffect
  <2>4. \A b \in Auctions :
          items'[b].nft = items[b].nft /\ items'[b].resolved = items[b].resolved
    BY <2>2, <2>3
  <2> QED
    BY <2>1, <2>4, CustodyKept
<1>3. ASSUME UNCHANGED << nft_owner, items, counter_items >>
      PROVE  NftCustody'
  BY <1>3, SameAuctions, CustodyKept
<1>4. CASE \/ Tick \/ UNCHANGED vars
           \/ \E u \in Users, a \in Auctions : RegisterPrivateSale(u, a)
           \/ \E u \in Users, a \in Auctions, extra \in Extras : RetractBids(u, a, extra)
           \/ \E u \in Users, fee \in RoyaltyFees, r \in Option(Users), extra \in Extras :
                UpdateRoyalty(u, fee, r, extra)
  BY <1>3, <1>4 DEF Tick, vars, RegisterPrivateSale, ExecuteRegisterPrivateSale,
                    RetractBids, ExecuteRetractBids, UpdateRoyalty
<1> QED
  BY <1>1, <1>2, <1>4, NftCustodyCreate, NftCustodyWithdraw DEF Next

\* The contract always holds exactly the NFTs of the unresolved auctions, one
\* auction for each: no NFT is handed out twice or stays behind.
THEOREM NftCustodyAlways == Spec => []NftCustody
<1>1. Init => NftCustody
  BY OutsideAssumption, AddressAssumption DEF Init, NftCustody, Open, Auctions
<1>2. TypeOK /\ NftCustody /\ [Next]_vars => NftCustody'
  BY NftCustodyStep
<1> QED
  BY <1>1, <1>2, TypeCorrect, PTL DEF Spec

-----------------------------------------------------------------------------
(* Private sales. *)

\* The SITY price of a private sale is an amount, at least the opening price.
LEMMA SityRequiredOpening ==
  ASSUME NEW item \in ItemInfo
  PROVE  /\ SityRequired(item) \in Nat /\ SityRequired(item) # None
         /\ SityRequired(item) >= Config.sity_min_opening
<1>1. Config.sity_min_opening \in Nat /\ Config.sity_fee_registration \in Decimal
  BY ConfigAssumption DEF ConfigType
<1>2. item.highest_bid # None =>
        DecMul(item.highest_bid, Config.sity_fee_registration) \in Nat
  BY <1>1, DecMulNat DEF ItemInfo, Option
<1>3. SityRequired(item) \in Nat /\ SityRequired(item) >= Config.sity_min_opening
  BY <1>1, <1>2 DEF SityRequired
<1> QED
  BY <1>3, NoneAssumption

\* Only a registration opens an entry in a private sale, and no handler clears
\* the SITY recorded in it.
LEMMA PrivateBiddersRegisteredStep ==
  ASSUME TypeOK, PrivateBiddersRegistered, [Next]_vars
  PROVE  PrivateBiddersRegistered'
<1> DEFINE Paid(bid) == bid.sity_used # None /\ bid.sity_used >= Config.sity_min_opening
<1>1. \A a \in Auctions, u \in Users :
        items[a].private_sale /\ bids[a][u] # None => Paid(bids[a][u])
  BY DEF PrivateBiddersRegistered
<1> SUFFICES ASSUME NEW b \in Auctions', NEW v \in Users, items'[b].private_sale,
                    bids'[b][v] # None
             PROVE  Paid(bids'[b][v])
  BY DEF PrivateBiddersRegistered
<1> HIDE DEF Paid
<1>2. ASSUME b \in Auctions, items'[b].private_sale = items[b].private_sale,
             bids'[b][v] = bids[b][v]
      PROVE  Paid(bids'[b][v])
  BY <1>1, <1>2
<1>3. ASSUME NEW u \in Users, NEW n \in Nfts, NEW l \in Listings, CreateAuction(u, n, l)
      PROVE  Paid(bids'[b][v])
  <2>1. b # counter_items
    BY <1>3, CreateAuctionEffect
  <2>2. b \in Auctions /\ items'[b] = items[b] /\ bids'[b] = bids[b]
    BY <1>3, <2>1, CreateAuctionEffect
  <2> QED
    BY <1>2, <2>2
<1>4. ASSUME NEW u \in Users, NEW a \in Auctions, RegisterPrivateSale(u, a)
      PROVE  Paid(bids'[b][v])
  <2>1. b \in Auctions /\ items' = items
    BY <1>4, SameAuctions DEF RegisterPrivateSale, ExecuteRegisterPrivateSale
  <2>2. CASE b = a /\ v = u
    <3>1. bids'[a][u].sity_used = SityRequired(items[a])
      BY <1>4, RegisterPrivateSaleEffect
    <3>2. items[a] \in ItemInfo
      BY DEF TypeOK
    <3> QED
      BY <2>2, <3>1, <3>2, SityRequiredOpening DEF Paid
  <2>3. CASE b # a \/ v # u
    <3>1. bids'[b][v] = bids[b][v]
      BY <1>4, <2>1, <2>3, RegisterPrivateSaleEffect
    <3> QED
      BY <1>2, <2>1, <3>1
  <2> QED
    BY <2>2, <2>3
<1>5. ASSUME NEW u \in Users, NEW a \in Auctions, NEW sent \in Amounts,
             PlaceBid(u, a, sent) \/ InstantBuy(u, a, sent)
      PROVE  Paid(bids'[b][v])
  <2>1. /\ b \in Auctions
        /\ items'[a].private_sale = items[a].private_sale
        /\ b # a => items'[b] = items[b]
    BY <1>5, BidEffect
  <2>2. CASE b = a /\ v = u
    <3>1. bids[a][u] # None /\ RecordBid(u, a, sent)
      BY <1>5, <2>1, <2>2 DEF PlaceBid, InstantBuy, MayBid
    <3>2. bids'[a][u].sity_used = bids[a][u].sity_used
      BY <3>1, RecordBidEffect
    <3> QED
      BY <1>1, <2>1, <2>2, <3>1, <3>2 DEF Paid
  <2>3. CASE b # a \/ v # u
    <3>1. bids'[b][v] = bids[b][v]
      BY <1>5, <2>1, <2>3, BidEffect
    <3> QED
      BY <1>2, <2>1, <3>1
  <2> QED
    BY <2>2, <2>3
<1>6. ASSUME NEW u \in Users, NEW a \in Auctions,
             NEW extra \in Extras, RetractBids(u, a, extra)
      PROVE  Paid(bids'[b][v])
  <2>1. b \in Auctions /\ items' = items
    BY <1>6, SameAuctions DEF RetractBids, ExecuteRetractBids
  <2>2. CASE b = a /\ v = u
    <3>1. bids[a][u] # None /\ bids'[a][u].sity_used = bids[a][u].sity_used
      BY <1>6, RetractBidsEffect, NoneIsNoRecord
    <3> QED
      BY <1>1, <2>1, <2>2, <3>1 DEF Paid
  <2>3. CASE b # a \/ v # u
    <3>1. bids'[b][v] = bids[b][v]
      BY <1>6, <2>1, <2>3, RetractBidsEffect
    <3> QED
      BY <1>2, <2>1, <3>1
  <2> QED
    BY <2>2, <2>3
<1>7. ASSUME NEW a \in Auctions, NEW extra \in Extras, WithdrawNft(a, extra)
      PROVE  Paid(bids'[b][v])
  <2>1. b \in Auctions /\ bids' = bids
    BY <1>7, SameAuctions DEF WithdrawNft, ExecuteWithdrawNft
  <2>2. items'[b].private_sale = items[b].private_sale
    BY <1>7, <2>1, SettlementKeepsTerms DEF TermsKept
  <2> QED
    BY <1>2, <2>1, <2>2
<1>8. ASSUME NEW u \in Users, NEW a \in Auctions,
             NEW extra \in Extras, CancelAuction(u, a, extra)
      PROVE  Paid(bids'[b][v])
  <2>1. b \in Auctions /\ bids' = bids
    BY <1>8, SameAuctions DEF CancelAuction, ExecuteCancelAuction
  <2>2. items'[a].private_sale = items[a].private_sale
    BY <1>8, CancellationCloses
  <2>3. b # a => items'[b] = items[b]
    BY <1>8, <2>1, CancelAuctionEffect
  <2> QED
    BY <1>2, <2>1, <2>2, <2>3
<1>9. ASSUME UNCHANGED << counter_items, items, bids >>
      PROVE  Paid(bids'[b][v])
  BY <1>2, <1>9, SameAuctions
<1>10. CASE \/ Tick \/ UNCHANGED vars
            \/ \E u \in Users, fee \in RoyaltyFees, r \in Option(Users), extra \in Extras :
                 UpdateRoyalty(u, fee, r, extra)
  BY <1>9, <1>10 DEF Tick, vars, UpdateRoyalty
<1> QED
  BY <1>3, <1>4, <1>5, <1>6, <1>7, <1>8, <1>10 DEF Next

\* Nobody gets into a private sale without having burned the opening price in
\* SITY, whichever way the entry in BIDS came about.
THEOREM PrivateBiddersRegisteredAlways == Spec => []PrivateBiddersRegistered
<1>1. Init => PrivateBiddersRegistered
  BY DEF Init, PrivateBiddersRegistered, Auctions
<1>2. TypeOK /\ PrivateBiddersRegistered /\ [Next]_vars => PrivateBiddersRegistered'
  BY PrivateBiddersRegisteredStep
<1> QED
  BY <1>1, <1>2, TypeCorrect, PTL DEF Spec

-----------------------------------------------------------------------------
(* The terms of the creator and of the bidders. *)

\* The inductive invariant: an auction that has bids has reached its start
\* price, which lies below its instant price, and whoever leads it has bid in
\* it and did not create it.
TermsMet ==
  \A a \in Auctions :
    /\ items[a].start_price # None /\ items[a].instant_buy # None =>
         items[a].start_price < items[a].instant_buy
    /\ items[a].start_price # None /\ items[a].highest_bid # None =>
         items[a].start_price <= items[a].highest_bid
    /\ items[a].highest_bidder # None =>
         /\ items[a].highest_bidder # items[a].creator
         /\ items[a].highest_bid # None
         /\ histories_bidder[a][items[a].highest_bidder] # << >>

-----------------------------------------------------------------------------
(* What no handler changes. *)

\* The terms of auction a are as before.
SameTerms(a) ==
  /\ items'[a].creator = items[a].creator
  /\ items'[a].start_price = items[a].start_price
  /\ items'[a].reserve_price = items[a].reserve_price
  /\ items'[a].instant_buy = items[a].instant_buy

\* A bid leaves the terms of all auctions.
LEMMA BidKeepsTerms ==
  ASSUME TypeOK, NEW u \in Users, NEW a \in Auctions, NEW sent \in Amounts,
         PlaceBid(u, a, sent) \/ InstantBuy(u, a, sent)
  PROVE  /\ \A b \in Auctions : SameTerms(b)
         /\ items'[a].total_bids = items[a].total_bids + 1
<1> DEFINE total == BidTotal(u, a, sent)
<1>1. PICK end \in Nat : items' = [items EXCEPT ![a] = Led(items[a], u, total, end)]
  BY PlaceBidEnd, ClosedEnd DEF PlaceBid, InstantBuy
<1>2. items \in [Auctions -> ItemInfo] /\ items[a] \in ItemInfo
  BY DEF TypeOK
<1>3. items'[a] = Led(items[a], u, total, end)
  BY <1>1, <1>2
<1>4. SameTerms(a) /\ items'[a].total_bids = items[a].total_bids + 1
  BY <1>2, <1>3 DEF Led, SameTerms, ItemInfo
<1>5. \A b \in Auctions : b # a => SameTerms(b)
  BY BidEffect DEF SameTerms
<1> QED
  BY <1>4, <1>5

\* So does a settlement, which also counts no bid.
LEMMA SettlementKeepsAll ==
  ASSUME TypeOK, NEW a \in Auctions, NEW extra \in Extras, WithdrawNft(a, extra)
  PROVE  \A b \in Auctions :
           /\ SameTerms(b) /\ TermsKept(b)
           /\ items'[b].total_bids = items[b].total_bids
<1>1. items[a] \in ItemInfo /\ items'[a] = [items[a] EXCEPT !.resolved = TRUE]
  BY WithdrawNftEffect DEF TypeOK
<1>2. SameTerms(a) /\ items'[a].total_bids = items[a].total_bids
  BY <1>1 DEF SameTerms, ItemInfo
<1>3. \A b \in Auctions : b # a => items'[b] = items[b]
  BY WithdrawNftEffect
<1> QED
  BY <1>2, <1>3, SettlementKeepsTerms DEF SameTerms

\* And a cancellation, which changes the bidder and the end only.
LEMMA CancellationKeepsAll ==
  ASSUME TypeOK, NEW u \in Users, NEW a \in Auctions,
         NEW extra \in Extras, CancelAuction(u, a, extra)
  PROVE  /\ \A b \in Auctions :
              /\ SameTerms(b)
              /\ items'[b].highest_bid = items[b].highest_bid
              /\ items'[b].highest_bidder \in {items[b].highest_bidder, None}
              /\ items'[b].total_bids = items[b].total_bids
<1>1. /\ items[a] \in ItemInfo
      /\ items'[a] = [items[a] EXCEPT !.end_time = now - MIN_TIME_AUCTION,
                                      !.highest_bidder = None]
  BY CancelAuctionEffect DEF TypeOK
<1>2. /\ SameTerms(a) /\ items'[a].highest_bid = items[a].highest_bid
      /\ items'[a].highest_bidder = None /\ items'[a].total_bids = items[a].total_bids
  BY <1>1 DEF SameTerms, ItemInfo
<1>3. \A b \in Auctions : b # a => items'[b] = items[b]
  BY CancelAuctionEffect
<1> QED
  BY <1>2, <1>3 DEF SameTerms

\* The steps that leave the auctions and their histories as they are.
QuietStep ==
  \/ Tick \/ UNCHANGED vars
  \/ \E u \in Users, a \in Auctions : RegisterPrivateSale(u, a)
  \/ \E u \in Users, a \in Auctions, extra \in Extras : RetractBids(u, a, extra)
  \/ \E u \in Users, fee \in RoyaltyFees, r \in Option(Users), extra \in Extras :
       UpdateRoyalty(u, fee, r, extra)

\* They change neither items nor outcomes.
LEMMA QuietStepEffect ==
  ASSUME QuietStep
  PROVE  /\ items' = items /\ histories_bidder' = histories_bidder /\ outcome' = outcome
         /\ Auctions' = Auctions
  BY SameAuctions DEF QuietStep, Tick, vars, RegisterPrivateSale, ExecuteRegisterPrivateSale,
                      RetractBids, ExecuteRetractBids, UpdateRoyalty

-----------------------------------------------------------------------------
(* A step on an auction. *)

\* Whoever is outbid has time to answer: what place_bid does to end_time, and
\* the guard that it is not over yet, fit together.
LEMMA OutbidCanAnswerStep ==
  ASSUME TypeOK, [Next]_vars, NEW b \in Auctions,
         items'[b].total_bids > items[b].total_bids,
         items'[b].highest_bid # items[b].instant_buy
  PROVE  items'[b].end_time >= now + LAST_MINUTE_BID_EXTRA_TIME
<1>1. items[b] \in ItemInfo /\ now \in Nat
  BY DEF TypeOK
<1>2. items[b].end_time \in Nat /\ items[b].total_bids \in Nat
  BY <1>1 DEF ItemInfo
<1>3. items'[b] # items[b] /\ items'[b].total_bids # items[b].total_bids
  BY <1>2
<1>4. ASSUME NEW u \in Users, NEW a \in Auctions, NEW sent \in Amounts, PlaceBid(u, a, sent)
      PROVE  items'[b].end_time >= now + LAST_MINUTE_BID_EXTRA_TIME
  <2>1. b = a
    BY <1>3, <1>4, BidEffect
  <2>2. items'[b].end_time = ExtendedEnd(items[b])
    BY <1>1, <1>4, <2>1 DEF PlaceBid, Led, TypeOK, ItemInfo
  <2>3. now <= items[b].end_time
    BY <1>4, <2>1 DEF PlaceBid, NotEnded
  <2> QED
    BY <1>1, <1>2, <2>2, <2>3, TimeAssumption DEF ExtendedEnd
<1>5. ASSUME NEW u \in Users, NEW a \in Auctions, NEW sent \in Amounts, InstantBuy(u, a, sent)
      PROVE  FALSE
  <2>1. b = a
    BY <1>3, <1>5, BidEffect
  <2>2. items[b].instant_buy = BidTotal(u, a, sent)
    BY <1>5, <2>1 DEF InstantBuy
  <2> QED
    BY <1>5, <2>1, <2>2, BidEffect
<1>6. ASSUME NEW u \in Users, NEW n \in Nfts, NEW l \in Listings, CreateAuction(u, n, l)
      PROVE  FALSE
  BY <1>3, <1>6, CreateAuctionEffect
<1>7. ASSUME NEW a \in Auctions, NEW extra \in Extras, WithdrawNft(a, extra)
      PROVE  FALSE
  BY <1>3, <1>7, SettlementKeepsAll
<1>8. ASSUME NEW u \in Users, NEW a \in Auctions, NEW extra \in Extras,
             CancelAuction(u, a, extra)
      PROVE  FALSE
  BY <1>3, <1>8, CancellationKeepsAll
<1>9. ~QuietStep
  BY <1>3, QuietStepEffect
<1> QED
  BY <1>4, <1>5, <1>6, <1>7, <1>8, <1>9 DEF Next, QuietStep

\* Whoever is outbid by less than the instant price has at least
\* LAST_MINUTE_BID_EXTRA_TIME to answer.
THEOREM OutbidCanAnswerAlways == Spec => OutbidCanAnswer
<1>1. TypeOK /\ [Next]_vars =>
        \A a \in Auctions :
          /\ items'[a].total_bids > items[a].total_bids
          /\ items'[a].highest_bid # items[a].instant_buy
          => items'[a].end_time >= now + LAST_MINUTE_BID_EXTRA_TIME
  BY OutbidCanAnswerStep
<1> QED
  BY <1>1, TypeCorrect, PTL DEF Spec, OutbidCanAnswer

-----------------------------------------------------------------------------
(* The terms of the creator. *)

\* Once a user has bid in an auction, the user's history there is not empty.
LEMMA BidHistoriesGrow ==
  ASSUME TypeOK, NEW u \in Users, NEW a \in Auctions, NEW sent \in Amounts,
         PlaceBid(u, a, sent) \/ InstantBuy(u, a, sent)
  PROVE  /\ histories_bidder'[a][u] # << >>
         /\ \A b \in Auctions, v \in Users :
              b # a \/ v # u => histories_bidder'[b][v] = histories_bidder[b][v]
<1>1. histories_bidder \in [Auctions -> [Users -> Seq(HistoryBidInfo)]]
  BY DEF TypeOK
<1>2. PICK e \in HistoryBidInfo :
        histories_bidder' = [histories_bidder EXCEPT ![a][u] = Append(@, e)]
  BY BidTotalNat DEF PlaceBid, InstantBuy, HistoryEntry, HistoryBidInfo
<1>3. /\ histories_bidder'[a][u] = Append(histories_bidder[a][u], e)
      /\ \A b \in Auctions, v \in Users :
           b # a \/ v # u => histories_bidder'[b][v] = histories_bidder[b][v]
  BY <1>1, <1>2
<1>4. Append(histories_bidder[a][u], e) # << >>
  <2>1. histories_bidder[a][u] \in Seq(HistoryBidInfo)
    BY <1>1
  <2> QED
    BY <2>1
<1> QED
  BY <1>3, <1>4

\* The bids and terms of one auction that TermsMet is about.
Met(item, mine) ==
  /\ item.start_price # None /\ item.instant_buy # None => item.start_price < item.instant_buy
  /\ item.start_price # None /\ item.highest_bid # None => item.start_price <= item.highest_bid
  /\ item.highest_bidder # None =>
       /\ item.highest_bidder # item.creator
       /\ item.highest_bid # None
       /\ mine[item.highest_bidder] # << >>

\* A new auction has no bids, and its prices passed the checks of
\* execute_create_auction.
LEMMA CreationMeetsTerms ==
  ASSUME TypeOK, TermsMet, NEW u \in Users, NEW n \in Nfts, NEW l \in Listings,
         CreateAuction(u, n, l)
  PROVE  TermsMet'
<1> SUFFICES ASSUME NEW b \in Auctions' PROVE Met(items'[b], histories_bidder'[b])
  BY DEF TermsMet, Met
<1>1. CASE b \in Auctions
  <2>1. histories_bidder'[b] = histories_bidder[b]
    <3>1. histories_bidder' = NewEntry(histories_bidder, [v \in Users |-> << >>])
      BY DEF CreateAuction, ExecuteCreateAuction
    <3>2. counter_items \in Nat /\ b \in 0 .. counter_items /\ b # counter_items
      BY <1>1 DEF TypeOK, Auctions
    <3> QED
      BY <3>1, <3>2 DEF NewEntry
  <2>2. items'[b] = items[b]
    BY <1>1, CreateAuctionEffect
  <2> QED
    BY <1>1, <2>1, <2>2 DEF TermsMet, Met
<1>2. CASE b = counter_items
  <2>1. ValidPrices(l)
    BY DEF CreateAuction, ExecuteCreateAuction
  <2>2. items'[b] = NewItem(u, n, l)
    BY <1>2, CreateAuctionEffect
  <2> QED
    BY <2>1, <2>2 DEF Met, NewItem, ValidPrices
<1> QED
  BY <1>1, <1>2, CreateAuctionEffect

\* place_bid asks for the start price until it is reached, and the instant
\* price is beyond it.
LEMMA BidMeetsTerms ==
  ASSUME TypeOK, TermsMet, BoughtOutIsClosed,
         NEW u \in Users, NEW a \in Auctions, NEW sent \in Amounts,
         PlaceBid(u, a, sent) \/ InstantBuy(u, a, sent)
  PROVE  TermsMet'
<1> SUFFICES ASSUME NEW b \in Auctions PROVE Met(items'[b], histories_bidder'[b])
  BY BidEffect DEF TermsMet, Met
<1>1. CASE b # a
  <2>1. items'[b] = items[b]
    BY <1>1, BidEffect
  <2>2. items[b].highest_bidder \in Users \cup {None}
    BY DEF TypeOK, ItemInfo, Option
  <2>3. \A v \in Users : histories_bidder'[b][v] = histories_bidder[b][v]
    BY <1>1, BidHistoriesGrow
  <2> QED
    BY <2>1, <2>2, <2>3 DEF TermsMet, Met
<1>2. CASE b = a
  <2> DEFINE total == BidTotal(u, a, sent)
  <2>1. /\ items[a] \in ItemInfo /\ total \in Nat
        /\ items[a].start_price \in Option(Nat) /\ items[a].highest_bid \in Option(Nat)
    BY BidTotalNat DEF TypeOK, ItemInfo
  <2>2. /\ items'[a].highest_bid = total /\ items'[a].highest_bidder = u
        /\ items[a].creator # u /\ u # None
        /\ SameTerms(a) /\ histories_bidder'[a][u] # << >>
    <3>1. items[a].creator # u
      BY DEF PlaceBid, InstantBuy, MayBid
    <3>2. u # None
      BY AddressAssumption
    <3>3. SameTerms(a)
      BY BidKeepsTerms
    <3>4. histories_bidder'[a][u] # << >>
      BY BidHistoriesGrow
    <3>5. items'[a].highest_bid = total /\ items'[a].highest_bidder = u
      BY BidEffect
    <3> QED
      BY <3>1, <3>2, <3>3, <3>4, <3>5
  <2>3. /\ items[a].start_price # None /\ items[a].instant_buy # None =>
             items[a].start_price < items[a].instant_buy
        /\ items[a].start_price # None /\ items[a].highest_bid # None =>
             items[a].start_price <= items[a].highest_bid
    BY DEF TermsMet
  <2>4. items[a].start_price # None => items[a].start_price <= total
    <3>1. CASE PlaceBid(u, a, sent)
      <4>1. total >= MinBid(items[a])
        BY <3>1 DEF PlaceBid
      <4>2. MinBid(items[a]) \in Nat /\ MinBid(items[a]) >= OrZero(items[a].highest_bid)
        BY <2>1, MinBidNat
      <4>3. items[a].start_price # None => items[a].start_price <= MinBid(items[a])
        BY <2>1, <4>2 DEF MinBid, Option, OrZero
      <4> QED
        BY <2>1, <4>1, <4>2, <4>3 DEF Option
    <3>2. CASE InstantBuy(u, a, sent)
      <4>1. items[a].instant_buy # None /\ items[a].instant_buy = total
        BY <3>2 DEF InstantBuy
      <4> QED
        BY <2>1, <2>3, <4>1 DEF Option
    <3> QED
      BY <3>1, <3>2
  <2>5. total # None
    BY <2>1, NoneAssumption
  <2> HIDE DEF total
  <2> QED
    BY <1>2, <2>2, <2>3, <2>4, <2>5 DEF Met, SameTerms
<1> QED
  BY <1>1, <1>2

\* Every step keeps the inductive invariant.
LEMMA TermsMetStep ==
  ASSUME TypeOK, TermsMet, BoughtOutIsClosed, [Next]_vars
  PROVE  TermsMet'
<1>1. ASSUME NEW u \in Users, NEW n \in Nfts, NEW l \in Listings, CreateAuction(u, n, l)
      PROVE  TermsMet'
  BY <1>1, CreationMeetsTerms
<1>2. ASSUME NEW u \in Users, NEW a \in Auctions, NEW sent \in Amounts,
             PlaceBid(u, a, sent) \/ InstantBuy(u, a, sent)
      PROVE  TermsMet'
  BY <1>2, BidMeetsTerms
<1>3. ASSUME NEW a \in Auctions, NEW extra \in Extras, WithdrawNft(a, extra)
      PROVE  TermsMet'
  <2>1. Auctions' = Auctions /\ histories_bidder' = histories_bidder
    BY <1>3, SameAuctions DEF WithdrawNft, ExecuteWithdrawNft
  <2> QED
    BY <1>3, <2>1, SettlementKeepsAll DEF TermsMet, SameTerms, TermsKept
<1>4. ASSUME NEW u \in Users, NEW a \in Auctions, NEW extra \in Extras,
             CancelAuction(u, a, extra)
      PROVE  TermsMet'
  <2>1. Auctions' = Auctions /\ histories_bidder' = histories_bidder
    BY <1>4, SameAuctions DEF CancelAuction, ExecuteCancelAuction
  <2> QED
    BY <1>4, <2>1, CancellationKeepsAll DEF TermsMet, SameTerms
<1>5. CASE QuietStep
  BY <1>5, QuietStepEffect DEF TermsMet
<1> QED
  BY <1>1, <1>2, <1>3, <1>4, <1>5 DEF Next, QuietStep

\* TermsMet is an invariant of the marketplace.
LEMMA TermsMetAlways == Spec => []TermsMet
<1>1. Init => TermsMet
  BY DEF Init, TermsMet, Auctions
<1>2. TypeOK /\ TermsMet /\ BoughtOutIsClosed /\ [Next]_vars => TermsMet'
  BY TermsMetStep
<1> QED
  BY <1>1, <1>2, TypeCorrect, BoughtOutIsClosedAlways, PTL DEF Spec

-----------------------------------------------------------------------------
(* Who outbids whom. *)

\* The price after a bid in an auction that has one already.
LEMMA BidTakesTheLead ==
  ASSUME TypeOK, TermsMet, BoughtOutIsClosed,
         NEW u \in Users, NEW a \in Auctions, NEW sent \in Amounts,
         PlaceBid(u, a, sent) \/ InstantBuy(u, a, sent), items[a].highest_bid # None
  PROVE  LET old == items[a]
             total == BidTotal(u, a, sent)
         IN  \/ total >= old.highest_bid + DecMul(old.highest_bid, Config.bid_margin)
             \/ total = old.instant_buy /\ total > old.highest_bid
<1> DEFINE total == BidTotal(u, a, sent)
<1>1. /\ total \in Nat /\ items[a].highest_bid \in Nat /\ items[a].highest_bid <= total
      /\ now \in Nat /\ items[a].end_time \in Nat /\ items[a].start_price \in Option(Nat)
  BY BidsRise DEF TypeOK, ItemInfo
<1>2. CASE PlaceBid(u, a, sent)
  <2>1. total >= MinBid(items[a])
    BY <1>2 DEF PlaceBid
  <2>2. items[a].start_price # None => items[a].start_price <= items[a].highest_bid
    BY DEF TermsMet
  <2>3. MinBid(items[a]) = items[a].highest_bid + DecMul(items[a].highest_bid, Config.bid_margin)
    BY <1>1, <2>2 DEF MinBid, OrZero, Option
  <2> QED
    BY <2>1, <2>3
<1>3. CASE InstantBuy(u, a, sent)
  <2>1. items[a].instant_buy # None /\ items[a].instant_buy = total /\ NotEnded(items[a])
    BY <1>3 DEF InstantBuy
  <2>2. items[a].highest_bid # items[a].instant_buy
    BY <1>1, <2>1 DEF BoughtOutIsClosed, NotEnded
  <2> QED
    BY <1>1, <2>1, <2>2
<1> QED
  BY <1>2, <1>3

\* What a step may do to the lead.
LEMMA LeaderOutbidsStep ==
  ASSUME TypeOK, TermsMet, BoughtOutIsClosed, [Next]_vars,
         NEW b \in Auctions, items[b].highest_bid # None
  PROVE  LET old == items[b]
             new == items'[b]
         IN  /\ new.highest_bid # None
             /\ \/ new.highest_bid = old.highest_bid
                   /\ new.highest_bidder \in {old.highest_bidder, None}
                \/ new.highest_bid >= old.highest_bid + DecMul(old.highest_bid, Config.bid_margin)
                \/ new.highest_bid = new.instant_buy /\ new.highest_bid > old.highest_bid
<1> DEFINE Fine == LET old == items[b]
                       new == items'[b]
                   IN  /\ new.highest_bid # None
                       /\ \/ new.highest_bid = old.highest_bid
                             /\ new.highest_bidder \in {old.highest_bidder, None}
                          \/ new.highest_bid >= old.highest_bid
                                                + DecMul(old.highest_bid, Config.bid_margin)
                          \/ new.highest_bid = new.instant_buy
                             /\ new.highest_bid > old.highest_bid
<1>1. ASSUME items'[b] = items[b] PROVE Fine
  BY <1>1
<1>2. ASSUME NEW u \in Users, NEW a \in Auctions, NEW sent \in Amounts,
             PlaceBid(u, a, sent) \/ InstantBuy(u, a, sent)
      PROVE  Fine
  <2>1. CASE b # a
    BY <1>1, <1>2, <2>1, BidEffect
  <2>2. CASE b = a
    <3>1. /\ items'[a].highest_bid = BidTotal(u, a, sent)
          /\ items'[a].instant_buy = items[a].instant_buy
      BY <1>2, BidEffect
    <3>2. BidTotal(u, a, sent) # None
      BY <1>2, BidTotalNat, NoneAssumption
    <3>3. \/ BidTotal(u, a, sent)
                >= items[a].highest_bid + DecMul(items[a].highest_bid, Config.bid_margin)
          \/ BidTotal(u, a, sent) = items[a].instant_buy
             /\ BidTotal(u, a, sent) > items[a].highest_bid
      BY <1>2, <2>2, BidTakesTheLead
    <3> QED
      BY <2>2, <3>1, <3>2, <3>3
  <2> QED
    BY <2>1, <2>2
<1>3. ASSUME NEW u \in Users, NEW n \in Nfts, NEW l \in Listings, CreateAuction(u, n, l)
      PROVE  Fine
  BY <1>1, <1>3, CreateAuctionEffect
<1>4. ASSUME NEW a \in Auctions, NEW extra \in Extras, WithdrawNft(a, extra)
      PROVE  Fine
  BY <1>4, SettlementKeepsAll DEF TermsKept
<1>5. ASSUME NEW u \in Users, NEW a \in Auctions, NEW extra \in Extras,
             CancelAuction(u, a, extra)
      PROVE  Fine
  BY <1>5, CancellationKeepsAll
<1>6. CASE QuietStep
  BY <1>1, <1>6, QuietStepEffect
<1> QED
  BY <1>2, <1>3, <1>4, <1>5, <1>6 DEF Next, QuietStep

\* The lead of an auction changes only to somebody who pays the margin over
\* the price so far, or the instant price.
THEOREM LeaderOutbidsAlways == Spec => LeaderOutbids
<1>1. TypeOK /\ TermsMet /\ BoughtOutIsClosed /\ [Next]_vars =>
        \A a \in Auctions :
          LET old == items[a]
              new == items'[a]
          IN  old.highest_bid # None =>
                /\ new.highest_bid # None
                /\ \/ new.highest_bid = old.highest_bid
                      /\ new.highest_bidder \in {old.highest_bidder, None}
                   \/ new.highest_bid >= old.highest_bid
                                         + DecMul(old.highest_bid, Config.bid_margin)
                   \/ new.highest_bid = new.instant_buy /\ new.highest_bid > old.highest_bid
  BY LeaderOutbidsStep
<1> QED
  BY <1>1, TypeCorrect, TermsMetAlways, BoughtOutIsClosedAlways, PTL DEF Spec, LeaderOutbids

-----------------------------------------------------------------------------
(* What is sold to whom. *)

\* The terms on which auction a was sold, if it was.
SaleFine(a) ==
  Sold(a) =>
    /\ outcome[a].price >= OrZero(items[a].reserve_price)
    /\ outcome[a].price >= OrZero(items[a].start_price)
    /\ outcome[a].bidder \in Users \ {items[a].creator}
    /\ histories_bidder[a][outcome[a].bidder] # << >>

\* A sale stays as it was made as long as its outcome and terms are kept and
\* histories grow.
LEMMA SaleKept ==
  ASSUME NEW b, SaleFine(b), outcome'[b] = outcome[b], SameTerms(b),
         \A v \in Users : histories_bidder[b][v] # << >> => histories_bidder'[b][v] # << >>
  PROVE  SaleFine(b)'
  BY DEF SaleFine, Sold, SameTerms

\* execute_withdraw_nft sells to the highest bidder, at the reserve price or
\* above.
LEMMA SettlementSellsFine ==
  ASSUME TypeOK, TermsMet, NEW a \in Auctions, NEW extra \in Extras, WithdrawNft(a, extra)
  PROVE  SaleFine(a)'
<1> DEFINE item == items[a]
<1>1. /\ item \in ItemInfo /\ item.highest_bid \in Option(Nat)
      /\ item.reserve_price \in Option(Nat) /\ item.start_price \in Option(Nat)
      /\ item.highest_bidder \in Option(Users)
  BY DEF TypeOK, ItemInfo
<1>2. outcome'[a] = [bidder |-> item.highest_bidder, price |-> OrZero(item.highest_bid),
                     bids |-> item.total_bids, sold |-> IsSale(item)]
  BY DEF WithdrawNft, ExecuteWithdrawNft, TypeOK
<1>3. /\ outcome'[a].bidder = item.highest_bidder
      /\ outcome'[a].price = OrZero(item.highest_bid)
      /\ Sold(a)' => IsSale(item)
  BY <1>2 DEF Sold
<1>4. histories_bidder' = histories_bidder /\ SameTerms(a)
  BY SettlementKeepsAll DEF WithdrawNft, ExecuteWithdrawNft
<1>5. ASSUME IsSale(item)
      PROVE  /\ item.highest_bidder # None /\ item.highest_bidder # item.creator
             /\ OrZero(item.highest_bid) >= OrZero(item.reserve_price)
             /\ OrZero(item.highest_bid) >= OrZero(item.start_price)
             /\ histories_bidder[a][item.highest_bidder] # << >>
  <2>1. item.highest_bidder # None /\ ReserveMet(item)
    BY <1>5 DEF IsSale, NewOwner
  <2>2. /\ item.highest_bidder # item.creator /\ item.highest_bid # None
        /\ histories_bidder[a][item.highest_bidder] # << >>
        /\ item.start_price # None => item.start_price <= item.highest_bid
    BY <2>1 DEF TermsMet
  <2>3. /\ OrZero(item.highest_bid) = item.highest_bid /\ item.highest_bid \in Nat
        /\ OrZero(item.reserve_price) \in Nat
    BY <1>1, <2>2, OptionNat DEF Option, OrZero
  <2>4. OrZero(item.highest_bid) >= OrZero(item.start_price)
    BY <1>1, <2>2, <2>3 DEF OrZero
  <2>5. OrZero(item.highest_bid) >= OrZero(item.reserve_price)
    BY <2>1, <2>3 DEF ReserveMet
  <2> QED
    BY <2>1, <2>2, <2>4, <2>5
<1>6. ASSUME Sold(a)'
      PROVE  /\ outcome'[a].price >= OrZero(items'[a].reserve_price)
             /\ outcome'[a].price >= OrZero(items'[a].start_price)
             /\ outcome'[a].bidder \in Users \ {items'[a].creator}
             /\ histories_bidder'[a][outcome'[a].bidder] # << >>
  <2>1. item.highest_bidder \in Users
    BY <1>1, <1>3, <1>5, <1>6 DEF Option
  <2> HIDE DEF item
  <2>2. /\ items'[a].reserve_price = item.reserve_price
        /\ items'[a].start_price = item.start_price /\ items'[a].creator = item.creator
    BY <1>4 DEF SameTerms, item
  <2> QED
    BY <1>3, <1>4, <1>5, <1>6, <2>1, <2>2
<1> QED
  BY <1>6 DEF SaleFine

\* Every step keeps the terms of the sales there have been.
LEMMA SoldOnTheCreatorsTermsStep ==
  ASSUME TypeOK, TermsMet, \A a \in Auctions : SaleFine(a), [Next]_vars
  PROVE  \A a \in Auctions' : SaleFine(a)'
<1> SUFFICES ASSUME NEW b \in Auctions' PROVE SaleFine(b)'
  OBVIOUS
<1>1. ASSUME NEW u \in Users, NEW n \in Nfts, NEW l \in Listings, CreateAuction(u, n, l)
      PROVE  SaleFine(b)'
  <2>1. /\ counter_items \in Nat /\ b \in 0 .. counter_items
        /\ b \in Auctions <=> b # counter_items
    BY <1>1 DEF TypeOK, Auctions, CreateAuction, ExecuteCreateAuction
  <2>2. /\ outcome' = NewEntry(outcome, None)
        /\ histories_bidder' = NewEntry(histories_bidder, [v \in Users |-> << >>])
    BY <1>1 DEF CreateAuction, ExecuteCreateAuction
  <2>3. CASE b \in Auctions
    <3>1. outcome'[b] = outcome[b] /\ histories_bidder'[b] = histories_bidder[b]
      BY <2>1, <2>2, <2>3 DEF NewEntry
    <3>2. SameTerms(b)
      BY <1>1, <2>3, CreateAuctionEffect DEF SameTerms
    <3> QED
      BY <2>3, <3>1, <3>2, SaleKept
  <2>4. CASE b = counter_items
    <3>1. outcome'[b] = None
      BY <2>1, <2>2, <2>4 DEF NewEntry
    <3> QED
      BY <3>1 DEF SaleFine, Sold
  <2> QED
    BY <2>1, <2>3, <2>4
<1>2. ASSUME NEW u \in Users, NEW a \in Auctions, NEW sent \in Amounts,
             PlaceBid(u, a, sent) \/ InstantBuy(u, a, sent)
      PROVE  SaleFine(b)'
  <2>1. outcome' = outcome /\ b \in Auctions
    BY <1>2, BidEffect DEF PlaceBid, InstantBuy
  <2>2. \A v \in Users : histories_bidder[b][v] # << >> => histories_bidder'[b][v] # << >>
    BY <1>2, <2>1, BidHistoriesGrow
  <2>3. SameTerms(b)
    BY <1>2, <2>1, BidKeepsTerms
  <2> QED
    BY <2>1, <2>2, <2>3, SaleKept
<1>3. ASSUME NEW a \in Auctions, NEW extra \in Extras, WithdrawNft(a, extra)
      PROVE  SaleFine(b)'
  <2>1. b \in Auctions /\ histories_bidder' = histories_bidder
    BY <1>3, SameAuctions DEF WithdrawNft, ExecuteWithdrawNft
  <2>2. CASE b = a
    BY <1>3, <2>2, SettlementSellsFine
  <2>3. CASE b # a
    <3>1. outcome'[b] = outcome[b]
      BY <1>3, <2>1, <2>3 DEF WithdrawNft, ExecuteWithdrawNft, TypeOK
    <3>2. SameTerms(b)
      BY <1>3, <2>1, SettlementKeepsAll
    <3> QED
      BY <2>1, <3>1, <3>2, SaleKept
  <2> QED
    BY <2>2, <2>3
<1>4. ASSUME NEW u \in Users, NEW a \in Auctions, NEW extra \in Extras,
             CancelAuction(u, a, extra)
      PROVE  SaleFine(b)'
  <2>1. b \in Auctions /\ histories_bidder' = histories_bidder /\ outcome' = outcome
    BY <1>4, SameAuctions DEF CancelAuction, ExecuteCancelAuction
  <2>2. SameTerms(b)
    BY <1>4, <2>1, CancellationKeepsAll
  <2> QED
    BY <2>1, <2>2, SaleKept
<1>5. CASE QuietStep
  <2>1. /\ b \in Auctions /\ histories_bidder' = histories_bidder /\ outcome' = outcome
        /\ items' = items
    BY <1>5, QuietStepEffect
  <2> QED
    BY <2>1, SaleKept DEF SameTerms
<1> QED
  BY <1>1, <1>2, <1>3, <1>4, <1>5 DEF Next, QuietStep

\* Every sale meets the reserve and the start price, and the buyer has bid in
\* it and is not its creator, whatever happens to the auction afterwards.
THEOREM SoldOnTheCreatorsTermsAlways == Spec => []SoldOnTheCreatorsTerms
<1> DEFINE Inv == \A a \in Auctions : SaleFine(a)
<1>1. Init => Inv
  BY DEF Init, Auctions
<1>2. TypeOK /\ TermsMet /\ Inv /\ [Next]_vars => Inv'
  BY SoldOnTheCreatorsTermsStep
<1>3. Inv => SoldOnTheCreatorsTerms
  BY DEF SaleFine, SoldOnTheCreatorsTerms
<1> HIDE DEF Inv
<1> QED
  BY <1>1, <1>2, <1>3, TypeCorrect, TermsMetAlways, PTL DEF Spec

-----------------------------------------------------------------------------
(* Histories. *)

\* The entry of a bidder after a bid.
LEMMA BidEntry ==
  ASSUME TypeOK, NEW u \in Users, NEW a \in Auctions, NEW sent \in Amounts,
         PlaceBid(u, a, sent) \/ InstantBuy(u, a, sent)
  PROVE  /\ bids'[a][u] \in BidInfo /\ bids'[a][u] # None
         /\ bids'[a][u].total_bid = BidTotal(u, a, sent)
         /\ bids[a][u] = None => /\ bids'[a][u].bid_counter = 1
                                 /\ bids'[a][u].sity_used = None
                                 /\ ~bids'[a][u].resolved
         /\ bids[a][u] # None => /\ bids'[a][u].bid_counter = bids[a][u].bid_counter + 1
                                 /\ bids'[a][u].sity_used = bids[a][u].sity_used
                                 /\ bids'[a][u].resolved = bids[a][u].resolved
<1>1. RecordBid(u, a, sent)
  BY DEF PlaceBid, InstantBuy
<1>2. bids'[a][u] = AddedBid(bids[a][u], sent)
  BY <1>1 DEF RecordBid, TypeOK
<1>3. /\ bids'[a][u] \in BidInfo /\ bids'[a][u] # None
      /\ bids'[a][u].total_bid = BidTotal(u, a, sent)
  BY <1>1, RecordBidEffect, NoneIsNoRecord
<1>4. CASE bids[a][u] = None
  BY <1>2, <1>3, <1>4 DEF AddedBid
<1>5. CASE bids[a][u] # None
  <2>1. bids[a][u] \in BidInfo
    BY <1>5 DEF TypeOK, Option
  <2>2. bids'[a][u] = [bids[a][u] EXCEPT !.bid_counter = bids[a][u].bid_counter + 1,
                                         !.total_bid = bids[a][u].total_bid + sent]
    BY <1>2, <1>5 DEF AddedBid
  <2> QED
    BY <1>3, <1>5, <2>1, <2>2 DEF BidInfo
<1> QED
  BY <1>4, <1>5

\* A bid is added to the history of its bidder, with all the bidder has at
\* stake, and to no other; in the history of the auction the first entry is
\* written with the coins sent if the bid is a purchase.
LEMMA BidRemembered ==
  ASSUME TypeOK, NEW u \in Users, NEW a \in Auctions, NEW sent \in Amounts,
         PlaceBid(u, a, sent) \/ InstantBuy(u, a, sent)
  PROVE  \E e \in HistoryBidInfo :
           /\ e = HistoryEntry(u, BidTotal(u, a, sent), e.instant_buy)
           /\ e.bidder = u /\ e.amount = BidTotal(u, a, sent)
           /\ histories_bidder'[a][u] = Append(histories_bidder[a][u], e)
           /\ \A b \in Auctions, v \in Users :
                b # a \/ v # u => histories_bidder'[b][v] = histories_bidder[b][v]
           /\ \/ histories' = [histories EXCEPT ![a] = Append(@, e)]
              \/ /\ histories[a] = << >>
                 /\ histories' = [histories EXCEPT ![a] =
                                    Append(@, HistoryEntry(u, sent, e.instant_buy))]
<1> DEFINE total == BidTotal(u, a, sent)
           e(i) == HistoryEntry(u, total, i)
<1>1. total \in Nat
  BY BidTotalNat
<1>2. \A i \in BOOLEAN : /\ e(i) \in HistoryBidInfo /\ e(i).bidder = u
                         /\ e(i).amount = total /\ e(i).instant_buy = i
  BY <1>1 DEF HistoryEntry, HistoryBidInfo
<1>3. PICK i \in BOOLEAN :
        /\ histories_bidder' = [histories_bidder EXCEPT ![a][u] = Append(@, e(i))]
        /\ \/ histories' = [histories EXCEPT ![a] = Append(@, e(i))]
           \/ /\ histories[a] = << >>
              /\ histories' = [histories EXCEPT ![a] =
                                 Append(@, HistoryEntry(u, sent, i))]
  <2>1. CASE PlaceBid(u, a, sent)
    BY <2>1 DEF PlaceBid
  <2>2. CASE InstantBuy(u, a, sent)
    BY <2>2 DEF InstantBuy
  <2> QED
    BY <2>1, <2>2
<1>4. histories_bidder \in [Auctions -> [Users -> Seq(HistoryBidInfo)]]
  BY DEF TypeOK
<1> DEFINE new == e(i)
<1>5. /\ new \in HistoryBidInfo /\ new.bidder = u /\ new.amount = total
      /\ new = HistoryEntry(u, total, new.instant_buy)
  BY <1>2
<1>6. /\ histories_bidder' = [histories_bidder EXCEPT ![a][u] = Append(@, new)]
      /\ \/ histories' = [histories EXCEPT ![a] = Append(@, new)]
         \/ /\ histories[a] = << >>
            /\ histories' = [histories EXCEPT ![a] =
                               Append(@, HistoryEntry(u, sent, new.instant_buy))]
  BY <1>2, <1>3
<1> HIDE DEF new, total
<1>7. /\ histories_bidder'[a][u] = Append(histories_bidder[a][u], new)
      /\ \A b \in Auctions, v \in Users :
           b # a \/ v # u => histories_bidder'[b][v] = histories_bidder[b][v]
  BY <1>4, <1>6
<1> QED
  BY <1>5, <1>6, <1>7 DEF total

\* The histories of nothing agree.
LEMMA PartOfNothing ==
  ASSUME NEW u
  PROVE  IsPartOf(<< >>, u, << >>)
<1>1. PlacesOf(u, << >>) = {}
  BY DEF PlacesOf
<1> QED
  BY <1>1, FS_EmptySet DEF IsPartOf

\* The places of a bidder in a history are finitely many.
LEMMA PlacesFinite ==
  ASSUME NEW h \in Seq(HistoryBidInfo), NEW u
  PROVE  /\ PlacesOf(u, h) \in SUBSET (1 .. Len(h)) /\ Len(h) \in Nat
         /\ IsFiniteSet(PlacesOf(u, h)) /\ Cardinality(PlacesOf(u, h)) \in Nat
<1>1. PlacesOf(u, h) \in SUBSET (1 .. Len(h)) /\ Len(h) \in Nat
  BY DEF PlacesOf
<1>2. IsFiniteSet(1 .. Len(h))
  BY <1>1, FS_Interval
<1> QED
  BY <1>1, <1>2, FS_Subset, FS_CardinalityType

\* They count the places up to each of them from one to all.
LEMMA PlacesCounted ==
  ASSUME NEW h \in Seq(HistoryBidInfo), NEW u, NEW k \in PlacesOf(u, h)
  PROVE  Cardinality({j \in PlacesOf(u, h) : j <= k}) \in 1 .. Cardinality(PlacesOf(u, h))
<1> DEFINE P == PlacesOf(u, h)
           upTo == {j \in P : j <= k}
<1>1. IsFiniteSet(P) /\ Cardinality(P) \in Nat /\ k \in upTo
  BY PlacesFinite
<1>2. upTo \in SUBSET P
  OBVIOUS
<1> HIDE DEF P, upTo
<1>3. IsFiniteSet(upTo) /\ Cardinality(upTo) \in Nat /\ Cardinality(upTo) <= Cardinality(P)
  BY <1>1, <1>2, FS_Subset, FS_CardinalityType
<1>4. Cardinality(upTo) # 0
  BY <1>1, <1>3, FS_EmptySet
<1> QED
  BY <1>1, <1>3, <1>4 DEF P, upTo

\* An entry of somebody else changes nothing about the entries of u.
LEMMA PartStays ==
  ASSUME NEW h \in Seq(HistoryBidInfo), NEW mine, NEW u, NEW e \in HistoryBidInfo,
         e.bidder # u, IsPartOf(mine, u, h)
  PROVE  IsPartOf(mine, u, Append(h, e))
<1> DEFINE g == Append(h, e)
<1>1. /\ DOMAIN g = DOMAIN h \cup {Len(h) + 1} /\ g[Len(h) + 1] = e
      /\ \A k \in DOMAIN h : g[k] = h[k]
  OBVIOUS
<1>2. PlacesOf(u, g) = PlacesOf(u, h)
  BY <1>1 DEF PlacesOf
<1>3. \A k \in PlacesOf(u, h) : g[k] = h[k]
  BY <1>1 DEF PlacesOf
<1> HIDE DEF g
<1>4. IsPartOf(mine, u, g)
  BY <1>2, <1>3 DEF IsPartOf
<1> QED
  BY <1>4 DEF g

\* An entry of u is the next one in both.
LEMMA PartGrows ==
  ASSUME NEW h \in Seq(HistoryBidInfo), NEW mine \in Seq(HistoryBidInfo), NEW u,
         NEW e \in HistoryBidInfo, e.bidder = u, IsPartOf(mine, u, h)
  PROVE  IsPartOf(Append(mine, e), u, Append(h, e))
<1> DEFINE g == Append(h, e)
           more == Append(mine, e)
           n == Len(h) + 1
           P == PlacesOf(u, h)
           Q == PlacesOf(u, g)
<1>1. /\ DOMAIN g = DOMAIN h \cup {n} /\ g[n] = e
      /\ \A k \in DOMAIN h : g[k] = h[k]
  OBVIOUS
<1>2. /\ P \in SUBSET (1 .. Len(h)) /\ Len(h) \in Nat
      /\ IsFiniteSet(P) /\ Cardinality(P) \in Nat
  BY PlacesFinite
<1>3. Q = P \cup {n} /\ n \notin P
  BY <1>1, <1>2 DEF PlacesOf
<1>4. P \subseteq DOMAIN h
  BY DEF PlacesOf
<1>5. \A k \in P : Cardinality({j \in P : j <= k}) \in 1 .. Cardinality(P)
  BY PlacesCounted
<1>6. Len(mine) = Cardinality(P)
      /\ \A k \in P : mine[Cardinality({j \in P : j <= k})] = h[k]
  BY DEF IsPartOf
<1>7. /\ Len(more) = Len(mine) + 1 /\ more[Len(mine) + 1] = e
      /\ \A i \in 1 .. Len(mine) : more[i] = mine[i]
  OBVIOUS
<1>8. \A k \in P : {j \in Q : j <= k} = {j \in P : j <= k}
  BY <1>2, <1>3
<1>9. {j \in Q : j <= n} = Q
  BY <1>2, <1>3
<1> HIDE DEF g, more, P, Q, n
<1>10. Cardinality(Q) = Cardinality(P) + 1
  BY <1>2, <1>3, FS_AddElement
<1>11. Len(more) = Cardinality(Q)
  BY <1>6, <1>7, <1>10
<1>12. ASSUME NEW k \in Q PROVE more[Cardinality({j \in Q : j <= k})] = g[k]
  <2>1. CASE k \in P
    <3>1. Cardinality({j \in P : j <= k}) \in 1 .. Len(mine)
      BY <1>5, <1>6, <2>1
    <3> QED
      BY <1>1, <1>4, <1>6, <1>7, <1>8, <2>1, <3>1
  <2>2. CASE k = n
    BY <1>1, <1>6, <1>7, <1>9, <1>10, <2>2
  <2> QED
    BY <1>3, <2>1, <2>2
<1> QED
  BY <1>11, <1>12 DEF IsPartOf, Q, g, more

\* The histories of auction a agree, and it has a price once it has a history.
HistoryAgrees(a) ==
  /\ Len(histories[a]) = items[a].total_bids
  /\ histories[a] = << >> => items[a].highest_bid = None
  /\ histories[a] # << >> =>
       histories[a][Len(histories[a])].amount = items[a].highest_bid
  /\ \A u \in Users :
       /\ IsPartOf(histories_bidder[a][u], u, histories[a])
       /\ Len(histories_bidder[a][u]) = IF bids[a][u] = None THEN 0 ELSE bids[a][u].bid_counter

\* A step that leaves histories, counters and price alone keeps that.
LEMMA HistoryStays ==
  ASSUME NEW a, HistoryAgrees(a), histories'[a] = histories[a],
         histories_bidder'[a] = histories_bidder[a],
         items'[a].total_bids = items[a].total_bids,
         items'[a].highest_bid = items[a].highest_bid,
         \A u \in Users :
           (IF bids'[a][u] = None THEN 0 ELSE bids'[a][u].bid_counter)
             = IF bids[a][u] = None THEN 0 ELSE bids[a][u].bid_counter
  PROVE  HistoryAgrees(a)'
  BY DEF HistoryAgrees

\* What bidders have at stake before anybody has bid is nothing, so that the
\* coins sent with the first bid are all that its bidder has at stake.
LEMMA FirstBid ==
  ASSUME TypeOK, HighestBidTops, NEW a \in Auctions, NEW u \in Users, NEW sent \in Amounts,
         items[a].highest_bid = None
  PROVE  BidTotal(u, a, sent) = sent
<1>1. Total(u, a) \in Nat /\ ~(Total(u, a) > 0)
  BY TotalNat DEF HighestBidTops
<1> QED
  BY <1>1, BidTotalAdds, InputAssumption

\* A bid is told alike in both histories, and counted alike.
LEMMA BidHistory ==
  ASSUME TypeOK, HighestBidTops, NEW u \in Users, NEW a \in Auctions, NEW sent \in Amounts,
         PlaceBid(u, a, sent) \/ InstantBuy(u, a, sent), HistoryAgrees(a)
  PROVE  HistoryAgrees(a)'
<1> DEFINE total == BidTotal(u, a, sent)
<1>1. PICK e \in HistoryBidInfo :
        /\ e = HistoryEntry(u, total, e.instant_buy)
        /\ e.bidder = u /\ e.amount = total
        /\ histories_bidder'[a][u] = Append(histories_bidder[a][u], e)
        /\ \A b \in Auctions, v \in Users :
             b # a \/ v # u => histories_bidder'[b][v] = histories_bidder[b][v]
        /\ \/ histories' = [histories EXCEPT ![a] = Append(@, e)]
           \/ /\ histories[a] = << >>
              /\ histories' = [histories EXCEPT ![a] =
                                 Append(@, HistoryEntry(u, sent, e.instant_buy))]
  BY BidRemembered
<1>2. histories[a] = << >> => total = sent
  BY FirstBid DEF HistoryAgrees
<1>3. histories' = [histories EXCEPT ![a] = Append(@, e)]
  BY <1>1, <1>2
<1>4. /\ histories \in [Auctions -> Seq(HistoryBidInfo)]
      /\ histories[a] \in Seq(HistoryBidInfo) /\ items[a].total_bids \in Nat
      /\ \A v \in Users : histories_bidder[a][v] \in Seq(HistoryBidInfo)
  BY DEF TypeOK, ItemInfo
<1>5. histories'[a] = Append(histories[a], e)
  BY <1>3, <1>4
<1>6. items'[a].total_bids = items[a].total_bids + 1 /\ items'[a].highest_bid = total
  BY BidKeepsTerms, BidEffect
<1> HIDE DEF total
<1>7. Len(histories'[a]) = items'[a].total_bids
  BY <1>4, <1>5, <1>6 DEF HistoryAgrees
<1>8. /\ histories'[a] # << >>
      /\ histories'[a][Len(histories'[a])].amount = items'[a].highest_bid
  BY <1>1, <1>4, <1>5, <1>6
<1>9. ASSUME NEW v \in Users
      PROVE  /\ IsPartOf(histories_bidder'[a][v], v, histories'[a])
             /\ Len(histories_bidder'[a][v])
                  = IF bids'[a][v] = None THEN 0 ELSE bids'[a][v].bid_counter
  <2>1. /\ IsPartOf(histories_bidder[a][v], v, histories[a])
        /\ Len(histories_bidder[a][v])
             = IF bids[a][v] = None THEN 0 ELSE bids[a][v].bid_counter
    BY DEF HistoryAgrees
  <2>2. CASE v = u
    <3>1. IsPartOf(histories_bidder'[a][v], v, histories'[a])
      <4>1. /\ histories_bidder[a][v] \in Seq(HistoryBidInfo)
            /\ histories[a] \in Seq(HistoryBidInfo) /\ e \in HistoryBidInfo /\ e.bidder = v
        BY <1>1, <1>4, <2>2
      <4>2. IsPartOf(Append(histories_bidder[a][v], e), v, Append(histories[a], e))
        BY <2>1, <4>1, PartGrows
      <4> QED
        BY <1>1, <1>5, <2>2, <4>2
    <3>2. Len(histories_bidder'[a][v]) = Len(histories_bidder[a][v]) + 1
      BY <1>1, <1>4, <2>2
    <3>3. bids'[a][v] # None
          /\ (bids[a][v] = None => bids'[a][v].bid_counter = 1)
          /\ (bids[a][v] # None => bids'[a][v].bid_counter = bids[a][v].bid_counter + 1)
      BY <2>2, BidEntry
    <3> QED
      BY <2>1, <3>1, <3>2, <3>3
  <2>3. CASE v # u
    <3>1. histories_bidder'[a][v] = histories_bidder[a][v]
      BY <1>1, <2>3
    <3>2. IsPartOf(histories_bidder[a][v], v, histories'[a])
      BY <1>1, <1>4, <1>5, <2>1, <2>3, PartStays
    <3>3. bids'[a][v] = bids[a][v]
      BY <2>3, BidEffect
    <3> QED
      BY <2>1, <3>1, <3>2, <3>3
  <2> QED
    BY <2>2, <2>3
<1> QED
  BY <1>7, <1>8, <1>9 DEF HistoryAgrees

\* Every step keeps the histories together.
LEMMA HistoriesStep ==
  ASSUME TypeOK, HighestBidTops, \A a \in Auctions : HistoryAgrees(a), [Next]_vars,
         NEW b \in Auctions'
  PROVE  HistoryAgrees(b)'
<1>1. ASSUME NEW u \in Users, NEW n \in Nfts, NEW l \in Listings, CreateAuction(u, n, l)
      PROVE  HistoryAgrees(b)'
  <2>0. PICK c \in Nat : c = counter_items
    BY DEF TypeOK
  <2>1. /\ Auctions' = Auctions \cup {c} /\ c \notin Auctions
        /\ \A a \in Auctions : items'[a] = items[a] /\ bids'[a] = bids[a]
        /\ items'[c] = NewItem(u, n, l) /\ bids'[c] = [v \in Users |-> None]
    BY <1>1, <2>0, CreateAuctionEffect
  <2>2. /\ histories' = NewEntry(histories, << >>)
        /\ histories_bidder' = NewEntry(histories_bidder, [v \in Users |-> << >>])
    BY <1>1 DEF CreateAuction, ExecuteCreateAuction
  <2>3. /\ histories'[c] = << >> /\ histories_bidder'[c] = [v \in Users |-> << >>]
        /\ \A a \in Auctions : /\ histories'[a] = histories[a]
                               /\ histories_bidder'[a] = histories_bidder[a]
    BY <2>0, <2>2 DEF NewEntry, Auctions
  <2>4. CASE b = c
    <3>1. items'[b].total_bids = 0 /\ items'[b].highest_bid = None
      BY <2>1, <2>4 DEF NewItem
    <3>2. Len(<< >>) = 0
      OBVIOUS
    <3> QED
      BY <2>1, <2>3, <2>4, <3>1, <3>2, PartOfNothing DEF HistoryAgrees
  <2>5. CASE b \in Auctions
    BY <2>1, <2>3, <2>5, HistoryStays
  <2> QED
    BY <2>1, <2>4, <2>5
<1>2. ASSUME NEW u \in Users, NEW a \in Auctions, NEW sent \in Amounts,
             PlaceBid(u, a, sent) \/ InstantBuy(u, a, sent)
      PROVE  HistoryAgrees(b)'
  <2>1. b \in Auctions
    BY <1>2, BidEffect
  <2>2. CASE b = a
    BY <1>2, <2>2, BidHistory
  <2>3. CASE b # a
    <3>1. items'[b] = items[b] /\ \A v \in Users : bids'[b][v] = bids[b][v]
      BY <1>2, <2>1, <2>3, BidEffect
    <3>2. histories'[b] = histories[b] /\ histories_bidder'[b] = histories_bidder[b]
      BY <1>2, <2>1, <2>3 DEF PlaceBid, InstantBuy, TypeOK
    <3> QED
      BY <2>1, <3>1, <3>2, HistoryStays
  <2> QED
    BY <2>2, <2>3
<1>3. ASSUME Auctions' = Auctions, histories' = histories,
             histories_bidder' = histories_bidder,
             items'[b].total_bids = items[b].total_bids,
             items'[b].highest_bid = items[b].highest_bid,
             \A u \in Users :
               (IF bids'[b][u] = None THEN 0 ELSE bids'[b][u].bid_counter)
                 = IF bids[b][u] = None THEN 0 ELSE bids[b][u].bid_counter
      PROVE  HistoryAgrees(b)'
  BY <1>3, HistoryStays
<1>4. ASSUME NEW u \in Users, NEW a \in Auctions, RegisterPrivateSale(u, a)
      PROVE  HistoryAgrees(b)'
  <2>1. /\ items' = items /\ histories' = histories /\ Auctions' = Auctions
        /\ histories_bidder' = histories_bidder
    BY <1>4, SameAuctions DEF RegisterPrivateSale, ExecuteRegisterPrivateSale
  <2>2. /\ bids[a][u] = None /\ \A d \in Auctions, v \in Users :
                                  d # a \/ v # u => bids'[d][v] = bids[d][v]
    BY <1>4, RegisterPrivateSaleEffect
  <2>3. bids'[a][u].bid_counter = 0
    <3> DEFINE new == [bid_counter |-> 0, total_bid |-> 0,
                       sity_used |-> SityRequired(items[a]), resolved |-> FALSE]
    <3>1. bids' = [bids EXCEPT ![a][u] = new]
      BY <1>4 DEF RegisterPrivateSale, ExecuteRegisterPrivateSale
    <3>2. new.bid_counter = 0
      OBVIOUS
    <3> HIDE DEF new
    <3> QED
      BY <3>1, <3>2 DEF TypeOK
  <2> QED
    BY <1>3, <2>1, <2>2, <2>3
<1>5. ASSUME NEW u \in Users, NEW a \in Auctions, NEW extra \in Extras,
             RetractBids(u, a, extra)
      PROVE  HistoryAgrees(b)'
  <2>1. /\ items' = items /\ histories' = histories /\ Auctions' = Auctions
        /\ histories_bidder' = histories_bidder
    BY <1>5, SameAuctions DEF RetractBids, ExecuteRetractBids
  <2>2. /\ bids[a][u] \in BidInfo /\ bids[a][u] # None /\ bids'[a][u] # None
        /\ \A d \in Auctions, v \in Users : d # a \/ v # u => bids'[d][v] = bids[d][v]
    BY <1>5, RetractBidsEffect, NoneIsNoRecord
  <2>3. bids'[a][u].bid_counter = bids[a][u].bid_counter
    <3>1. bids' = [bids EXCEPT ![a][u] =
                     [bids[a][u] EXCEPT !.total_bid = 0, !.resolved = TRUE]]
      BY <1>5 DEF RetractBids, ExecuteRetractBids
    <3>2. bids'[a][u] = [bids[a][u] EXCEPT !.total_bid = 0, !.resolved = TRUE]
      BY <3>1 DEF TypeOK
    <3> QED
      BY <2>2, <3>2 DEF BidInfo
  <2> QED
    BY <1>3, <2>1, <2>2, <2>3
<1>6. ASSUME NEW a \in Auctions, NEW extra \in Extras, WithdrawNft(a, extra)
      PROVE  HistoryAgrees(b)'
  <2>1. /\ bids' = bids /\ histories' = histories /\ Auctions' = Auctions
        /\ histories_bidder' = histories_bidder
    BY <1>6, SameAuctions DEF WithdrawNft, ExecuteWithdrawNft
  <2>2. /\ items'[b].total_bids = items[b].total_bids
        /\ items'[b].highest_bid = items[b].highest_bid
    BY <1>6, <2>1, SettlementKeepsAll DEF TermsKept
  <2> QED
    BY <1>3, <2>1, <2>2
<1>7. ASSUME NEW u \in Users, NEW a \in Auctions, NEW extra \in Extras,
             CancelAuction(u, a, extra)
      PROVE  HistoryAgrees(b)'
  <2>1. /\ bids' = bids /\ histories' = histories /\ Auctions' = Auctions
        /\ histories_bidder' = histories_bidder
    BY <1>7, SameAuctions DEF CancelAuction, ExecuteCancelAuction
  <2>2. /\ items'[b].total_bids = items[b].total_bids
        /\ items'[b].highest_bid = items[b].highest_bid
    BY <1>7, <2>1, CancellationKeepsAll
  <2> QED
    BY <1>3, <2>1, <2>2
<1>8. CASE \/ Tick \/ UNCHANGED vars
           \/ \E u \in Users, fee \in RoyaltyFees, r \in Option(Users), extra \in Extras :
                UpdateRoyalty(u, fee, r, extra)
  <2>1. /\ Auctions' = Auctions /\ bids' = bids /\ items' = items
        /\ histories' = histories /\ histories_bidder' = histories_bidder
    BY <1>8, SameAuctions DEF Tick, vars, UpdateRoyalty
  <2> QED
    BY <1>3, <2>1
<1> QED
  BY <1>1, <1>2, <1>4, <1>5, <1>6, <1>7, <1>8 DEF Next

\* HISTORIES, HISTORIES_BIDDER, the counters of ITEMS and BIDS and the price
\* tell the same story after any sequence of messages, although the handlers
\* update them separately and instant_buy writes its first entry differently.
THEOREM HistoriesAgreeAlways == Spec => []HistoriesAgree
<1> DEFINE Inv == \A a \in Auctions : HistoryAgrees(a)
<1>1. Init => Inv
  BY DEF Init, Auctions
<1>2. TypeOK /\ HighestBidTops /\ Inv /\ [Next]_vars => Inv'
  BY HistoriesStep
<1>3. Inv => HistoriesAgree
  BY DEF HistoryAgrees, HistoriesAgree
<1> HIDE DEF Inv
<1> QED
  BY <1>1, <1>2, <1>3, TypeCorrect, HighestBidTopsAlways, PTL DEF Spec
=============================================================================
