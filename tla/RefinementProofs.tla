-------------------------- MODULE RefinementProofs --------------------------
(***************************************************************************)
(* The marketplace implements AuctionHouse, for every number of users,     *)
(* NFTs, auctions and bids: each action is a move of the auction house or  *)
(* leaves the house as it is.                                              *)
(***************************************************************************)
EXTENDS Refinement, AuctionProofs

-----------------------------------------------------------------------------
(* One lot at a time. *)

\* The fields of a lot.
LEMMA LotFields ==
  ASSUME NEW a
  PROVE  /\ LotOf(a).piece = items[a].nft /\ LotOf(a).seller = items[a].creator
         /\ LotOf(a).reserve = OrZero(items[a].reserve_price)
         /\ LotOf(a).price = OrZero(items[a].highest_bid)
         /\ LotOf(a).leader = items[a].highest_bidder
         /\ LotOf(a).stake = [u \in Users |-> Total(u, a)]
  BY DEF LotOf

\* What a user has at stake in a lot.
LEMMA LotStake ==
  ASSUME NEW a, NEW u \in Users
  PROVE  LotOf(a).stake[u] = Total(u, a)
<1>1. LotOf(a).stake = [v \in Users |-> Total(v, a)]
  BY LotFields
<1> QED
  BY <1>1, Zenon

\* When one lot changes, the house sees the new lot in its place.
LEMMA OneLotChanges ==
  ASSUME Auctions' = Auctions, NEW a \in Auctions, NEW lot, LotOf(a)' = lot,
         \A b \in Auctions : b # a => LotOf(b)' = LotOf(b)
  PROVE  LotsOfAuctions' = [LotsOfAuctions EXCEPT ![a] = lot]
  BY DEF LotsOfAuctions

\* A lot changes only with the item and the bids.
LEMMA LotKept ==
  ASSUME NEW b, items'[b] = items[b], \A v \in Users : bids'[b][v] = bids[b][v]
  PROVE  LotOf(b)' = LotOf(b)
<1>1. \A v \in Users : Total(v, b)' = Total(v, b)
  BY DEF Total
<1>2. [u \in Users |-> Total(u, b)]' = [u \in Users |-> Total(u, b)]
  BY <1>1
<1> QED
  BY <1>2 DEF LotOf

\* What becomes of the set of closed lots when one end_time may change.
LEMMA ClosedWhen ==
  ASSUME Auctions' = Auctions, now' = now, NEW a \in Auctions,
         \A b \in Auctions : b # a => items'[b] = items[b]
  PROVE  /\ items'[a].end_time < now =>
              ClosedAuctions' = ClosedAuctions \cup {a}
         /\ ~(items'[a].end_time < now) /\ ~(items[a].end_time < now) =>
              ClosedAuctions' = ClosedAuctions
  BY DEF ClosedAuctions

\* The set of settled lots stays when no auction is resolved.
LEMMA SettledKept ==
  ASSUME Auctions' = Auctions, \A b \in Auctions : items'[b].resolved = items[b].resolved
  PROVE  SettledAuctions' = SettledAuctions
  BY DEF SettledAuctions

\* When nothing of it changes, neither does the house.
LEMMA HouseKept ==
  ASSUME now' = now, counter_items' = counter_items, nft_owner' = nft_owner, items' = items,
         \A b \in Auctions, v \in Users : Total(v, b)' = Total(v, b)
  PROVE  UNCHANGED House!houseVars
<1>1. Auctions' = Auctions
  BY SameAuctions
<1>2. \A b \in Auctions : LotOf(b)' = LotOf(b)
  <2> SUFFICES ASSUME NEW b \in Auctions PROVE LotOf(b)' = LotOf(b)
    OBVIOUS
  <2>1. [u \in Users |-> Total(u, b)]' = [u \in Users |-> Total(u, b)]
    OBVIOUS
  <2> QED
    BY <2>1 DEF LotOf
<1>3. LotsOfAuctions' = LotsOfAuctions
  BY <1>1, <1>2 DEF LotsOfAuctions
<1>4. ClosedAuctions' = ClosedAuctions /\ SettledAuctions' = SettledAuctions
  BY <1>1 DEF ClosedAuctions, SettledAuctions
<1> QED
  BY <1>3, <1>4 DEF House!houseVars

-----------------------------------------------------------------------------
(* The moves. *)

\* PlaceBid and InstantBuy are Raise; only InstantBuy closes the lot.
LEMMA BidRaises ==
  ASSUME Prices = Nat, TypeOK, BoughtOutIsClosed,
         NEW u \in Users, NEW a \in Auctions, NEW sent \in Amounts,
         PlaceBid(u, a, sent) \/ InstantBuy(u, a, sent)
  PROVE  House!HouseNext
<1> DEFINE total == BidTotal(u, a, sent)
           last == items'[a].end_time < now
           lot == House!Updated(LotOf(a), total, u, [LotOf(a).stake EXCEPT ![u] = total])
<1>1. /\ now' = now /\ nft_owner' = nft_owner /\ counter_items' = counter_items
      /\ NotEnded(items[a]) /\ items[a].creator # u
  BY DEF PlaceBid, InstantBuy, MayBid
<1>2. total \in Nat /\ Total(u, a) \in Nat /\ total > Total(u, a)
  <2>1. sent \in Nat \ {0}
    BY InputAssumption
  <2> QED
    BY <2>1, BidTotalNat, BidTotalAdds, TotalNat
<1>3. total >= OrZero(items[a].highest_bid)
  <2>1. CASE items[a].highest_bid = None
    BY <1>2, <2>1 DEF OrZero
  <2>2. CASE items[a].highest_bid # None
    BY <2>2, BidsRise DEF OrZero
  <2> QED
    BY <2>1, <2>2
<1>4. ~(items[a].end_time < now)
  <2>1. items[a].end_time \in Nat /\ now \in Nat
    BY DEF TypeOK, ItemInfo
  <2> QED
    BY <1>1, <2>1 DEF NotEnded
<1>5. LotOf(a)' = lot
  <2>1. [v \in Users |-> Total(v, a)]' = [[v \in Users |-> Total(v, a)] EXCEPT ![u] = total]
    <3>1. Total(u, a)' = total
      BY BidEffect
    <3>2. \A v \in Users : v # u => Total(v, a)' = Total(v, a)
      BY BidEffect DEF Total
    <3> QED
      BY <3>1, <3>2
  <2>2. OrZero(items'[a].highest_bid) = total
    BY <1>2, BidEffect, NoneAssumption DEF OrZero
  <2>3. /\ items'[a].nft = items[a].nft /\ items'[a].creator = items[a].creator
        /\ items'[a].reserve_price = items[a].reserve_price
        /\ items'[a].highest_bidder = u
    BY BidEffect
  <2> HIDE DEF total
  <2> QED
    BY <2>1, <2>2, <2>3, LotFields, Zenon DEF LotOf, House!Updated
<1>6. \A b \in Auctions : b # a => LotOf(b)' = LotOf(b)
  BY BidEffect, LotKept
<1>7. LotsOfAuctions' = [LotsOfAuctions EXCEPT ![a] = lot]
  BY <1>5, <1>6, BidEffect, OneLotChanges
<1>8. LotsOfAuctions[a] = LotOf(a)
  BY DEF LotsOfAuctions
<1>9. /\ ClosedAuctions' = IF last THEN ClosedAuctions \cup {a} ELSE ClosedAuctions
      /\ SettledAuctions' = SettledAuctions
      /\ a \notin ClosedAuctions
  <2>1. \A b \in Auctions : items'[b].resolved = items[b].resolved
    BY BidEffect
  <2> QED
    BY <1>1, <1>4, <2>1, BidEffect, ClosedWhen, SettledKept DEF ClosedAuctions
<1>10. \E b \in BOOLEAN : House!Raise(a, u, total, b)
  <2>1. /\ LotOf(a).seller = items[a].creator
        /\ LotOf(a).price = OrZero(items[a].highest_bid)
        /\ LotOf(a).stake[u] = Total(u, a)
    BY LotFields, LotStake
  <2> HIDE DEF total
  <2>2. CASE last
    <3>1. House!Raise(a, u, total, TRUE)
      BY <1>1, <1>2, <1>3, <1>7, <1>8, <1>9, <2>1, <2>2 DEF House!Raise
    <3> QED
      BY <3>1
  <2>3. CASE ~last
    <3>1. House!Raise(a, u, total, FALSE)
      BY <1>1, <1>2, <1>3, <1>7, <1>8, <1>9, <2>1, <2>3 DEF House!Raise
    <3> QED
      BY <3>1
  <2> QED
    BY <2>2, <2>3
<1> HIDE DEF total
<1> QED
  BY <1>2, <1>10 DEF House!HouseNext, House!Lots, Auctions

\* RetractBids is Leave.
LEMMA RetractionLeaves ==
  ASSUME TypeOK, NEW u \in Users, NEW a \in Auctions, NEW extra \in Extras,
         RetractBids(u, a, extra)
  PROVE  House!HouseNext
<1> DEFINE lot == House!Updated(LotOf(a), LotOf(a).price, LotOf(a).leader,
                                [LotOf(a).stake EXCEPT ![u] = 0])
<1>1. /\ now' = now /\ nft_owner' = nft_owner /\ counter_items' = counter_items
      /\ items' = items /\ ~IsWinner(u, items[a])
      /\ bids[a][u] # None /\ bids[a][u].total_bid # 0
  BY DEF RetractBids, ExecuteRetractBids
<1>2. Total(u, a) \in Nat /\ Total(u, a) > 0
  <2>1. Total(u, a) = bids[a][u].total_bid
    BY <1>1 DEF Total
  <2> QED
    BY <1>1, <2>1, TotalNat
<1>3. LotOf(a)' = lot
  <2>1. Total(u, a)' = 0
    BY RetractBidsEffect, NoneIsNoRecord DEF Total
  <2>2. \A v \in Users : v # u => Total(v, a)' = Total(v, a)
    BY RetractBidsEffect DEF Total
  <2>3. [v \in Users |-> Total(v, a)]' = [[v \in Users |-> Total(v, a)] EXCEPT ![u] = 0]
    BY <2>1, <2>2
  <2> QED
    BY <1>1, <2>3, LotFields, Zenon DEF LotOf, House!Updated
<1>4. \A b \in Auctions : b # a => LotOf(b)' = LotOf(b)
  BY <1>1, RetractBidsEffect, LotKept
<1>5. LotsOfAuctions' = [LotsOfAuctions EXCEPT ![a] = lot]
  BY <1>1, <1>3, <1>4, SameAuctions, OneLotChanges
<1>6. /\ LotsOfAuctions[a] = LotOf(a)
      /\ ClosedAuctions' = ClosedAuctions /\ SettledAuctions' = SettledAuctions
  BY <1>1, SameAuctions DEF LotsOfAuctions, ClosedAuctions, SettledAuctions
<1>7. LotOf(a).stake[u] = Total(u, a)
  BY LotStake
<1>8. ~(LotOf(a).leader = u /\ House!Bound(LotOf(a)))
  <2>1. /\ LotOf(a).leader = items[a].highest_bidder
        /\ LotOf(a).price = OrZero(items[a].highest_bid)
        /\ LotOf(a).reserve = OrZero(items[a].reserve_price)
    BY LotFields
  <2>2. OrZero(items[a].highest_bid) \in Nat /\ OrZero(items[a].reserve_price) \in Nat
    BY OptionNat DEF TypeOK, ItemInfo
  <2> QED
    BY <1>1, <2>1, <2>2 DEF House!Bound, IsWinner, ReserveMet
<1>9. House!Leave(a, u)
  BY <1>1, <1>2, <1>5, <1>6, <1>7, <1>8 DEF House!Leave
<1> QED
  BY <1>9 DEF House!HouseNext, House!Lots, Auctions

\* CancelAuction is Abandon.
LEMMA CancellationAbandons ==
  ASSUME TypeOK, NEW u \in Users, NEW a \in Auctions, NEW extra \in Extras,
         CancelAuction(u, a, extra)
  PROVE  House!HouseNext
<1>1. /\ now' = now /\ nft_owner' = nft_owner /\ counter_items' = counter_items
      /\ bids' = bids /\ NotEnded(items[a])
  BY DEF CancelAuction, ExecuteCancelAuction
<1>2. ~(items[a].end_time < now)
  <2>1. items[a].end_time \in Nat /\ now \in Nat
    BY DEF TypeOK, ItemInfo
  <2> QED
    BY <1>1, <2>1 DEF NotEnded
<1>3. LotOf(a)' = House!Updated(LotOf(a), LotOf(a).price, None, LotOf(a).stake)
  <2>1. /\ items'[a].nft = items[a].nft /\ items'[a].creator = items[a].creator
        /\ items'[a].reserve_price = items[a].reserve_price
        /\ items'[a].highest_bid = items[a].highest_bid
        /\ items'[a].highest_bidder = None
    BY CancellationCloses
  <2>2. [v \in Users |-> Total(v, a)]' = [v \in Users |-> Total(v, a)]
    BY <1>1 DEF Total
  <2> QED
    BY <2>1, <2>2, LotFields, Zenon DEF LotOf, House!Updated
<1>4. \A b \in Auctions : b # a => items'[b] = items[b]
  BY CancelAuctionEffect
<1>5. \A b \in Auctions : b # a => LotOf(b)' = LotOf(b)
  BY <1>1, <1>4, LotKept
<1>6. /\ LotsOfAuctions' = [LotsOfAuctions EXCEPT ![a] = LotOf(a)']
      /\ LotsOfAuctions[a] = LotOf(a)
  BY <1>1, <1>5, SameAuctions, OneLotChanges DEF LotsOfAuctions
<1>7. /\ ClosedAuctions' = ClosedAuctions \cup {a} /\ a \notin ClosedAuctions
      /\ SettledAuctions' = SettledAuctions
  <2>1. \A b \in Auctions : items'[b].resolved = items[b].resolved
    BY <1>4, CancellationCloses
  <2> QED
    BY <1>1, <1>2, <1>4, <2>1, CancellationCloses, SameAuctions, ClosedWhen, SettledKept
       DEF ClosedAuctions
<1>8. House!Abandon(a)
  BY <1>1, <1>3, <1>6, <1>7 DEF House!Abandon
<1> QED
  BY <1>8 DEF House!HouseNext, House!Lots, Auctions

\* WithdrawNft is Settle: its choice of the new owner is the house's.
LEMMA WithdrawalSettles ==
  ASSUME TypeOK, NEW a \in Auctions, NEW extra \in Extras, WithdrawNft(a, extra)
  PROVE  House!HouseNext
<1>1. /\ now' = now /\ counter_items' = counter_items /\ bids' = bids
      /\ nft_owner' = [nft_owner EXCEPT ![items[a].nft] = NewOwner(items[a])]
      /\ nft_owner[items[a].nft] = Market /\ ~items[a].resolved
  BY DEF WithdrawNft, ExecuteWithdrawNft, MaySettle
<1>2. items[a] \in ItemInfo
  BY DEF TypeOK
<1>3. /\ items'[a].nft = items[a].nft /\ items'[a].creator = items[a].creator
      /\ items'[a].reserve_price = items[a].reserve_price
      /\ items'[a].highest_bid = items[a].highest_bid
      /\ items'[a].highest_bidder = items[a].highest_bidder
      /\ items'[a].end_time = items[a].end_time /\ items'[a].resolved
      /\ \A b \in Auctions : b # a => items'[b] = items[b]
  BY <1>2, WithdrawNftEffect DEF ItemInfo
<1>4. \A b \in Auctions : LotOf(b)' = LotOf(b)
  <2>1. LotOf(a)' = LotOf(a)
    BY <1>1, <1>3 DEF LotOf, Total
  <2> QED
    BY <1>1, <1>3, <2>1, LotKept
<1>5. LotsOfAuctions' = LotsOfAuctions /\ LotsOfAuctions[a] = LotOf(a)
  BY <1>1, <1>4, SameAuctions DEF LotsOfAuctions
<1>6. NewOwner(items[a]) = IF House!Bound(LotOf(a)) THEN LotOf(a).leader ELSE LotOf(a).seller
  <2>1. /\ LotOf(a).leader = items[a].highest_bidder /\ LotOf(a).seller = items[a].creator
        /\ LotOf(a).price = OrZero(items[a].highest_bid)
        /\ LotOf(a).reserve = OrZero(items[a].reserve_price)
    BY LotFields
  <2>2. OrZero(items[a].highest_bid) \in Nat /\ OrZero(items[a].reserve_price) \in Nat
    BY <1>2, OptionNat DEF ItemInfo
  <2> QED
    BY <2>1, <2>2 DEF House!Bound, NewOwner, ReserveMet
<1>7. LotOf(a).piece = items[a].nft
  BY LotFields
<1>8. /\ SettledAuctions' = SettledAuctions \cup {a} /\ a \notin SettledAuctions
      /\ ClosedAuctions' = ClosedAuctions
  BY <1>1, <1>3, SameAuctions DEF SettledAuctions, ClosedAuctions
<1>9. House!Settle(a)
  BY <1>1, <1>5, <1>6, <1>7, <1>8 DEF House!Settle
<1> QED
  BY <1>9 DEF House!HouseNext, House!Lots, Auctions

\* CreateAuction is Enlist.
LEMMA CreationEnlists ==
  ASSUME Prices = Nat, TypeOK, NEW u \in Users, NEW n \in Nfts, NEW l \in Listings,
         CreateAuction(u, n, l)
  PROVE  House!HouseNext
<1> DEFINE reserve == OrZero(l.reserve_price)
           item == items'[counter_items]
<1>1. /\ now' = now /\ counter_items' = counter_items + 1 /\ nft_owner[n] = u
      /\ nft_owner' = [nft_owner EXCEPT ![n] = Market] /\ ValidTimes(l)
  BY DEF CreateAuction, ExecuteCreateAuction
<1>2. l \in ListingType
  BY InputAssumption
<1>3. reserve \in Nat
  BY <1>2, OptionNat DEF ListingType
<1>4. ~(l.end_time < now)
  <2>1. l.end_time \in Nat /\ now \in Nat
    BY <1>2 DEF ListingType, TypeOK
  <2> QED
    BY <1>1, <2>1, TimeAssumption DEF ValidTimes
<1>5. /\ item.nft = n /\ item.creator = u /\ item.reserve_price = l.reserve_price
      /\ item.highest_bid = None /\ item.highest_bidder = None
      /\ item.end_time = l.end_time /\ ~item.resolved
  <2>1. item = NewItem(u, n, l)
    BY CreateAuctionEffect
  <2> HIDE DEF item
  <2> QED
    BY <2>1 DEF NewItem
<1>6. \A i : i = counter_items => LotOf(i)' = House!NewLot(u, n, reserve)
  <2> SUFFICES ASSUME NEW i, i = counter_items
               PROVE  LotOf(i)' = House!NewLot(u, n, reserve)
    OBVIOUS
  <2>1. [v \in Users |-> Total(v, i)]' = [v \in Users |-> 0]
    BY CreateAuctionEffect DEF Total
  <2> QED
    BY <1>5, <2>1 DEF LotOf, House!NewLot, OrZero
<1>7. \A b \in Auctions : LotOf(b)' = LotOf(b)
  BY CreateAuctionEffect, LotKept
<1>8. LotsOfAuctions' = [i \in 0 .. counter_items |->
                           IF i < counter_items THEN LotsOfAuctions[i]
                           ELSE House!NewLot(u, n, reserve)]
  <2>1. Auctions' = 0 .. counter_items /\ counter_items \in Nat
    BY <1>1 DEF Auctions, TypeOK
  <2>2. \A i \in 0 .. counter_items :
          IF i < counter_items THEN i \in Auctions ELSE i = counter_items
    BY <2>1 DEF Auctions
  <2>3. \A i \in 0 .. counter_items :
          LotOf(i)' = IF i < counter_items THEN LotsOfAuctions[i]
                      ELSE House!NewLot(u, n, reserve)
    BY <1>6, <1>7, <2>2 DEF LotsOfAuctions
  <2> HIDE DEF reserve
  <2> QED
    BY <2>1, <2>3 DEF LotsOfAuctions
<1>9. ClosedAuctions' = ClosedAuctions /\ SettledAuctions' = SettledAuctions
  BY <1>1, <1>4, <1>5, CreateAuctionEffect DEF ClosedAuctions, SettledAuctions
<1>10. House!Enlist(u, n, reserve)
  BY <1>1, <1>8, <1>9 DEF House!Enlist
<1> QED
  BY <1>3, <1>10 DEF House!HouseNext

\* The next block closes the lots whose end it passes.
LEMMA BlockCloses ==
  ASSUME TypeOK, Tick
  PROVE  House!HouseNext
<1>1. /\ now \in Nat /\ now' = now + 1 /\ counter_items' = counter_items
      /\ nft_owner' = nft_owner /\ items' = items /\ bids' = bids
  BY DEF Tick, TypeOK
<1>2. LotsOfAuctions' = LotsOfAuctions /\ SettledAuctions' = SettledAuctions
  BY <1>1, SameAuctions DEF LotsOfAuctions, LotOf, Total, SettledAuctions
<1>3. ClosedAuctions' = ClosedAuctions \cup ClosedAuctions'
  <2>1. \A a \in Auctions : items[a].end_time \in Nat
    BY DEF TypeOK, ItemInfo
  <2> QED
    BY <1>1, <2>1, SameAuctions DEF ClosedAuctions
<1>4. ClosedAuctions' \in SUBSET House!Lots
  BY <1>1 DEF ClosedAuctions, Auctions, House!Lots
<1>5. \E S \in SUBSET House!Lots : House!Close(S)
  BY <1>1, <1>2, <1>3, <1>4 DEF House!Close
<1> QED
  BY <1>5 DEF House!HouseNext

-----------------------------------------------------------------------------
(* The refinement. *)

\* A marketplace without auctions is an empty house.
LEMMA InitialHouse == Init => House!HouseInit
<1> SUFFICES ASSUME Init PROVE House!HouseInit
  OBVIOUS
<1>1. counter_items = 0 /\ nft_owner \in [Nfts -> Users]
  BY OutsideAssumption DEF Init
<1>2. Auctions = {}
  BY <1>1 DEF Auctions
<1>3. LotsOfAuctions = << >> /\ ClosedAuctions = {} /\ SettledAuctions = {}
  BY <1>2 DEF LotsOfAuctions, ClosedAuctions, SettledAuctions
<1> QED
  BY <1>1, <1>3 DEF House!HouseInit

\* Every action is a move of the house, or none.
LEMMA EveryStepIsAMove ==
  ASSUME Prices = Nat, TypeOK, BoughtOutIsClosed, [Next]_vars
  PROVE  [House!HouseNext]_House!houseVars
<1>1. CASE Tick
  BY <1>1, BlockCloses
<1>2. ASSUME NEW u \in Users, NEW n \in Nfts, NEW l \in Listings, CreateAuction(u, n, l)
      PROVE  House!HouseNext
  BY <1>2, CreationEnlists
<1>3. ASSUME NEW u \in Users, NEW a \in Auctions, RegisterPrivateSale(u, a)
      PROVE  UNCHANGED House!houseVars
  <2>1. /\ now' = now /\ counter_items' = counter_items /\ nft_owner' = nft_owner
        /\ items' = items
    BY <1>3 DEF RegisterPrivateSale, ExecuteRegisterPrivateSale
  <2>2. \A b \in Auctions, v \in Users : Total(v, b)' = Total(v, b)
    BY <1>3, RegisterPrivateSaleEffect DEF Total
  <2> QED
    BY <2>1, <2>2, HouseKept
<1>4. ASSUME NEW u \in Users, NEW a \in Auctions, NEW sent \in Amounts,
             PlaceBid(u, a, sent) \/ InstantBuy(u, a, sent)
      PROVE  House!HouseNext
  BY <1>4, BidRaises
<1>5. ASSUME NEW u \in Users, NEW a \in Auctions, NEW extra \in Extras,
             RetractBids(u, a, extra)
      PROVE  House!HouseNext
  BY <1>5, RetractionLeaves
<1>6. ASSUME NEW a \in Auctions, NEW extra \in Extras, WithdrawNft(a, extra)
      PROVE  House!HouseNext
  BY <1>6, WithdrawalSettles
<1>7. ASSUME NEW u \in Users, NEW a \in Auctions, NEW extra \in Extras,
             CancelAuction(u, a, extra)
      PROVE  House!HouseNext
  BY <1>7, CancellationAbandons
<1>8. CASE \/ UNCHANGED vars
           \/ \E u \in Users, fee \in RoyaltyFees, r \in Option(Users), extra \in Extras :
                UpdateRoyalty(u, fee, r, extra)
  <2>1. /\ now' = now /\ counter_items' = counter_items /\ nft_owner' = nft_owner
        /\ items' = items /\ bids' = bids
    BY <1>8 DEF vars, UpdateRoyalty
  <2> QED
    BY <2>1, HouseKept DEF Total
<1> QED
  BY <1>1, <1>2, <1>3, <1>4, <1>5, <1>6, <1>7, <1>8 DEF Next

\* The handlers of contract.rs, in whatever order they are called, keep the
\* promises of the auction house.
THEOREM Implementation ==
  ASSUME Prices = Nat
  PROVE  Spec => ImplementsAuctionHouse
<1>1. Init => House!HouseInit
  BY InitialHouse
<1>2. TypeOK /\ BoughtOutIsClosed /\ [Next]_vars => [House!HouseNext]_House!houseVars
  BY EveryStepIsAMove
<1> QED
  BY <1>1, <1>2, TypeCorrect, BoughtOutIsClosedAlways, PTL
     DEF Spec, ImplementsAuctionHouse, House!HouseSpec
=============================================================================
