------------------------- MODULE MarketplaceProofs -------------------------
(***************************************************************************)
(* The type invariant of the marketplace: every amount, time and counter   *)
(* that the handlers of contract.rs compute is a natural number, so that   *)
(* none of their unsigned subtractions goes below zero.                    *)
(***************************************************************************)
EXTENDS MarketplaceProperties, ArithmeticProofs

-----------------------------------------------------------------------------
(* Rounding and the tax. *)

\* A product of an amount and a Decimal is an amount again, and a share of
\* at most one is not more than the whole.
LEMMA DecMulNat ==
  ASSUME NEW x \in Nat, NEW d \in Decimal
  PROVE  DecMul(x, d) \in Nat /\ (d <= SCALE => DecMul(x, d) <= x)
<1>1. d \in Nat /\ SCALE \in Nat \ {0}
  BY ScaleAssumption DEF Decimal
<1> QED
  BY <1>1, RoundedProduct DEF DecMul

\* compute_tax and deduct_tax are the arithmetic of a tax on top of an amount.
LEMMA TaxTerms ==
  ASSUME NEW g
  PROVE  /\ compute_tax(g) = AtMost(g - Net(g, TaxRate, SCALE), TaxCap)
         /\ deduct_tax(g) = Untaxed(g, TaxRate, TaxCap, SCALE)
         /\ ChainCost(g) = Taxed(g, TaxRate, TaxCap, SCALE)
  BY DEF compute_tax, deduct_tax, ChainCost, DecMul, MultiplyRatio, Lesser,
         AtMost, Net, Untaxed, Taxed

\* The parameters of the tax.
LEMMA TaxParameters ==
  TaxRate \in Nat /\ TaxCap \in Nat /\ SCALE \in Nat \ {0}
  BY TaxAssumption, ScaleAssumption DEF Decimal

\* The tax that is deducted is never more than the amount, so the
\* checked_sub of deduct_tax does not fail.
LEMMA DeductTaxNat ==
  ASSUME NEW g \in Nat
  PROVE  compute_tax(g) \in Nat /\ deduct_tax(g) \in Nat /\ deduct_tax(g) <= g
  BY TaxTerms, TaxParameters, UntaxedBounds

\* Sending deduct_tax(g) costs the contract at most g, tax included, for
\* every rate and cap of the tax: a payout never touches other people's
\* money.  compute_tax, deduct_tax, and every BankMsg::Send of contract.rs.
THEOREM OutflowCovered ==
  ASSUME NEW g \in Nat
  PROVE  Outflow(g) \in Nat /\ Outflow(g) <= g
  BY TaxTerms, TaxParameters, UntaxedIsCovered DEF Outflow

\* deduct_tax gives away no more than rounding requires: of the amounts
\* whose transfer the gross amount can pay for, tax included, it finds the
\* largest or the one below it.  compute_tax and deduct_tax.
THEOREM DeductionIsTight ==
  ASSUME NEW g \in Nat
  PROVE  ChainCost(deduct_tax(g) + 2) > g
  BY TaxTerms, TaxParameters, UntaxedIsTight

-----------------------------------------------------------------------------
(* Amounts. *)

\* unwrap_or_default of an optional amount is an amount.
LEMMA OptionNat ==
  ASSUME NEW x \in Option(Nat)
  PROVE  OrZero(x) \in Nat
  BY DEF Option, OrZero

\* The price to reach is an amount, and no lower than the price so far.
LEMMA MinBidNat ==
  ASSUME NEW item \in ItemInfo
  PROVE  MinBid(item) \in Nat /\ MinBid(item) >= OrZero(item.highest_bid)
<1>1. OrZero(item.highest_bid) \in Nat
  BY OptionNat DEF ItemInfo
<1>2. DecMul(OrZero(item.highest_bid), Config.bid_margin) \in Nat
  BY <1>1, DecMulNat, ConfigAssumption DEF ConfigType
<1>3. item.start_price # None => item.start_price \in Nat
  BY DEF ItemInfo, Option
<1> QED
  BY <1>1, <1>2, <1>3 DEF MinBid

\* The SITY price of a private sale is an amount.
LEMMA SityRequiredNat ==
  ASSUME NEW item \in ItemInfo
  PROVE  SityRequired(item) \in Nat
<1>1. item.highest_bid # None =>
        DecMul(item.highest_bid, Config.sity_fee_registration) \in Nat
  BY DecMulNat, ConfigAssumption DEF ConfigType, ItemInfo, Option
<1> QED
  BY <1>1, ConfigAssumption DEF SityRequired, ConfigType

\* A new entry extends a map by the auction that is being created.
LEMMA NewEntryType ==
  ASSUME counter_items \in Nat, NEW S, NEW m \in [Auctions -> S], NEW v \in S
  PROVE  /\ NewEntry(m, v) \in [0 .. counter_items -> S]
         /\ \A a \in Auctions : NewEntry(m, v)[a] = m[a]
         /\ NewEntry(m, v)[counter_items] = v
  BY DEF NewEntry, Auctions

-----------------------------------------------------------------------------
(* Types. *)

\* The storage is well-typed after instantiate.
LEMMA InitTypeOK == Init => TypeOK
<1> SUFFICES ASSUME Init PROVE TypeOK
  OBVIOUS
<1>1. Auctions = {}
  BY DEF Init, Auctions
<1>2. \A S : << >> \in [{} -> S]
  OBVIOUS
<1>3. /\ now \in Nat /\ now >= Genesis
      /\ counter_items \in Nat
      /\ bank \in Nat /\ stray \in Nat
  BY TimeAssumption DEF Init
<1>4. royalty \in [Users -> Option(RoyaltyInfo)]
  BY DEF Init, Option
<1>5. sity \in [Users -> Nat] /\ nft_owner \in [Nfts -> Users \cup {Market}]
  BY OutsideAssumption DEF Init
<1>6. /\ items \in [Auctions -> ItemInfo]
      /\ bids \in [Auctions -> [Users -> Option(BidInfo)]]
      /\ histories \in [Auctions -> Seq(HistoryBidInfo)]
      /\ histories_bidder \in [Auctions -> [Users -> Seq(HistoryBidInfo)]]
      /\ outcome \in [Auctions -> Option(Outcome)]
  BY <1>1, <1>2 DEF Init
<1> QED
  BY <1>3, <1>4, <1>5, <1>6 DEF TypeOK

\* The auctions there are after a step that creates none.
LEMMA SameAuctions ==
  ASSUME counter_items' = counter_items
  PROVE  Auctions' = Auctions
  BY DEF Auctions

\* The next block keeps the storage well-typed.
LEMMA TickType ==
  ASSUME TypeOK, Tick
  PROVE  TypeOK'
<1>1. Auctions' = Auctions
  BY SameAuctions DEF Tick
<1>2. now' \in Nat /\ now' >= Genesis
  BY TimeAssumption DEF Tick, TypeOK
<1> QED
  BY <1>1, <1>2 DEF TypeOK, Tick

\* A listing that passes the checks of execute_create_auction becomes a
\* well-typed auction.
LEMMA NewItemType ==
  ASSUME TypeOK, NEW u \in Users, NEW n \in Nfts, NEW l \in Listings, ValidCharity(l)
  PROVE  NewItem(u, n, l) \in ItemInfo
<1>1. l \in ListingType
  BY InputAssumption
<1>2. StartOf(l) \in Nat
  BY <1>1 DEF TypeOK, StartOf, ListingType, Option
<1>3. l.charity \in Option(Share)
  BY <1>1, ScaleAssumption DEF ListingType, ValidCharity, Option, Share, Decimal
<1> QED
  BY <1>1, <1>2, <1>3 DEF NewItem, ItemInfo, ListingType, Option

\* execute_create_auction keeps the storage well-typed.
LEMMA CreationType ==
  ASSUME TypeOK, NEW u \in Users, NEW n \in Nfts, NEW l \in Listings,
         ExecuteCreateAuction(u, n, l),
         nft_owner' \in [Nfts -> Users \cup {Market}],
         UNCHANGED << now, bank, stray, sity >>
  PROVE  TypeOK'
<1>1. counter_items \in Nat /\ counter_items' \in Nat
  BY DEF TypeOK, ExecuteCreateAuction
<1>2. Auctions' = 0 .. counter_items
  BY <1>1 DEF ExecuteCreateAuction, Auctions
<1>3. items' \in [Auctions' -> ItemInfo]
  <2>1. items \in [Auctions -> ItemInfo] /\ NewItem(u, n, l) \in ItemInfo
    BY NewItemType DEF TypeOK, ExecuteCreateAuction
  <2> QED
    BY <1>1, <1>2, <2>1, NewEntryType DEF ExecuteCreateAuction
<1>4. bids' \in [Auctions' -> [Users -> Option(BidInfo)]]
  <2>1. [v \in Users |-> None] \in [Users -> Option(BidInfo)]
    BY DEF Option
  <2> QED
    BY <1>1, <1>2, <2>1, NewEntryType DEF ExecuteCreateAuction, TypeOK
<1>5. histories' \in [Auctions' -> Seq(HistoryBidInfo)]
  <2>1. << >> \in Seq(HistoryBidInfo)
    OBVIOUS
  <2> QED
    BY <1>1, <1>2, <2>1, NewEntryType DEF ExecuteCreateAuction, TypeOK
<1>6. histories_bidder' \in [Auctions' -> [Users -> Seq(HistoryBidInfo)]]
  <2>1. [v \in Users |-> << >>] \in [Users -> Seq(HistoryBidInfo)]
    OBVIOUS
  <2> QED
    BY <1>1, <1>2, <2>1, NewEntryType DEF ExecuteCreateAuction, TypeOK
<1>7. outcome' \in [Auctions' -> Option(Outcome)]
  <2>1. None \in Option(Outcome)
    BY DEF Option
  <2> QED
    BY <1>1, <1>2, <2>1, NewEntryType DEF ExecuteCreateAuction, TypeOK
<1>8. royalty' = royalty
  BY DEF ExecuteCreateAuction
<1> QED
  BY <1>1, <1>3, <1>4, <1>5, <1>6, <1>7, <1>8 DEF TypeOK

\* A listing that arrives with its NFT does, too.
LEMMA CreateAuctionType ==
  ASSUME TypeOK, NEW u \in Users, NEW n \in Nfts, NEW l \in Listings, CreateAuction(u, n, l)
  PROVE  TypeOK'
<1>1. nft_owner' \in [Nfts -> Users \cup {Market}]
  BY DEF CreateAuction, TypeOK
<1> QED
  BY <1>1, CreationType DEF CreateAuction

\* execute_register_private_sale keeps the storage well-typed.
LEMMA RegistrationType ==
  ASSUME TypeOK, NEW u \in Users, NEW a \in Auctions, NEW sent,
         ExecuteRegisterPrivateSale(u, a, sent), sity' \in [Users -> Nat],
         UNCHANGED << now, bank, stray, nft_owner >>
  PROVE  TypeOK'
<1>1. Auctions' = Auctions
  BY SameAuctions DEF ExecuteRegisterPrivateSale
<1>2. sent \in Nat
  BY SityRequiredNat DEF TypeOK, ExecuteRegisterPrivateSale
<1>3. bids' \in [Auctions -> [Users -> Option(BidInfo)]]
  <2> DEFINE b == [bid_counter |-> 0, total_bid |-> 0, sity_used |-> sent, resolved |-> FALSE]
  <2>1. b \in Option(BidInfo)
    BY <1>2 DEF BidInfo, Option
  <2>2. bids' = [bids EXCEPT ![a][u] = b]
    BY DEF ExecuteRegisterPrivateSale
  <2> HIDE DEF b
  <2> QED
    BY <2>1, <2>2 DEF TypeOK
<1> QED
  BY <1>1, <1>3 DEF ExecuteRegisterPrivateSale, TypeOK

\* So does a registration with its SITY, which the sender has.
LEMMA RegisterPrivateSaleType ==
  ASSUME TypeOK, NEW u \in Users, NEW a \in Auctions, RegisterPrivateSale(u, a)
  PROVE  TypeOK'
<1>1. SityRequired(items[a]) \in Nat
  BY SityRequiredNat DEF TypeOK
<1>2. sity' \in [Users -> Nat]
  BY <1>1 DEF RegisterPrivateSale, TypeOK
<1> QED
  BY <1>2, RegistrationType DEF RegisterPrivateSale

\* Coins that no handler looks at are still coins.
LEMMA StraysType ==
  ASSUME TypeOK, NEW extra \in Extras, Strays(extra)
  PROVE  extra \in Nat /\ stray' \in Nat
  BY InputAssumption DEF Strays, TypeOK

\* execute_update_royalty keeps the storage well-typed.
LEMMA UpdateRoyaltyType ==
  ASSUME TypeOK, NEW u \in Users, NEW fee \in RoyaltyFees, NEW r \in Option(Users),
         NEW extra \in Extras,
         UpdateRoyalty(u, fee, r, extra)
  PROVE  TypeOK'
<1>1. Auctions' = Auctions
  BY SameAuctions DEF UpdateRoyalty
<1>2. royalty' \in [Users -> Option(RoyaltyInfo)]
  BY InputAssumption DEF UpdateRoyalty, TypeOK, Option, RoyaltyInfo
<1>3. extra \in Nat /\ stray' \in Nat
  BY StraysType DEF UpdateRoyalty
<1> QED
  BY <1>1, <1>2, <1>3 DEF UpdateRoyalty, TypeOK

-----------------------------------------------------------------------------
(* What PlaceBid and InstantBuy record. *)

\* A bidder's total with the coins sent is an amount.
LEMMA BidTotalNat ==
  ASSUME TypeOK, NEW u \in Users, NEW a \in Auctions, NEW sent \in Amounts
  PROVE  BidTotal(u, a, sent) \in Nat
<1>1. sent \in Nat
  BY InputAssumption
<1>2. bids[a][u] # None => bids[a][u].total_bid \in Nat
  BY DEF TypeOK, Option, BidInfo
<1> QED
  BY <1>1, <1>2 DEF BidTotal

\* The bidder's entry holds the new total; nobody else's entry changes.
LEMMA RecordBidEffect ==
  ASSUME TypeOK, NEW u \in Users, NEW a \in Auctions, NEW sent \in Amounts,
         RecordBid(u, a, sent)
  PROVE  /\ bids' \in [Auctions -> [Users -> Option(BidInfo)]]
         /\ bids'[a][u] \in BidInfo
         /\ bids'[a][u].total_bid = BidTotal(u, a, sent)
         /\ bids[a][u] # None => bids'[a][u].sity_used = bids[a][u].sity_used
         /\ \A b \in Auctions, v \in Users :
              b # a \/ v # u => bids'[b][v] = bids[b][v]
<1> DEFINE new == AddedBid(bids[a][u], sent)
<1>1. bids \in [Auctions -> [Users -> Option(BidInfo)]] /\ sent \in Nat
  BY InputAssumption DEF TypeOK
<1>2. /\ new \in BidInfo
      /\ new.total_bid = BidTotal(u, a, sent)
      /\ bids[a][u] # None => new.sity_used = bids[a][u].sity_used
  <2>1. CASE bids[a][u] = None
    BY <1>1, <2>1 DEF AddedBid, BidInfo, Option, BidTotal
  <2>2. CASE bids[a][u] # None
    <3>1. bids[a][u] \in BidInfo
      BY <1>1, <2>2 DEF Option
    <3>2. new = [bids[a][u] EXCEPT !.bid_counter = bids[a][u].bid_counter + 1,
                                   !.total_bid = bids[a][u].total_bid + sent]
      BY <2>2 DEF AddedBid
    <3>3. /\ bids[a][u].bid_counter + 1 \in Nat
          /\ bids[a][u].total_bid + sent \in Nat
      BY <1>1, <3>1 DEF BidInfo
    <3>4. new \in BidInfo
      BY <3>1, <3>2, <3>3 DEF BidInfo
    <3>5. new.total_bid = BidTotal(u, a, sent) /\ new.sity_used = bids[a][u].sity_used
      BY <2>2, <3>1, <3>2 DEF BidInfo, BidTotal
    <3> QED
      BY <3>4, <3>5
  <2> QED
    BY <2>1, <2>2
<1>3. bids' = [bids EXCEPT ![a][u] = new]
  BY DEF RecordBid
<1> HIDE DEF new
<1>4. bids' \in [Auctions -> [Users -> Option(BidInfo)]]
  BY <1>1, <1>2, <1>3 DEF Option
<1>5. bids'[a][u] = new
  BY <1>1, <1>3
<1>6. \A b \in Auctions, v \in Users : b # a \/ v # u => bids'[b][v] = bids[b][v]
  BY <1>1, <1>3
<1> QED
  BY <1>2, <1>4, <1>5, <1>6

\* Both histories stay well-typed when an entry is appended.
LEMMA AppendHistoryType ==
  ASSUME TypeOK, NEW u \in Users, NEW a \in Auctions, NEW e \in HistoryBidInfo
  PROVE  /\ [histories EXCEPT ![a] = Append(@, e)] \in [Auctions -> Seq(HistoryBidInfo)]
         /\ [histories_bidder EXCEPT ![a][u] = Append(@, e)]
              \in [Auctions -> [Users -> Seq(HistoryBidInfo)]]
<1>1. Append(histories[a], e) \in Seq(HistoryBidInfo)
  BY DEF TypeOK
<1>2. Append(histories_bidder[a][u], e) \in Seq(HistoryBidInfo)
  BY DEF TypeOK
<1> QED
  BY <1>1, <1>2 DEF TypeOK

\* An auction with a new leader is a well-typed auction.
LEMMA LedType ==
  ASSUME NEW item \in ItemInfo, NEW u \in Users, NEW total \in Nat, NEW end \in Nat
  PROVE  Led(item, u, total, end) \in ItemInfo
<1>1. total \in Option(Nat) /\ u \in Option(Users)
  BY DEF Option
<1>2. item.total_bids + 1 \in Nat
  BY DEF ItemInfo
<1> QED
  BY <1>1, <1>2 DEF Led, ItemInfo

\* The end of an auction after a bid is a time.
LEMMA PlaceBidEnd ==
  ASSUME TypeOK, NEW a \in Auctions
  PROVE  ExtendedEnd(items[a]) \in Nat
  BY TimeAssumption DEF TypeOK, ItemInfo, ExtendedEnd

\* The end that a purchase or a cancellation sets is a time, and in the past.
LEMMA ClosedEnd ==
  ASSUME TypeOK
  PROVE  now - MIN_TIME_AUCTION \in Nat /\ now - MIN_TIME_AUCTION < now
  BY TimeAssumption DEF TypeOK

\* execute_place_bid keeps the storage well-typed.
LEMMA PlaceBidType ==
  ASSUME TypeOK, NEW u \in Users, NEW a \in Auctions, NEW sent \in Amounts,
         PlaceBid(u, a, sent)
  PROVE  TypeOK'
<1> DEFINE total == BidTotal(u, a, sent)
           entry == HistoryEntry(u, total, FALSE)
<1>1. Auctions' = Auctions
  BY SameAuctions DEF PlaceBid
<1>2. items' \in [Auctions -> ItemInfo]
  BY LedType, PlaceBidEnd, BidTotalNat DEF PlaceBid, TypeOK
<1>3. bids' \in [Auctions -> [Users -> Option(BidInfo)]]
  BY RecordBidEffect DEF PlaceBid
<1>4. entry \in HistoryBidInfo
  BY BidTotalNat DEF HistoryEntry, HistoryBidInfo
<1>5. /\ histories' = [histories EXCEPT ![a] = Append(@, entry)]
      /\ histories_bidder' = [histories_bidder EXCEPT ![a][u] = Append(@, entry)]
  BY DEF PlaceBid
<1>6. /\ histories' \in [Auctions -> Seq(HistoryBidInfo)]
      /\ histories_bidder' \in [Auctions -> [Users -> Seq(HistoryBidInfo)]]
  BY <1>4, <1>5, AppendHistoryType
<1>7. bank' \in Nat
  BY InputAssumption DEF PlaceBid, TypeOK
<1> QED
  BY <1>1, <1>2, <1>3, <1>6, <1>7 DEF PlaceBid, TypeOK

\* execute_instant_buy keeps the storage well-typed.
LEMMA InstantBuyType ==
  ASSUME TypeOK, NEW u \in Users, NEW a \in Auctions, NEW sent \in Amounts,
         InstantBuy(u, a, sent)
  PROVE  TypeOK'
<1> DEFINE total == BidTotal(u, a, sent)
           mine == HistoryEntry(u, total, TRUE)
           entry == HistoryEntry(u, IF histories[a] = << >> THEN sent ELSE total, TRUE)
<1>1. Auctions' = Auctions
  BY SameAuctions DEF InstantBuy
<1>2. items' \in [Auctions -> ItemInfo]
  BY LedType, ClosedEnd, BidTotalNat DEF InstantBuy, TypeOK
<1>3. bids' \in [Auctions -> [Users -> Option(BidInfo)]]
  BY RecordBidEffect DEF InstantBuy
<1>4. mine \in HistoryBidInfo /\ entry \in HistoryBidInfo
  BY BidTotalNat, InputAssumption DEF HistoryEntry, HistoryBidInfo
<1>5. /\ histories' = [histories EXCEPT ![a] = Append(@, entry)]
      /\ histories_bidder' = [histories_bidder EXCEPT ![a][u] = Append(@, mine)]
  BY DEF InstantBuy
<1>6. /\ histories' \in [Auctions -> Seq(HistoryBidInfo)]
      /\ histories_bidder' \in [Auctions -> [Users -> Seq(HistoryBidInfo)]]
  BY <1>4, <1>5, AppendHistoryType
<1>7. bank' \in Nat
  BY InputAssumption DEF InstantBuy, TypeOK
<1> QED
  BY <1>1, <1>2, <1>3, <1>6, <1>7 DEF InstantBuy, TypeOK

-----------------------------------------------------------------------------
(* Refunds, settlements and cancellations. *)

\* execute_retract_bids empties one bidder's entry and keeps the SITY recorded
\* in it.
LEMMA RetractionEffect ==
  ASSUME TypeOK, NEW u \in Users, NEW a \in Auctions,
         ExecuteRetractBids(u, a)
  PROVE  /\ bids' \in [Auctions -> [Users -> Option(BidInfo)]]
         /\ bids[a][u] \in BidInfo /\ bids'[a][u] \in BidInfo
         /\ bids'[a][u].total_bid = 0
         /\ bids'[a][u].sity_used = bids[a][u].sity_used
         /\ \A b \in Auctions, v \in Users :
              b # a \/ v # u => bids'[b][v] = bids[b][v]
<1> DEFINE new == [bids[a][u] EXCEPT !.total_bid = 0, !.resolved = TRUE]
<1>1. bids \in [Auctions -> [Users -> Option(BidInfo)]]
  BY DEF TypeOK
<1>2. bids[a][u] \in BidInfo
  BY <1>1 DEF ExecuteRetractBids, Option
<1>3. new \in BidInfo /\ new.total_bid = 0 /\ new.sity_used = bids[a][u].sity_used
  BY <1>2 DEF BidInfo
<1>4. bids' = [bids EXCEPT ![a][u] = new]
  BY DEF ExecuteRetractBids
<1> HIDE DEF new
<1>5. bids' \in [Auctions -> [Users -> Option(BidInfo)]]
  BY <1>1, <1>3, <1>4 DEF Option
<1>6. bids'[a][u] = new
  BY <1>1, <1>4
<1>7. \A b \in Auctions, v \in Users : b # a \/ v # u => bids'[b][v] = bids[b][v]
  BY <1>1, <1>4
<1> QED
  BY <1>2, <1>3, <1>5, <1>6, <1>7

\* The same of a refund with all that follows.
LEMMA RetractBidsEffect ==
  ASSUME TypeOK, NEW u \in Users, NEW a \in Auctions,
         NEW extra \in Extras, RetractBids(u, a, extra)
  PROVE  /\ bids' \in [Auctions -> [Users -> Option(BidInfo)]]
         /\ bids[a][u] \in BidInfo /\ bids'[a][u] \in BidInfo
         /\ bids'[a][u].total_bid = 0
         /\ bids'[a][u].sity_used = bids[a][u].sity_used
         /\ \A b \in Auctions, v \in Users :
              b # a \/ v # u => bids'[b][v] = bids[b][v]
  BY RetractionEffect DEF RetractBids

\* Minting keeps the balances amounts.
LEMMA MintedType ==
  ASSUME NEW balances \in [Users -> Nat], NEW u \in Users, NEW amount \in Nat
  PROVE  Minted(balances, u, amount) \in [Users -> Nat]
  BY DEF Minted

\* execute_retract_bids keeps the storage well-typed: the contract has what the
\* refund costs it.
LEMMA RetractBidsType ==
  ASSUME TypeOK, NEW u \in Users, NEW a \in Auctions,
         NEW extra \in Extras, RetractBids(u, a, extra)
  PROVE  TypeOK'
<1>1. Auctions' = Auctions
  BY SameAuctions DEF RetractBids, ExecuteRetractBids
<1>2. bids[a][u].total_bid \in Nat
  BY RetractBidsEffect DEF BidInfo
<1>5. extra \in Nat /\ stray' \in Nat
  BY StraysType DEF RetractBids, ExecuteRetractBids
<1>3. bank' \in Nat
  <2>1. Outflow(bids[a][u].total_bid) \in Nat
    BY <1>2, OutflowCovered
  <2> QED
    BY <2>1, <1>5 DEF RetractBids, ExecuteRetractBids, TypeOK
<1>4. sity' \in [Users -> Nat]
  <2>1. PartialReward(u, a) \in Nat
    BY <1>2, DecMulNat, ConfigAssumption DEF PartialReward, ConfigType
  <2>2. sity' = Minted(sity, u, PartialReward(u, a)) \/ sity' = sity
    BY DEF RetractBids, ExecuteRetractBids
  <2>3. sity \in [Users -> Nat]
    BY DEF TypeOK
  <2>4. Minted(sity, u, PartialReward(u, a)) \in [Users -> Nat]
    BY <2>1, <2>3, MintedType
  <2> QED
    BY <2>2, <2>3, <2>4
<1> QED
  BY <1>1, <1>3, <1>4, <1>5, RetractBidsEffect DEF RetractBids, ExecuteRetractBids, TypeOK

\* The recorded royalty fee of a minter is a Decimal.
LEMMA RoyaltyOfDecimal ==
  ASSUME TypeOK, NEW n \in Nfts
  PROVE  RoyaltyOf(n) \in Decimal
<1>1. MinterOf(n) \in Option(Users)
  BY OutsideAssumption DEF MinterOf
<1>2. CASE MinterOf(n) = None \/ royalty[MinterOf(n)] = None
  BY <1>2 DEF RoyaltyOf, Decimal
<1>3. CASE MinterOf(n) # None /\ royalty[MinterOf(n)] # None
  <2>1. royalty[MinterOf(n)] \in RoyaltyInfo
    BY <1>1, <1>3 DEF TypeOK, Option
  <2> QED
    BY <1>3, <2>1 DEF RoyaltyOf, RoyaltyInfo
<1> QED
  BY <1>2, <1>3

\* execute_cancel_auction changes the end and the bidder of one auction.
LEMMA CancellationEffect ==
  ASSUME TypeOK, NEW u \in Users, NEW a \in Auctions,
         NEW sent, ExecuteCancelAuction(u, a, sent)
  PROVE  /\ items' \in [Auctions -> ItemInfo]
         /\ items'[a] = [items[a] EXCEPT !.end_time = now - MIN_TIME_AUCTION,
                                         !.highest_bidder = None]
         /\ \A b \in Auctions : b # a => items'[b] = items[b]
<1> DEFINE new == [items[a] EXCEPT !.end_time = now - MIN_TIME_AUCTION,
                                   !.highest_bidder = None]
<1>1. items \in [Auctions -> ItemInfo] /\ items[a] \in ItemInfo
  BY DEF TypeOK
<1>2. new \in ItemInfo
  BY <1>1, ClosedEnd DEF ItemInfo, Option
<1>3. items' = [items EXCEPT ![a] = new]
  BY DEF ExecuteCancelAuction, Cancelled
<1> QED
  BY <1>1, <1>2, <1>3

\* The same of a cancellation with all that follows.
LEMMA CancelAuctionEffect ==
  ASSUME TypeOK, NEW u \in Users, NEW a \in Auctions,
         NEW extra \in Extras, CancelAuction(u, a, extra)
  PROVE  /\ items' \in [Auctions -> ItemInfo]
         /\ items'[a] = [items[a] EXCEPT !.end_time = now - MIN_TIME_AUCTION,
                                         !.highest_bidder = None]
         /\ \A b \in Auctions : b # a => items'[b] = items[b]
  BY CancellationEffect DEF CancelAuction

\* execute_cancel_auction keeps the storage well-typed: the contract has what
\* the two halves of the fee cost it.
LEMMA CancelAuctionType ==
  ASSUME TypeOK, NEW u \in Users, NEW a \in Auctions,
         NEW extra \in Extras, CancelAuction(u, a, extra)
  PROVE  TypeOK'
<1> DEFINE fee == CancellationFee(items[a])
<1>1. Auctions' = Auctions
  BY SameAuctions DEF CancelAuction, ExecuteCancelAuction
<1>3. extra \in Nat /\ stray' \in Nat
  BY StraysType DEF CancelAuction, ExecuteCancelAuction
<1>2. bank' \in Nat
  <2>1. CASE items[a].highest_bid = None
    BY <2>1, <1>3 DEF CancelAuction, ExecuteCancelAuction, TypeOK
  <2>2. CASE items[a].highest_bid # None
    <3>1. items[a].highest_bid \in Nat
      BY <2>2 DEF TypeOK, ItemInfo, Option
    <3>2. fee \in Nat
      BY <3>1, DecMulNat, ConfigAssumption DEF CancellationFee, ConfigType
    <3>3. Half(fee) \in Nat
      BY <3>2 DEF Half
    <3>4. Outflow(fee) \in Nat /\ Outflow(Half(fee)) \in Nat
      BY <3>2, <3>3, OutflowCovered
    <3>5. /\ bank' = AfterCancelFee(items[a], fee)
          /\ CancelFeeGoesThrough(items[a], fee)
      BY <2>2 DEF CancelAuction, ExecuteCancelAuction
    <3> QED
      BY <3>2, <3>4, <3>5 DEF AfterCancelFee, CancelFeeGoesThrough, TypeOK
  <2> QED
    BY <2>1, <2>2
<1> QED
  BY <1>1, <1>2, <1>3, CancelAuctionEffect DEF CancelAuction, ExecuteCancelAuction, TypeOK

\* The shares of a settlement are amounts and add up to the price, so that
\* none of the checked_sub of execute_withdraw_nft fails once the fees fit.
THEOREM SharesOfThePrice ==
  ASSUME NEW item \in ItemInfo, NEW fee \in Decimal, FeesFit(item, fee)
  PROVE  /\ \A k \in 1 .. 4 : Payouts(item, fee)[k] \in Nat
         /\ Payouts(item, fee)[1] + Payouts(item, fee)[2] + Payouts(item, fee)[3]
              + Payouts(item, fee)[4] = OrZero(item.highest_bid)
<1> DEFINE price == OrZero(item.highest_bid)
<1>1. price \in Nat
  BY OptionNat DEF ItemInfo
<1>2. LotaFee(item) \in Nat
  BY <1>1, DecMulNat, ConfigAssumption DEF LotaFee, ConfigType
<1>3. RoyaltyFee(item, fee) \in Nat
  BY <1>1, DecMulNat DEF RoyaltyFee
<1>4. AfterFees(item, fee) \in Nat
  BY <1>1, <1>2, <1>3 DEF AfterFees, FeesFit
<1>5. CharityShare(item, fee) \in Nat /\ CharityShare(item, fee) <= AfterFees(item, fee)
  <2>1. CASE item.charity = None \/ item.highest_bid = None
    BY <1>4, <2>1 DEF CharityShare
  <2>2. CASE item.charity # None /\ item.highest_bid # None
    <3>1. item.charity \in Decimal /\ item.charity <= SCALE
      BY <2>2, ScaleAssumption DEF ItemInfo, Option, Share, Decimal
    <3> QED
      BY <1>4, <2>2, <3>1, DecMulNat DEF CharityShare
  <2> QED
    BY <2>1, <2>2
<1>6. CreatorShare(item, fee) \in Nat
  BY <1>4, <1>5 DEF CreatorShare
<1>7. CreatorShare(item, fee) + RoyaltyFee(item, fee) + LotaFee(item)
        + CharityShare(item, fee) = price
  BY <1>1, <1>2, <1>3, <1>4, <1>5 DEF CreatorShare, AfterFees
<1> QED
  BY <1>2, <1>3, <1>5, <1>6, <1>7 DEF Payouts

\* execute_withdraw_nft marks one auction as resolved, and its outcome is known.
LEMMA SettlementEffect ==
  ASSUME TypeOK, NEW a \in Auctions, ExecuteWithdrawNft(a)
  PROVE  /\ items' \in [Auctions -> ItemInfo]
         /\ items'[a] = [items[a] EXCEPT !.resolved = TRUE]
         /\ \A b \in Auctions : b # a => items'[b] = items[b]
         /\ outcome' \in [Auctions -> Option(Outcome)]
<1> DEFINE new == [items[a] EXCEPT !.resolved = TRUE]
<1>1. items \in [Auctions -> ItemInfo] /\ items[a] \in ItemInfo
  BY DEF TypeOK
<1>2. new \in ItemInfo
  BY <1>1 DEF ItemInfo
<1>3. items' = [items EXCEPT ![a] = new]
  BY DEF ExecuteWithdrawNft
<1>4. outcome' \in [Auctions -> Option(Outcome)]
  <2> DEFINE item == items[a]
             o == [bidder |-> item.highest_bidder, price |-> OrZero(item.highest_bid),
                   bids |-> item.total_bids, sold |-> IsSale(item)]
  <2>1. OrZero(item.highest_bid) \in Nat
    BY <1>1, OptionNat DEF ItemInfo
  <2>2. o \in Option(Outcome)
    BY <1>1, <2>1 DEF Outcome, ItemInfo, Option, IsSale
  <2>3. outcome' = [outcome EXCEPT ![a] = o]
    BY DEF ExecuteWithdrawNft
  <2> HIDE DEF o
  <2> QED
    BY <2>2, <2>3 DEF TypeOK
<1> QED
  BY <1>1, <1>2, <1>3, <1>4

\* The same of a settlement with all that follows.
LEMMA WithdrawNftEffect ==
  ASSUME TypeOK, NEW a \in Auctions, NEW extra \in Extras, WithdrawNft(a, extra)
  PROVE  /\ items' \in [Auctions -> ItemInfo]
         /\ items'[a] = [items[a] EXCEPT !.resolved = TRUE]
         /\ \A b \in Auctions : b # a => items'[b] = items[b]
         /\ outcome' \in [Auctions -> Option(Outcome)]
  BY SettlementEffect DEF WithdrawNft

\* execute_withdraw_nft keeps the storage well-typed: the NFT goes to a user and
\* the contract has what the payouts cost it.
LEMMA WithdrawNftType ==
  ASSUME TypeOK, NEW a \in Auctions, NEW extra \in Extras, WithdrawNft(a, extra)
  PROVE  TypeOK'
<1> DEFINE item == items[a]
           to == NewOwner(item)
           paid == Payouts(item, RoyaltyOf(item.nft))
           out == Outflow(paid[1]) + Outflow(paid[2]) + Outflow(paid[3]) + Outflow(paid[4])
<1>1. Auctions' = Auctions
  BY SameAuctions DEF WithdrawNft, ExecuteWithdrawNft
<1>9. extra \in Nat /\ stray' \in Nat
  BY StraysType DEF WithdrawNft, ExecuteWithdrawNft
<1>2. item \in ItemInfo
  BY DEF TypeOK
<1>3. OrZero(item.highest_bid) \in Nat
  BY <1>2, OptionNat DEF ItemInfo
<1>4. to \in Users
  BY <1>2 DEF NewOwner, ItemInfo, Option
<1>5. bank' \in Nat
  <2>1. RoyaltyOf(item.nft) \in Decimal
    BY <1>2, RoyaltyOfDecimal DEF ItemInfo
  <2>2. FeesFit(item, RoyaltyOf(item.nft))
    BY DEF WithdrawNft, ExecuteWithdrawNft
  <2>3. \A k \in 1 .. 4 : paid[k] \in Nat
    BY <1>2, <2>1, <2>2, SharesOfThePrice
  <2>4. \A k \in 1 .. 4 : Outflow(paid[k]) \in Nat
    BY <2>3, OutflowCovered
  <2>5. out \in Nat
    BY <2>4
  <2>6. bank' = bank + extra \/ (bank' = bank + extra - out /\ out <= bank + extra)
    BY DEF WithdrawNft, ExecuteWithdrawNft, PayoutsGoThrough
  <2> HIDE DEF out
  <2> QED
    BY <1>9, <2>5, <2>6 DEF TypeOK
<1>6. sity' \in [Users -> Nat]
  <2> DEFINE reward == FullReward(item)
  <2>1. reward \in Nat
    BY <1>3, DecMulNat, ConfigAssumption DEF FullReward, ConfigType
  <2>2. \/ sity' = sity
        \/ sity' = Minted(Minted(sity, item.creator, reward), to, reward)
    BY DEF WithdrawNft, ExecuteWithdrawNft
  <2>3. item.creator \in Users /\ sity \in [Users -> Nat]
    BY <1>2 DEF TypeOK, ItemInfo
  <2>4. Minted(Minted(sity, item.creator, reward), to, reward) \in [Users -> Nat]
    BY <1>4, <2>1, <2>3, MintedType
  <2> QED
    BY <2>2, <2>3, <2>4
<1>7. nft_owner' \in [Nfts -> Users \cup {Market}]
  BY <1>2, <1>4 DEF WithdrawNft, ExecuteWithdrawNft, TypeOK, ItemInfo
<1> QED
  BY <1>1, <1>5, <1>6, <1>7, <1>9, WithdrawNftEffect
     DEF WithdrawNft, ExecuteWithdrawNft, TypeOK

\* Every handler keeps every part of the storage well-typed.
LEMMA NextTypeOK == TypeOK /\ [Next]_vars => TypeOK'
<1> SUFFICES ASSUME TypeOK, [Next]_vars PROVE TypeOK'
  OBVIOUS
<1>1. CASE Tick
  BY <1>1, TickType
<1>2. ASSUME NEW u \in Users, NEW n \in Nfts, NEW l \in Listings, CreateAuction(u, n, l)
      PROVE  TypeOK'
  BY <1>2, CreateAuctionType
<1>3. ASSUME NEW u \in Users, NEW a \in Auctions, RegisterPrivateSale(u, a)
      PROVE  TypeOK'
  BY <1>3, RegisterPrivateSaleType
<1>4. ASSUME NEW u \in Users, NEW a \in Auctions, NEW sent \in Amounts, PlaceBid(u, a, sent)
      PROVE  TypeOK'
  BY <1>4, PlaceBidType
<1>5. ASSUME NEW u \in Users, NEW a \in Auctions, NEW sent \in Amounts, InstantBuy(u, a, sent)
      PROVE  TypeOK'
  BY <1>5, InstantBuyType
<1>6. ASSUME NEW u \in Users, NEW a \in Auctions,
             NEW extra \in Extras, RetractBids(u, a, extra)
      PROVE  TypeOK'
  BY <1>6, RetractBidsType
<1>7. ASSUME NEW a \in Auctions, NEW extra \in Extras, WithdrawNft(a, extra)
      PROVE  TypeOK'
  BY <1>7, WithdrawNftType
<1>8. ASSUME NEW u \in Users, NEW a \in Auctions,
             NEW extra \in Extras, CancelAuction(u, a, extra)
      PROVE  TypeOK'
  BY <1>8, CancelAuctionType
<1>9. ASSUME NEW u \in Users, NEW fee \in RoyaltyFees, NEW r \in Option(Users),
             NEW extra \in Extras,
             UpdateRoyalty(u, fee, r, extra)
      PROVE  TypeOK'
  BY <1>9, UpdateRoyaltyType
<1>10. CASE UNCHANGED vars
  BY <1>10 DEF vars, TypeOK, Auctions
<1> QED
  BY <1>1, <1>2, <1>3, <1>4, <1>5, <1>6, <1>7, <1>8, <1>9, <1>10 DEF Next

\* Every reachable state has its types: in particular the balance of the
\* contract and the end of an auction never go below zero, where the
\* unsigned arithmetic of contract.rs would abort or wrap.
THEOREM TypeCorrect == Spec => []TypeOK
<1>1. Init => TypeOK
  BY InitTypeOK
<1>2. TypeOK /\ [Next]_vars => TypeOK'
  BY NextTypeOK
<1> QED
  BY <1>1, <1>2, PTL DEF Spec
=============================================================================
