----------------------- MODULE MarketplaceProperties -----------------------
(***************************************************************************)
(* What the marketplace promises the people who trade on it.               *)
(***************************************************************************)
EXTENDS Marketplace, FiniteSetsExt

Total(u, a) == IF bids[a][u] = None THEN 0 ELSE bids[a][u].total_bid

Sold(a) == outcome[a] # None /\ outcome[a].sold

\* WithdrawNft is accepted from the second of end_time on, and bids and
\* cancellations up to and including that second.  The settlement of an
\* auction stands unless one of them came after it.
SettlementStands(a) ==
  outcome[a] = None \/ ( /\ items[a].highest_bidder = outcome[a].bidder
                         /\ items[a].total_bids = outcome[a].bids )

-----------------------------------------------------------------------------
(* Money. *)

\* The contract has the money of the bidder an auction is going to: once the
\* reserve price is met, execute_retract_bids lets everybody go but the
\* highest bidder, so the price that withdraw_nft pays out is still there.
WinnerEscrowed ==
  \A a \in Auctions, u \in Users :
    /\ items[a].highest_bidder = u
    /\ OrZero(items[a].reserve_price) <= OrZero(items[a].highest_bid)
    => Total(u, a) = items[a].highest_bid

\* Nobody has more at stake in an auction than its highest bid, whoever
\* retracted and bid again in between.
HighestBidTops ==
  \A a \in Auctions, u \in Users :
    Total(u, a) > 0 => items[a].highest_bid # None /\ Total(u, a) <= items[a].highest_bid

\* What auction a still owes its bidder u: everything, unless u has bought
\* the NFT with it.
Owed(a, u) == IF Sold(a) /\ outcome[a].bidder = u THEN 0 ELSE Total(u, a)

AllOwed == SumFunction([e \in Auctions \X Users |-> Owed(e[1], e[2])])

\* The balance of the contract covers all the bids it still has to return,
\* across auctions, through fees, royalties, charity, tax and cancellations,
\* as long as no settled auction was reopened in the second it ended.  What
\* came in by mistake is never needed for that.
Solvent == (\A a \in Auctions : SettlementStands(a)) => bank >= AllOwed + stray

\* Where transfers are not taxed, the contract keeps nothing else for itself
\* but the coins that came with messages that take none and the odd unit of
\* each cancellation fee that execute_cancel_auction halves.
NothingStranded ==
  (\A a \in Auctions : SettlementStands(a)) =>
    bank <= AllOwed + stray
            + Cardinality({a \in Auctions : items[a].highest_bid # None
                             /\ items[a].highest_bidder = None})

\* Amounts that cannot be sent: a refund that the tax eats or whose reward
\* rounds to zero; a share that the tax eats, or a full reward of zero.
DustRefund(u, a) ==
  ~Sendable(Total(u, a)) \/ (EarnsPartialReward(u, a) /\ PartialReward(u, a) = 0)

DustSale(item) ==
  \/ FullReward(item) = 0
  \/ LET paid == Payouts(item, RoyaltyOf(item.nft))
     IN  \E k \in 1 .. 4 : paid[k] # 0 /\ ~Sendable(paid[k])

\* What execute_retract_bids and execute_withdraw_nft let through is carried
\* out: a refund or a settlement that the handler accepts never fails for want
\* of money, of the NFT or of room for the fees, but only over dust.
OnlyDustBlocks ==
  (\A a \in Auctions : SettlementStands(a)) =>
    \A a \in Auctions :
      /\ \A u \in Users :
           Total(u, a) > 0 /\ ~IsWinner(u, items[a]) /\ ~DustRefund(u, a) =>
             ENABLED RetractBids(u, a, 0)
      /\ MaySettle(items[a]) /\ (IsSale(items[a]) => ~DustSale(items[a])) =>
           ENABLED WithdrawNft(a, 0)

-----------------------------------------------------------------------------
(* Auctions. *)

\* A price equal to instant_buy is reached by execute_instant_buy only, which
\* closes the auction in the same second, so that nobody can buy it again.
BoughtOutIsClosed ==
  \A a \in Auctions :
    items[a].instant_buy # None /\ items[a].highest_bid # None =>
      /\ items[a].highest_bid <= items[a].instant_buy
      /\ items[a].highest_bid = items[a].instant_buy => items[a].end_time < now

\* An auction that has bids but no bidder was cancelled, and nobody can bid
\* in it any more, not even in the second of the cancellation.
CancelledIsClosed ==
  \A a \in Auctions :
    items[a].highest_bid # None /\ items[a].highest_bidder = None => items[a].end_time < now

\* Whoever bids in a private sale has paid at least the opening price in
\* SITY first.
PrivateBiddersRegistered ==
  \A a \in Auctions, u \in Users :
    items[a].private_sale /\ bids[a][u] # None =>
      bids[a][u].sity_used # None /\ bids[a][u].sity_used >= Config.sity_min_opening

\* A sale never goes below what its creator asked for, and the buyer is a
\* bidder of it and not its creator.
SoldOnTheCreatorsTerms ==
  \A a \in Auctions :
    Sold(a) =>
      /\ outcome[a].price >= OrZero(items[a].reserve_price)
      /\ outcome[a].price >= OrZero(items[a].start_price)
      /\ outcome[a].bidder \in Users \ {items[a].creator}
      /\ histories_bidder[a][outcome[a].bidder] # << >>

Open(n) == {a \in Auctions : items[a].nft = n /\ ~items[a].resolved}

\* The contract holds exactly the NFTs of its unresolved auctions, each of
\* which is in one of them only: transferred out once and never twice.
NftCustody ==
  \A n \in Nfts :
    IF nft_owner[n] = Market THEN \E a \in Auctions : Open(n) = {a} ELSE Open(n) = {}

\* Where the bids of u are in a history.
PlacesOf(u, history) == {k \in DOMAIN history : history[k].bidder = u}

\* `mine` are the entries of u in the history, in the same order: the n-th of
\* them is the n-th of `mine`, and there are no others.
IsPartOf(mine, u, history) ==
  LET places == PlacesOf(u, history)
  IN  /\ Len(mine) = Cardinality(places)
      /\ \A k \in places : mine[Cardinality({j \in places : j <= k})] = history[k]

\* HISTORIES and HISTORIES_BIDDER tell the same story as ITEMS and BIDS,
\* although each handler updates the four of them separately.
HistoriesAgree ==
  \A a \in Auctions :
    /\ Len(histories[a]) = items[a].total_bids
    /\ histories[a] # << >> =>
         histories[a][Len(histories[a])].amount = items[a].highest_bid
    /\ \A u \in Users :
         LET mine == histories_bidder[a][u]
         IN  /\ IsPartOf(mine, u, histories[a])
             /\ Len(mine) = IF bids[a][u] = None THEN 0 ELSE bids[a][u].bid_counter

-----------------------------------------------------------------------------
(* Rewards. *)

LargestBid(u, a) ==
  Max({0} \cup {histories_bidder[a][u][k].amount : k \in DOMAIN histories_bidder[a][u]})

SityUsed(u, a) == IF bids[a][u] = None THEN 0 ELSE OrZero(bids[a][u].sity_used)

SaleReward(u, a) ==
  IF Sold(a) /\ u \in {items[a].creator, outcome[a].bidder}
  THEN DecMul(outcome[a].price, Config.sity_full_rewards)
  ELSE 0

\* The most SITY that u can have been given for auction a.
RewardLimit(u, a) ==
  DecMul(LargestBid(u, a), Config.sity_partial_rewards) + SaleReward(u, a)

\* However often a bidder retracts and bids again, an auction mints at most
\* one partial reward for it, of its largest bid, besides the full reward of
\* the sale.
RewardsBounded ==
  \A u \in Users :
    sity[u] <= SityEndowment[u]
               + SumFunction([a \in Auctions |-> RewardLimit(u, a) - SityUsed(u, a)])

-----------------------------------------------------------------------------
(* What a step may never do. *)

\* The lead of an auction changes only to somebody who pays the margin over
\* the price so far, or the instant price; a cancellation leaves the price.
LeaderOutbids ==
  [][\A a \in Auctions :
       LET old == items[a]
           new == items'[a]
       IN  old.highest_bid # None =>
             /\ new.highest_bid # None
             /\ \/ new.highest_bid = old.highest_bid
                   /\ new.highest_bidder \in {old.highest_bidder, None}
                \/ new.highest_bid >= old.highest_bid + DecMul(old.highest_bid, Config.bid_margin)
                \/ new.highest_bid = new.instant_buy /\ new.highest_bid > old.highest_bid]_vars

\* Once its end lies in the past, nothing about an auction changes any more
\* except that it becomes resolved: no late bid, no extension, no reopening.
ClosedForever ==
  [][\A a \in Auctions :
       items[a].end_time < now =>
         items'[a] \in {items[a], [items[a] EXCEPT !.resolved = TRUE]}]_vars

\* Whoever is outbid by less than the instant price has at least
\* LAST_MINUTE_BID_EXTRA_TIME to answer.
OutbidCanAnswer ==
  [][\A a \in Auctions :
       /\ items'[a].total_bids > items[a].total_bids
       /\ items'[a].highest_bid # items[a].instant_buy
       => items'[a].end_time >= now + LAST_MINUTE_BID_EXTRA_TIME]_vars

\* A resolved auction keeps its bidder and its price.  The code does not
\* ensure this in the second of end_time.
SettledAuctionIsFinal ==
  [][\A a \in Auctions :
       items[a].resolved =>
         /\ items'[a].highest_bidder = items[a].highest_bidder
         /\ items'[a].highest_bid = items[a].highest_bid]_vars

\* But it is only in that second that a settlement can be undone: none is made
\* before, and nobody can bid or cancel afterwards.
OnlyTheLastSecondReopens ==
  [][\A a \in Auctions :
       items[a].resolved /\ SettlementStands(a) /\ items[a].end_time # now =>
         SettlementStands(a)']_vars

\* The amount that the PrivateSaleRestriction error tells a bidder to
\* register with is the amount that RegisterPrivateSale accepts.  The code
\* leaves the opening price out of the message once there is a bid.
QuotedRegistrationSuffices ==
  \A a \in Auctions : SityQuoted(items[a]) = SityRequired(items[a])

\* The creator of an auction with a bid can cancel it for the fee that the
\* CancelAuctionFee error asks for.  As instantiated the fee is zero, and no
\* message can carry a coin of amount zero.
CreatorCanCancel ==
  \A a \in Auctions :
    items[a].highest_bid # None /\ NotEnded(items[a]) =>
      ENABLED CancelAuction(items[a].creator, a, 0)

-----------------------------------------------------------------------------
(* What must eventually happen. *)

\* Every auction is settled and its NFT leaves the contract.
EveryAuctionSettles ==
  \A a \in 0 .. MaxAuctions - 1 : (a \in Auctions) ~> (a \in Auctions /\ items[a].resolved)

HasMoneyIn(u, a) == a \in Auctions /\ Total(u, a) > 0

Served(u, a) ==
  /\ a \in Auctions
  /\ \/ Total(u, a) = 0
     \/ Sold(a) /\ outcome[a].bidder = u
     \/ ~SettlementStands(a)

\* Every bidder gets the NFT or the money back, in a settlement that stands.
EveryBidderIsServed ==
  \A a \in 0 .. MaxAuctions - 1, u \in Users : HasMoneyIn(u, a) ~> Served(u, a)
=============================================================================
