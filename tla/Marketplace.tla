----------------------------- MODULE Marketplace -----------------------------
(***************************************************************************)
(* The marketplace contract (contract.rs, state.rs): the storage it keeps  *)
(* and one action per message it accepts.  A message is a transaction: the *)
(* handler runs, then the messages of its response are carried out, and    *)
(* if any of them fails nothing of the transaction remains.  An action     *)
(* below is a whole transaction that succeeds; one that fails changes      *)
(* nothing and is not a step.                                              *)
(*                                                                         *)
(* The contract is seen together with the three outside parties its        *)
(* storage has to agree with: the bank, of which only the contract's own   *)
(* balance matters; the cw20 contract of the SITY token; and the cw721     *)
(* contracts that own the NFTs.                                            *)
(*                                                                         *)
(* An operator whose comment starts with "Mutant" is the operator after it *)
(* with a plausible mistake in it.  Nothing uses it: it shows that the     *)
(* property named in PROJECT.json would notice that mistake.               *)
(***************************************************************************)
EXTENDS Pricing, Sequences, FiniteSets

CONSTANTS
  Users,              \* addresses that send messages
  Market,             \* the address of the contract itself
  Nfts,               \* NFTs: a cw721 contract and a token id
  NftOwner,           \* who owns each NFT at the start
  Cw721Minter,        \* the answer of an NFT's contract to Minter {}, None: no answer
  TalisMinter,        \* its answer to MintingInfo {}, None: no answer or no minter
  SityEndowment,      \* SITY tokens each user has at the start
  Listings,           \* the CreateAuctionNft messages that are sent
  Amounts,            \* the amounts of coins sent along with bids
  Extras,             \* amounts sent along with messages that take none
  RoyaltyFees,        \* the fees UpdateRoyalty is called with
  MIN_TIME_AUCTION,
  MAX_TIME_AUCTION,
  LAST_MINUTE_BID_EXTRA_TIME,
  ROYALTY_MAX_FEE,
  Genesis,            \* block time at the start
  MaxTime,            \* bound: the last block time
  MaxAuctions,        \* bound: auctions ever created
  MaxBids,            \* bound: bids ever accepted by one auction
  MaxStray            \* bound: coins ever sent along for nothing

ListingType ==
  [start_price : Option(Nat), start_time : Option(Nat), end_time : Nat,
   charity : Option(Decimal), instant_buy : Option(Nat),
   reserve_price : Option(Nat), private_sale : BOOLEAN]

ASSUME TimeAssumption ==
  /\ MIN_TIME_AUCTION \in Nat \ {0}
  /\ MAX_TIME_AUCTION \in Nat
  /\ LAST_MINUTE_BID_EXTRA_TIME \in Nat
  /\ Genesis \in Nat /\ Genesis >= MIN_TIME_AUCTION

ASSUME BoundAssumption ==
  MaxTime \in Nat /\ MaxAuctions \in Nat /\ MaxBids \in Nat /\ MaxStray \in Nat

\* An address is a string of bounded length, so there are finitely many.
ASSUME AddressAssumption ==
  IsFiniteSet(Users) /\ None \notin Users /\ Market \notin Users

ASSUME InputAssumption ==
  /\ Listings \subseteq ListingType
  /\ Amounts \subseteq Nat \ {0}
  /\ Extras \subseteq Nat /\ 0 \in Extras   \* nobody has to send coins along
  /\ RoyaltyFees \subseteq Decimal
  /\ ROYALTY_MAX_FEE \in Decimal

ASSUME OutsideAssumption ==
  /\ NftOwner \in [Nfts -> Users]
  /\ Cw721Minter \in [Nfts -> Option(Users)]
  /\ TalisMinter \in [Nfts -> Option(Users)]
  /\ SityEndowment \in [Users -> Nat]

ItemInfo ==
  [creator : Users, start_price : Option(Nat), start_time : Nat, end_time : Nat,
   highest_bid : Option(Nat), highest_bidder : Option(Users), nft : Nfts,
   total_bids : Nat, charity : Option(Share), instant_buy : Option(Nat),
   reserve_price : Option(Nat), private_sale : BOOLEAN, resolved : BOOLEAN]

BidInfo ==
  [bid_counter : Nat, total_bid : Nat, sity_used : Option(Nat), resolved : BOOLEAN]

HistoryBidInfo == [bidder : Users, amount : Nat, instant_buy : BOOLEAN]

RoyaltyInfo == [fee : Decimal, recipient : Users]

\* Who led an auction, at which price and after how many bids, when its NFT
\* was handed out.
Outcome == [bidder : Option(Users), price : Nat, bids : Nat, sold : BOOLEAN]

ASSUME NoneIsNoRecord ==
  None \notin BidInfo /\ None \notin RoyaltyInfo /\ None \notin Outcome

VARIABLES
  now,                \* env.block.time
  counter_items,      \* STATE.counter_items
  items,              \* ITEMS
  bids,               \* BIDS, None where the map has no entry
  histories,          \* HISTORIES, <<>> where the map has no entry
  histories_bidder,   \* HISTORIES_BIDDER, likewise
  royalty,            \* ROYALTY, None where the map has no entry
  bank,               \* the contract's balance of the configured denomination
  stray,              \* history variable: coins that came with messages that take none
  sity,               \* the users' balances of the SITY token
  nft_owner,          \* the owner each cw721 contract records
  outcome             \* history variable: the Outcome of each resolved auction

vars == << now, counter_items, items, bids, histories, histories_bidder,
           royalty, bank, stray, sity, nft_owner, outcome >>

Auctions == 0 .. counter_items - 1

TypeOK ==
  /\ now \in Nat /\ now >= Genesis
  /\ counter_items \in Nat
  /\ items \in [Auctions -> ItemInfo]
  /\ bids \in [Auctions -> [Users -> Option(BidInfo)]]
  /\ histories \in [Auctions -> Seq(HistoryBidInfo)]
  /\ histories_bidder \in [Auctions -> [Users -> Seq(HistoryBidInfo)]]
  /\ royalty \in [Users -> Option(RoyaltyInfo)]
  /\ bank \in Nat
  /\ stray \in Nat
  /\ sity \in [Users -> Nat]
  /\ nft_owner \in [Nfts -> Users \cup {Market}]
  /\ outcome \in [Auctions -> Option(Outcome)]

-----------------------------------------------------------------------------
(* The state after instantiate and the reply that stores the address of the
   SITY contract. *)
Init ==
  /\ now = Genesis
  /\ counter_items = 0
  /\ items = << >>
  /\ bids = << >>
  /\ histories = << >>
  /\ histories_bidder = << >>
  /\ royalty = [u \in Users |-> None]
  /\ bank = 0
  /\ stray = 0
  /\ sity = SityEndowment
  /\ nft_owner = NftOwner
  /\ outcome = << >>

\* The map m with an entry v for the auction that is being created.
NewEntry(m, v) == [a \in 0 .. counter_items |-> IF a = counter_items THEN v ELSE m[a]]

\* Blocks carry a time that never goes back; several transactions see the
\* same block time.
Tick ==
  /\ now < MaxTime
  /\ now' = now + 1
  /\ UNCHANGED << counter_items, items, bids, histories, histories_bidder,
                  royalty, bank, stray, sity, nft_owner, outcome >>

-----------------------------------------------------------------------------
(* ReceiveNft: an NFT sent to the contract with a CreateAuctionNft message. *)

StartOf(l) == IF l.start_time = None THEN now ELSE l.start_time

ValidTimes(l) ==
  /\ now + MIN_TIME_AUCTION <= l.end_time
  /\ l.end_time <= now + MAX_TIME_AUCTION
  /\ StartOf(l) + MIN_TIME_AUCTION < l.end_time

ValidPrices(l) ==
  /\ l.start_price # None =>
       /\ l.instant_buy # None => l.start_price < l.instant_buy
       /\ l.reserve_price # None => l.start_price <= l.reserve_price
  /\ l.instant_buy # None =>
       /\ l.instant_buy # 0
       /\ l.reserve_price # None => l.reserve_price <= l.instant_buy

ValidCharity(l) == l.charity # None => l.charity # 0 /\ l.charity <= SCALE

NewItem(u, n, l) ==
  [creator |-> u, start_price |-> l.start_price, start_time |-> StartOf(l),
   end_time |-> l.end_time, highest_bid |-> None, highest_bidder |-> None,
   nft |-> n, total_bids |-> 0, charity |-> l.charity,
   instant_buy |-> l.instant_buy, reserve_price |-> l.reserve_price,
   private_sale |-> l.private_sale, resolved |-> FALSE]

ExecuteCreateAuction(u, n, l) ==
  /\ counter_items < MaxAuctions
  /\ ValidTimes(l) /\ ValidPrices(l) /\ ValidCharity(l)
  /\ items' = NewEntry(items, NewItem(u, n, l))
  /\ bids' = NewEntry(bids, [v \in Users |-> None])
  /\ histories' = NewEntry(histories, << >>)
  /\ histories_bidder' = NewEntry(histories_bidder, [v \in Users |-> << >>])
  /\ outcome' = NewEntry(outcome, None)
  /\ counter_items' = counter_items + 1
  /\ UNCHANGED royalty

CreateAuction(u, n, l) ==
  /\ nft_owner[n] = u
  /\ ExecuteCreateAuction(u, n, l)
  /\ nft_owner' = [nft_owner EXCEPT ![n] = Market]
  /\ UNCHANGED << now, bank, stray, sity >>

-----------------------------------------------------------------------------
(* Receive: SITY sent to the contract with a RegisterPrivateSale message.
   The cw20 contract refuses to move, burn or mint an amount of zero. *)
Cw20Accepts(amount) == amount > 0

\* The balances after the contract has `amount` minted for u.
Minted(balances, u, amount) == [balances EXCEPT ![u] = @ + amount]

Started(item) == item.start_time <= now

\* Mutant: bids are taken for some minutes after the end.
NotEndedGrace(item) == now <= item.end_time + LAST_MINUTE_BID_EXTRA_TIME
NotEnded(item) == now <= item.end_time

ExecuteRegisterPrivateSale(u, a, sent) ==
  LET item == items[a]
  IN  /\ NotEnded(item) /\ Started(item)
      /\ item.creator # u
      /\ item.private_sale
      /\ sent = SityRequired(item)
      /\ bids[a][u] = None
      /\ bids' = [bids EXCEPT ![a][u] =
                    [bid_counter |-> 0, total_bid |-> 0, sity_used |-> sent,
                     resolved |-> FALSE]]
      /\ UNCHANGED << counter_items, items, histories, histories_bidder, royalty, outcome >>

RegisterPrivateSale(u, a) ==
  LET sent == SityRequired(items[a])
  IN  /\ Cw20Accepts(sent) /\ sent <= sity[u]
      /\ ExecuteRegisterPrivateSale(u, a, sent)
      /\ sity' = [sity EXCEPT ![u] = @ - sent]
      /\ UNCHANGED << now, bank, stray, nft_owner >>

-----------------------------------------------------------------------------
(* PlaceBid and InstantBuy, which arrive with exactly one coin of the
   configured denomination. *)

\* What u has at stake in auction a once `sent` is added.
BidTotal(u, a, sent) ==
  IF bids[a][u] = None THEN sent ELSE bids[a][u].total_bid + sent

\* Mutant: a new bid makes the bidder eligible for the partial reward again.
AddedBidRenewed(bid, sent) ==
  [bid_counter |-> IF bid = None THEN 1 ELSE bid.bid_counter + 1,
   total_bid |-> IF bid = None THEN sent ELSE bid.total_bid + sent,
   sity_used |-> IF bid = None THEN None ELSE bid.sity_used,
   resolved |-> FALSE]

\* Mutant: a bid forgets the registration.
AddedBidForgetful(bid, sent) ==
  [bid_counter |-> IF bid = None THEN 1 ELSE bid.bid_counter + 1,
   total_bid |-> IF bid = None THEN sent ELSE bid.total_bid + sent,
   sity_used |-> None,
   resolved |-> IF bid = None THEN FALSE ELSE bid.resolved]

\* Mutant: the counter is not carried along.
AddedBidUncounted(bid, sent) ==
  IF bid = None
  THEN [bid_counter |-> 1, total_bid |-> sent, sity_used |-> None, resolved |-> FALSE]
  ELSE [bid EXCEPT !.total_bid = bid.total_bid + sent]

AddedBid(bid, sent) ==
  IF bid = None
  THEN [bid_counter |-> 1, total_bid |-> sent, sity_used |-> None, resolved |-> FALSE]
  ELSE [bid EXCEPT !.bid_counter = bid.bid_counter + 1, !.total_bid = bid.total_bid + sent]

RecordBid(u, a, sent) == bids' = [bids EXCEPT ![a][u] = AddedBid(bids[a][u], sent)]

\* Mutant: a purchase at the instant price leaves the end where it is.
LedOpen(item, u, total, end) ==
  [item EXCEPT !.highest_bid = total, !.highest_bidder = u,
               !.total_bids = item.total_bids + 1]

\* The auction with u leading at the price `total` until `end`.
Led(item, u, total, end) ==
  [item EXCEPT !.highest_bid = total, !.highest_bidder = u,
               !.total_bids = item.total_bids + 1, !.end_time = end]

HistoryEntry(u, amount, instant) ==
  [bidder |-> u, amount |-> amount, instant_buy |-> instant]

\* Mutant: a private sale is open to everybody.
MayBidUnregistered(u, a) == items[a].creator # u

MayBid(u, a) ==
  /\ items[a].creator # u
  /\ items[a].private_sale => bids[a][u] # None

\* Mutant: the end is moved only once it has passed.
ExtendedEndLate(item) ==
  IF now > item.end_time THEN item.end_time + LAST_MINUTE_BID_EXTRA_TIME ELSE item.end_time

\* A bid in the last minutes moves the end.
ExtendedEnd(item) ==
  IF now + LAST_MINUTE_BID_EXTRA_TIME > item.end_time
  THEN item.end_time + LAST_MINUTE_BID_EXTRA_TIME
  ELSE item.end_time

PlaceBid(u, a, sent) ==
  LET item == items[a]
      total == BidTotal(u, a, sent)
      entry == HistoryEntry(u, total, FALSE)
  IN  /\ item.total_bids < MaxBids
      /\ NotEnded(item) /\ Started(item)
      /\ MayBid(u, a)
      /\ total >= MinBid(item)
      /\ item.instant_buy # None => total < item.instant_buy
      /\ items' = [items EXCEPT ![a] = Led(item, u, total, ExtendedEnd(item))]
      /\ RecordBid(u, a, sent)
      /\ histories_bidder' = [histories_bidder EXCEPT ![a][u] = Append(@, entry)]
      /\ histories' = [histories EXCEPT ![a] = Append(@, entry)]
      /\ bank' = bank + sent
      /\ UNCHANGED << now, counter_items, royalty, stray, sity, nft_owner, outcome >>

\* The first entry of an auction's history is written with the coins sent,
\* later ones with the bidder's total.
InstantBuy(u, a, sent) ==
  LET item == items[a]
      total == BidTotal(u, a, sent)
      first == histories[a] = << >>
  IN  /\ item.total_bids < MaxBids
      /\ NotEnded(item)
      /\ MayBid(u, a)
      /\ item.instant_buy # None
      /\ item.instant_buy = total
      /\ items' = [items EXCEPT ![a] = Led(item, u, total, now - MIN_TIME_AUCTION)]
      /\ RecordBid(u, a, sent)
      /\ histories_bidder' =
           [histories_bidder EXCEPT ![a][u] = Append(@, HistoryEntry(u, total, TRUE))]
      /\ histories' =
           [histories EXCEPT ![a] =
              Append(@, HistoryEntry(u, IF first THEN sent ELSE total, TRUE))]
      /\ bank' = bank + sent
      /\ UNCHANGED << now, counter_items, royalty, stray, sity, nft_owner, outcome >>

-----------------------------------------------------------------------------
(* The other handlers do not look at info.funds: the coins a caller attaches
   stay with the contract. *)
Strays(extra) == stray + extra <= MaxStray /\ stray' = stray + extra

-----------------------------------------------------------------------------
(* RetractBids: a bidder takes everything back. *)

ReserveMet(item) == OrZero(item.reserve_price) <= OrZero(item.highest_bid)

\* Mutant: reaching the reserve price exactly is not enough to be bound.
IsWinnerAbove(u, item) ==
  item.highest_bidder = u /\ OrZero(item.reserve_price) < OrZero(item.highest_bid)

\* Mutant: the winner is bound only until the auction ends.
IsWinnerWhileOpen(u, item) == item.highest_bidder = u /\ ReserveMet(item) /\ NotEnded(item)

\* Mutant: the highest bidder is bound even below the reserve price.
IsWinnerUnreserved(u, item) == item.highest_bidder = u

\* The bidder the auction is going to.
IsWinner(u, item) == item.highest_bidder = u /\ ReserveMet(item)

\* A loser of an auction whose reserve price was passed is rewarded, once.
EarnsPartialReward(u, a) ==
  /\ ~bids[a][u].resolved
  /\ OrZero(items[a].reserve_price) < OrZero(items[a].highest_bid)

PartialReward(u, a) == DecMul(bids[a][u].total_bid, Config.sity_partial_rewards)

ExecuteRetractBids(u, a) ==
  LET bid == bids[a][u]
  IN  /\ bid # None
      /\ ~IsWinner(u, items[a])
      /\ bid.total_bid # 0
      /\ bids' = [bids EXCEPT ![a][u] = [bid EXCEPT !.total_bid = 0, !.resolved = TRUE]]
      /\ UNCHANGED << counter_items, items, histories, histories_bidder, royalty, outcome >>

RetractBids(u, a, extra) ==
  LET refund == bids[a][u].total_bid
  IN  /\ ExecuteRetractBids(u, a)
      /\ Sendable(refund) /\ Outflow(refund) <= bank + extra
      /\ EarnsPartialReward(u, a) => Cw20Accepts(PartialReward(u, a))
      /\ sity' = IF EarnsPartialReward(u, a)
                 THEN Minted(sity, u, PartialReward(u, a))
                 ELSE sity
      /\ bank' = bank + extra - Outflow(refund)
      /\ Strays(extra)
      /\ UNCHANGED << now, nft_owner >>

-----------------------------------------------------------------------------
(* WithdrawNft: anybody settles an auction that has ended. *)

MinterOf(n) == IF Cw721Minter[n] # None THEN Cw721Minter[n] ELSE TalisMinter[n]

\* The minter's fee, read when the auction is settled.
RoyaltyOf(n) ==
  IF MinterOf(n) = None \/ royalty[MinterOf(n)] = None
  THEN 0
  ELSE royalty[MinterOf(n)].fee

\* Mutant: nobody looks at the reserve price.
NewOwnerUnreserved(item) ==
  IF item.highest_bidder = None THEN item.creator ELSE item.highest_bidder

\* Mutant: an auction without a bidder is taken to have one.
NewOwnerUnchecked(item) == IF ReserveMet(item) THEN item.highest_bidder ELSE item.creator

NewOwner(item) ==
  IF item.highest_bidder = None \/ ~ReserveMet(item)
  THEN item.creator
  ELSE item.highest_bidder

FullReward(item) == DecMul(OrZero(item.highest_bid), Config.sity_full_rewards)

\* Mutant: shares of zero are sent as well.
PayoutsGoThroughAll(paid, balance) ==
  /\ \A k \in 1 .. 4 : Sendable(paid[k])
  /\ Outflow(paid[1]) + Outflow(paid[2]) + Outflow(paid[3]) + Outflow(paid[4]) <= balance

\* Creator, minter, LOTA and charity are sent their shares, in this order,
\* except for shares of zero.
PayoutsGoThrough(paid, balance) ==
  /\ \A k \in 1 .. 4 : paid[k] # 0 => Sendable(paid[k])
  /\ Outflow(paid[1]) + Outflow(paid[2]) + Outflow(paid[3]) + Outflow(paid[4]) <= balance

\* Mutant: an auction can be settled in the second before its end.
EndedEarly(item) == now + 1 >= item.end_time

Ended(item) == now >= item.end_time

\* Mutant: an auction can be settled again.
MaySettleAgain(item) == Ended(item)

MaySettle(item) == ~item.resolved /\ Ended(item)

IsSale(item) == NewOwner(item) # item.creator

ExecuteWithdrawNft(a) ==
  LET item == items[a]
  IN  /\ MaySettle(item)
      /\ FeesFit(item, RoyaltyOf(item.nft))
      /\ items' = [items EXCEPT ![a] = [item EXCEPT !.resolved = TRUE]]
      /\ outcome' = [outcome EXCEPT ![a] =
                       [bidder |-> item.highest_bidder, price |-> OrZero(item.highest_bid),
                        bids |-> item.total_bids, sold |-> IsSale(item)]]
      /\ UNCHANGED << counter_items, bids, histories, histories_bidder, royalty >>

WithdrawNft(a, extra) ==
  LET item == items[a]
      to == NewOwner(item)
      sold == IsSale(item)
      paid == Payouts(item, RoyaltyOf(item.nft))
      reward == FullReward(item)
  IN  /\ ExecuteWithdrawNft(a)
      /\ nft_owner[item.nft] = Market
      /\ sold => PayoutsGoThrough(paid, bank + extra) /\ Cw20Accepts(reward)
      /\ nft_owner' = [nft_owner EXCEPT ![item.nft] = to]
      /\ sity' = IF sold
                 THEN Minted(Minted(sity, item.creator, reward), to, reward)
                 ELSE sity
      /\ bank' = IF sold
                 THEN bank + extra - (Outflow(paid[1]) + Outflow(paid[2])
                                      + Outflow(paid[3]) + Outflow(paid[4]))
                 ELSE bank + extra
      /\ Strays(extra)
      /\ UNCHANGED now

-----------------------------------------------------------------------------
(* CancelAuction: the creator gives up the sale, for a fee once there is a
   bid; half of it goes to the highest bidder. *)

CancelFeeGoesThrough(item, fee) ==
  IF item.highest_bidder # None
  THEN Sendable(Half(fee)) /\ Outflow(Half(fee)) + Outflow(Half(fee)) <= bank + fee
  ELSE Sendable(fee) /\ Outflow(fee) <= bank + fee

\* Mutant: only one half of the fee is passed on.
AfterCancelFeeHalf(item, fee) == bank + fee - Outflow(Half(fee))

AfterCancelFee(item, fee) ==
  IF item.highest_bidder # None
  THEN bank + fee - (Outflow(Half(fee)) + Outflow(Half(fee)))
  ELSE bank + fee - Outflow(fee)

\* Mutant: the auction ends now, which still allows bids in this second.
CancelledNow(item) == [item EXCEPT !.end_time = now, !.highest_bidder = None]

Cancelled(item) ==
  [item EXCEPT !.end_time = now - MIN_TIME_AUCTION, !.highest_bidder = None]

\* The fee has to be exact; where there is none, info.funds is not looked at.
ExecuteCancelAuction(u, a, sent) ==
  /\ NotEnded(items[a])
  /\ items[a].creator = u
  /\ items[a].highest_bid # None => BankAccepts(sent) /\ sent = CancellationFee(items[a])
  /\ items' = [items EXCEPT ![a] = Cancelled(items[a])]
  /\ UNCHANGED << counter_items, bids, histories, histories_bidder, royalty, outcome >>

CancelAuction(u, a, extra) ==
  LET item == items[a]
      charged == item.highest_bid # None
      fee == IF charged THEN CancellationFee(item) ELSE extra
  IN  /\ ExecuteCancelAuction(u, a, fee)
      /\ charged => CancelFeeGoesThrough(item, fee) /\ extra = 0
      /\ bank' = IF charged THEN AfterCancelFee(item, fee) ELSE bank + extra
      /\ Strays(extra)
      /\ UNCHANGED << now, sity, nft_owner >>

-----------------------------------------------------------------------------
(* UpdateRoyalty: the fee a minter asks for; without a recipient it goes to
   the one recorded before, or else to the minter. *)
UpdateRoyalty(u, fee, recipient, extra) ==
  /\ fee <= ROYALTY_MAX_FEE
  /\ royalty' =
       [royalty EXCEPT ![u] =
          [fee |-> fee,
           recipient |-> IF recipient # None THEN recipient
                         ELSE IF @ = None THEN u ELSE @.recipient]]
  /\ bank' = bank + extra
  /\ Strays(extra)
  /\ UNCHANGED << now, counter_items, items, bids, histories, histories_bidder,
                  sity, nft_owner, outcome >>

-----------------------------------------------------------------------------
Next ==
  \/ Tick
  \/ \E u \in Users, n \in Nfts, l \in Listings : CreateAuction(u, n, l)
  \/ \E u \in Users, a \in Auctions : RegisterPrivateSale(u, a)
  \/ \E u \in Users, a \in Auctions, sent \in Amounts : PlaceBid(u, a, sent)
  \/ \E u \in Users, a \in Auctions, sent \in Amounts : InstantBuy(u, a, sent)
  \/ \E u \in Users, a \in Auctions, extra \in Extras : RetractBids(u, a, extra)
  \/ \E a \in Auctions, extra \in Extras : WithdrawNft(a, extra)
  \/ \E u \in Users, a \in Auctions, extra \in Extras : CancelAuction(u, a, extra)
  \/ \E u \in Users, fee \in RoyaltyFees, r \in Option(Users), extra \in Extras :
       UpdateRoyalty(u, fee, r, extra)

Spec == Init /\ [][Next]_vars

\* Blocks keep coming; every auction that has ended is settled by somebody,
\* its creator or winner if nobody else; every bidder who can takes the bid
\* back in the end.
Fairness ==
  /\ WF_vars(Tick)
  /\ \A a \in 0 .. MaxAuctions - 1 :
       /\ WF_vars(a \in Auctions /\ WithdrawNft(a, 0))
       /\ \A u \in Users : WF_vars(a \in Auctions /\ RetractBids(u, a, 0))

FairSpec == Spec /\ Fairness
=============================================================================
