----------------------------- MODULE MoneyProofs -----------------------------
(***************************************************************************)
(* That the contract can pay everybody it owes something and keeps nothing *)
(* else, and that it does not mint too many rewards, for any number of     *)
(* users and auctions and for every configuration: sums over all auctions. *)
(***************************************************************************)
EXTENDS AuctionProofs

-----------------------------------------------------------------------------
(* Settlements. *)

\* What is remembered of a settlement of auction a fits the auction: it was
\* made once, bids came after it or none did, and if none did the price is
\* still the one that was paid out.
OutcomeKept(a) ==
  IF outcome[a] = None
  THEN ~items[a].resolved
  ELSE /\ items[a].resolved
       /\ items[a].total_bids >= outcome[a].bids
       /\ items[a].total_bids = outcome[a].bids =>
            /\ items[a].highest_bidder \in {outcome[a].bidder, None}
            /\ OrZero(items[a].highest_bid) = outcome[a].price

OutcomesKept == \A a \in Auctions : OutcomeKept(a)

\* What a step does to an auction that it does not settle: a bid is counted,
\* or the lead and the end stay or are given up.
LeadMoves(a) ==
  /\ items'[a].resolved = items[a].resolved
  /\ \/ items'[a].total_bids > items[a].total_bids
     \/ /\ items'[a].total_bids = items[a].total_bids
        /\ items'[a].highest_bid = items[a].highest_bid
        /\ items'[a].highest_bidder \in {items[a].highest_bidder, None}
        /\ items'[a].end_time \in {items[a].end_time, now - MIN_TIME_AUCTION}

\* Such a step keeps what is remembered of a settlement, and does not restore
\* a settlement that no longer stands.
LEMMA OutcomeCarried ==
  ASSUME TypeOK, TypeOK', NEW a \in Auctions, a \in Auctions', OutcomeKept(a),
         outcome'[a] = outcome[a], LeadMoves(a)
  PROVE  OutcomeKept(a)' /\ (SettlementStands(a)' => SettlementStands(a))
<1>1. items[a].total_bids \in Nat /\ items'[a].total_bids \in Nat
  BY DEF TypeOK, ItemInfo
<1>2. outcome[a] # None => outcome[a].bids \in Nat
  BY DEF TypeOK, Outcome, Option
<1> QED
  BY <1>1, <1>2 DEF OutcomeKept, SettlementStands, LeadMoves

\* Every step but the settlement of a itself moves the lead of a like that.
LEMMA AuctionMoves ==
  ASSUME TypeOK, [Next]_vars, NEW b \in Auctions
  PROVE  /\ b \in Auctions'
         /\ \/ outcome'[b] = outcome[b] /\ LeadMoves(b)
            \/ \E extra \in Extras : WithdrawNft(b, extra)
<1> DEFINE Fine == /\ b \in Auctions'
                   /\ \/ outcome'[b] = outcome[b] /\ LeadMoves(b)
                      \/ \E extra \in Extras : WithdrawNft(b, extra)
<1>0. items[b].total_bids \in Nat
  BY DEF TypeOK, ItemInfo
<1>1. ASSUME b \in Auctions', outcome'[b] = outcome[b], items'[b] = items[b]
      PROVE  Fine
  BY <1>1 DEF LeadMoves
<1>2. ASSUME NEW u \in Users, NEW n \in Nfts, NEW l \in Listings, CreateAuction(u, n, l)
      PROVE  Fine
  <2>1. outcome' = NewEntry(outcome, None) /\ counter_items \in Nat
    BY <1>2 DEF CreateAuction, ExecuteCreateAuction, TypeOK
  <2>2. outcome'[b] = outcome[b]
    BY <2>1 DEF NewEntry, Auctions
  <2> QED
    BY <1>1, <1>2, <2>2, CreateAuctionEffect
<1>3. ASSUME NEW u \in Users, NEW a \in Auctions, NEW sent \in Amounts,
             PlaceBid(u, a, sent) \/ InstantBuy(u, a, sent)
      PROVE  Fine
  <2>1. Auctions' = Auctions /\ outcome' = outcome
    BY <1>3, BidEffect DEF PlaceBid, InstantBuy
  <2>2. CASE b = a
    <3>1. items'[a].total_bids = items[a].total_bids + 1
      BY <1>3, BidKeepsTerms
    <3>2. items'[a].resolved = items[a].resolved
      BY <1>3, BidEffect
    <3> QED
      BY <1>0, <2>1, <2>2, <3>1, <3>2 DEF LeadMoves
  <2>3. CASE b # a
    <3>1. items'[b] = items[b]
      BY <1>3, <2>3, BidEffect
    <3> QED
      BY <1>1, <2>1, <3>1
  <2> QED
    BY <2>2, <2>3
<1>4. ASSUME NEW a \in Auctions, NEW extra \in Extras, WithdrawNft(a, extra)
      PROVE  Fine
  <2>1. Auctions' = Auctions
    BY <1>4, SameAuctions DEF WithdrawNft, ExecuteWithdrawNft
  <2>2. CASE b = a
    BY <1>4, <2>1, <2>2
  <2>3. CASE b # a
    <3>1. items'[b] = items[b]
      BY <1>4, <2>3, WithdrawNftEffect
    <3>2. outcome'[b] = outcome[b]
      BY <1>4, <2>3 DEF WithdrawNft, ExecuteWithdrawNft, TypeOK
    <3> QED
      BY <1>1, <2>1, <3>1, <3>2
  <2> QED
    BY <2>2, <2>3
<1>5. ASSUME NEW u \in Users, NEW a \in Auctions, NEW extra \in Extras,
             CancelAuction(u, a, extra)
      PROVE  Fine
  <2>1. Auctions' = Auctions /\ outcome' = outcome
    BY <1>5, SameAuctions DEF CancelAuction, ExecuteCancelAuction
  <2>2. CASE b = a
    <3>1. /\ items'[a] = [items[a] EXCEPT !.end_time = now - MIN_TIME_AUCTION,
                                          !.highest_bidder = None]
          /\ items[a] \in ItemInfo
      BY <1>5, CancelAuctionEffect DEF TypeOK
    <3>2. /\ items'[a].resolved = items[a].resolved
          /\ items'[a].end_time = now - MIN_TIME_AUCTION
      BY <3>1 DEF ItemInfo
    <3> QED
      BY <1>5, <2>1, <2>2, <3>2, CancellationKeepsAll DEF LeadMoves
  <2>3. CASE b # a
    <3>1. items'[b] = items[b]
      BY <1>5, <2>3, CancelAuctionEffect
    <3> QED
      BY <1>1, <2>1, <3>1
  <2> QED
    BY <2>2, <2>3
<1>6. CASE QuietStep
  BY <1>1, <1>6, QuietStepEffect
<1> QED
  BY <1>2, <1>3, <1>4, <1>5, <1>6 DEF Next, QuietStep

\* A settlement records the auction as it is.
LEMMA SettlementKept ==
  ASSUME TypeOK, NEW a \in Auctions, NEW extra \in Extras, WithdrawNft(a, extra)
  PROVE  /\ outcome'[a] # None
         /\ outcome'[a].bidder = items[a].highest_bidder
         /\ outcome'[a].sold = IsSale(items[a])
         /\ OutcomeKept(a)'
<1> DEFINE item == items[a]
           o == [bidder |-> item.highest_bidder, price |-> OrZero(item.highest_bid),
                 bids |-> item.total_bids, sold |-> IsSale(item)]
<1>1. item \in ItemInfo /\ item.total_bids \in Nat
  BY DEF TypeOK, ItemInfo
<1>2. outcome'[a] = o
  BY DEF WithdrawNft, ExecuteWithdrawNft, TypeOK
<1>3. o \in Outcome
  BY <1>1, OptionNat DEF Outcome, ItemInfo, IsSale
<1>4. o # None
  BY <1>3, NoneIsNoRecord
<1>5. items'[a] = [item EXCEPT !.resolved = TRUE]
  BY WithdrawNftEffect
<1>6. /\ items'[a].resolved /\ items'[a].total_bids = item.total_bids
      /\ items'[a].highest_bidder = item.highest_bidder
      /\ items'[a].highest_bid = item.highest_bid
  BY <1>1, <1>5 DEF ItemInfo
<1>7. /\ o.bidder = item.highest_bidder /\ o.price = OrZero(item.highest_bid)
      /\ o.bids = item.total_bids /\ o.sold = IsSale(item)
  OBVIOUS
<1> HIDE DEF o, item
<1>8. OutcomeKept(a)'
  BY <1>1, <1>2, <1>4, <1>6, <1>7 DEF OutcomeKept
<1> QED
  BY <1>2, <1>4, <1>7, <1>8 DEF item

\* Only an auction that was not settled before is settled.
LEMMA SettledOnce ==
  ASSUME OutcomesKept, NEW a \in Auctions, NEW extra \in Extras, WithdrawNft(a, extra)
  PROVE  outcome[a] = None
  BY DEF OutcomesKept, OutcomeKept, WithdrawNft, ExecuteWithdrawNft, MaySettle

\* An auction comes into being unsettled.
LEMMA NewIsUnsettled ==
  ASSUME TypeOK, [Next]_vars, NEW b \in Auctions', b \notin Auctions
  PROVE  outcome'[b] = None /\ ~items'[b].resolved
<1>1. PICK u \in Users, n \in Nfts, l \in Listings : CreateAuction(u, n, l)
  <2>1. Auctions' # Auctions
    OBVIOUS
  <2>2. ~QuietStep
    BY <2>1, QuietStepEffect
  <2>3. \A u \in Users, a \in Auctions, sent \in Amounts :
          ~PlaceBid(u, a, sent) /\ ~InstantBuy(u, a, sent)
    BY <2>1, BidEffect
  <2>4. \A u \in Users, a \in Auctions, extra \in Extras : ~CancelAuction(u, a, extra)
    BY <2>1, SameAuctions DEF CancelAuction, ExecuteCancelAuction
  <2>5. \A a \in Auctions, extra \in Extras : ~WithdrawNft(a, extra)
    BY <2>1, SameAuctions DEF WithdrawNft, ExecuteWithdrawNft
  <2> QED
    BY <2>2, <2>3, <2>4, <2>5 DEF Next, QuietStep
<1>2. b = counter_items /\ items'[b] = NewItem(u, n, l) /\ counter_items \in Nat
  BY <1>1, CreateAuctionEffect
<1>3. outcome' = NewEntry(outcome, None)
  BY <1>1 DEF CreateAuction, ExecuteCreateAuction
<1>4. outcome'[b] = None
  BY <1>2, <1>3 DEF NewEntry
<1>5. ~items'[b].resolved
  BY <1>2 DEF NewItem
<1> QED
  BY <1>4, <1>5

\* What is remembered of the settlements stays right, and a settlement that
\* stands after a step stood before it.
LEMMA OutcomesKeptStep ==
  ASSUME TypeOK, OutcomesKept, [Next]_vars
  PROVE  /\ OutcomesKept'
         /\ \A b \in Auctions : b \in Auctions' /\ (SettlementStands(b)' => SettlementStands(b))
<1>1. TypeOK'
  BY NextTypeOK
<1>2. ASSUME NEW b \in Auctions
      PROVE  b \in Auctions' /\ OutcomeKept(b)' /\ (SettlementStands(b)' => SettlementStands(b))
  <2>1. OutcomeKept(b) /\ b \in Auctions'
    BY AuctionMoves DEF OutcomesKept
  <2>2. CASE outcome'[b] = outcome[b] /\ LeadMoves(b)
    BY <1>1, <2>1, <2>2, OutcomeCarried
  <2>3. CASE \E extra \in Extras : WithdrawNft(b, extra)
    <3>1. outcome[b] = None
      BY <2>3, SettledOnce
    <3> QED
      BY <2>1, <2>3, <3>1, SettlementKept DEF SettlementStands
  <2> QED
    BY <2>2, <2>3, AuctionMoves
<1>3. ASSUME NEW b \in Auctions', b \notin Auctions PROVE OutcomeKept(b)'
  BY <1>3, NewIsUnsettled DEF OutcomeKept
<1> QED
  BY <1>2, <1>3 DEF OutcomesKept

\* OutcomesKept is an invariant of the marketplace.
LEMMA OutcomesKeptAlways == Spec => []OutcomesKept
<1>1. Init => OutcomesKept
  BY DEF Init, OutcomesKept, Auctions
<1>2. TypeOK /\ OutcomesKept /\ [Next]_vars => OutcomesKept'
  BY OutcomesKeptStep
<1> QED
  BY <1>1, <1>2, TypeCorrect, PTL DEF Spec

\* A settlement that stands was not made before the end of its auction.
SettledInTime ==
  \A a \in Auctions : outcome[a] # None /\ SettlementStands(a) => items[a].end_time <= now

\* No step changes that: the end moves only with a bid, and then the
\* settlement does not stand any more, or into the past.
LEMMA SettledInTimeStep ==
  ASSUME TypeOK, OutcomesKept, SettledInTime, [Next]_vars
  PROVE  SettledInTime'
<1>1. SUFFICES ASSUME NEW b \in Auctions', outcome'[b] # None, SettlementStands(b)'
               PROVE  items'[b].end_time <= now'
  BY DEF SettledInTime
<1>2. TypeOK' /\ now \in Nat /\ now' \in Nat /\ now <= now'
  <2>1. TypeOK'
    BY NextTypeOK
  <2> QED
    BY <2>1, TimeAdvances DEF TypeOK
<1>3. b \in Auctions
  <2>1. SUFFICES ASSUME b \notin Auctions PROVE FALSE
    OBVIOUS
  <2>2. outcome'[b] = None
    BY <2>1, NewIsUnsettled
  <2> QED
    BY <1>1, <2>2
<1>4. items[b].end_time \in Nat /\ items[b].total_bids \in Nat
  BY <1>3 DEF TypeOK, ItemInfo
<1>5. CASE outcome'[b] = outcome[b] /\ LeadMoves(b)
  <2>1. SettlementStands(b) /\ items[b].end_time <= now
    BY <1>1, <1>3, <1>5, OutcomesKeptStep DEF SettledInTime
  <2>2. items[b].total_bids = outcome[b].bids /\ items'[b].total_bids = outcome[b].bids
    BY <1>1, <1>5, <2>1 DEF SettlementStands
  <2>3. items'[b].end_time \in {items[b].end_time, now - MIN_TIME_AUCTION}
    BY <1>4, <1>5, <2>2 DEF LeadMoves
  <2> QED
    BY <1>2, <1>4, <2>1, <2>3, TimeAssumption
<1>6. CASE \E extra \in Extras : WithdrawNft(b, extra)
  <2>1. Ended(items[b]) /\ items'[b] = [items[b] EXCEPT !.resolved = TRUE]
        /\ items[b] \in ItemInfo
    BY <1>3, <1>6, WithdrawNftEffect
       DEF WithdrawNft, ExecuteWithdrawNft, MaySettle, TypeOK
  <2>2. items'[b].end_time = items[b].end_time
    BY <2>1 DEF ItemInfo
  <2> QED
    BY <1>2, <1>4, <2>1, <2>2 DEF Ended
<1> QED
  BY <1>3, <1>5, <1>6, AuctionMoves

\* It holds from the start.
LEMMA SettledInTimeAlways == Spec => []SettledInTime
<1>1. Init => SettledInTime
  BY DEF Init, SettledInTime, Auctions
<1>2. TypeOK /\ OutcomesKept /\ SettledInTime /\ [Next]_vars => SettledInTime'
  BY SettledInTimeStep
<1> QED
  BY <1>1, <1>2, TypeCorrect, OutcomesKeptAlways, PTL DEF Spec

\* Outside of the second of its end a settlement that stands is not undone.
LEMMA SettlementStays ==
  ASSUME TypeOK, OutcomesKept, SettledInTime, [Next]_vars, NEW b \in Auctions,
         items[b].resolved, SettlementStands(b), items[b].end_time # now
  PROVE  SettlementStands(b)'
<1>1. items[b] \in ItemInfo /\ items[b].end_time \in Nat /\ now \in Nat
  BY DEF TypeOK, ItemInfo
<1>2. outcome[b] # None
  BY DEF OutcomesKept, OutcomeKept
<1>3. items[b].end_time < now
  BY <1>1, <1>2 DEF SettledInTime
<1>4. items'[b] \in {items[b], [items[b] EXCEPT !.resolved = TRUE]}
  BY <1>3, ClosedForeverStep
<1>5. /\ items'[b].highest_bidder = items[b].highest_bidder
      /\ items'[b].total_bids = items[b].total_bids
  BY <1>1, <1>4 DEF ItemInfo
<1>6. outcome'[b] = outcome[b]
  BY <1>2, AuctionMoves, SettledOnce
<1> QED
  BY <1>5, <1>6 DEF SettlementStands

\* The gap between withdraw_nft, which is accepted from the second of end_time
\* on, and place_bid, instant_buy and cancel_auction, which are accepted up to
\* it, is one second wide: at any other time a settlement stands for good, in
\* every configuration and whatever bids have moved the end before.
THEOREM OnlyTheLastSecondReopensAlways == Spec => OnlyTheLastSecondReopens
<1>1. TypeOK /\ OutcomesKept /\ SettledInTime /\ [Next]_vars =>
        \A a \in Auctions :
          items[a].resolved /\ SettlementStands(a) /\ items[a].end_time # now =>
            SettlementStands(a)'
  BY SettlementStays
<1> QED
  BY <1>1, TypeCorrect, OutcomesKeptAlways, SettledInTimeAlways, PTL
     DEF Spec, OnlyTheLastSecondReopens

-----------------------------------------------------------------------------
(* The sum of everything that is owed. *)

Stands == \A a \in Auctions : SettlementStands(a)

OwedTable == [e \in Auctions \X Users |-> Owed(e[1], e[2])]

\* What a bidder is owed is an amount.
LEMMA OwedNat ==
  ASSUME TypeOK, NEW a \in Auctions, NEW u \in Users
  PROVE  Owed(a, u) \in Nat
  BY TotalNat DEF Owed

\* All of it together is an integer, and is the sum of the table.
OwedSum ==
  /\ IsFiniteSet(Auctions) /\ IsFiniteSet(Auctions \X Users)
  /\ AllOwed = SumFunctionOnSet(OwedTable, Auctions \X Users)
  /\ \A e \in Auctions \X Users : OwedTable[e] \in Int
  /\ AllOwed \in Int

\* So it is in every well-typed state.
LEMMA AllOwedSum == TypeOK => OwedSum
<1> SUFFICES ASSUME TypeOK PROVE OwedSum
  OBVIOUS
<1>1. IsFiniteSet(Auctions)
  BY FS_Interval DEF TypeOK, Auctions
<1>2. IsFiniteSet(Auctions \X Users)
  BY <1>1, FS_Product, AddressAssumption
<1>3. AllOwed = SumFunctionOnSet(OwedTable, Auctions \X Users)
  BY DEF AllOwed, SumFunction, OwedTable
<1>4. \A e \in Auctions \X Users : OwedTable[e] \in Int
  BY OwedNat DEF OwedTable
<1> QED
  BY <1>1, <1>2, <1>3, <1>4, SumTake DEF OwedSum

\* It stays as it is when everybody is owed what they were.
LEMMA AllOwedSame ==
  ASSUME Auctions' = Auctions, \A a \in Auctions, u \in Users : Owed(a, u)' = Owed(a, u)
  PROVE  AllOwed' = AllOwed
<1>1. [e \in Auctions' \X Users |-> Owed(e[1], e[2])']
        = [e \in Auctions \X Users |-> Owed(e[1], e[2])]
  OBVIOUS
<1> QED
  BY <1>1 DEF AllOwed

\* It moves with what one bidder is owed in one auction.
LEMMA AllOwedMoves ==
  ASSUME TypeOK, TypeOK', Auctions' = Auctions, NEW a \in Auctions, NEW u \in Users,
         \A b \in Auctions, v \in Users : b # a \/ v # u => Owed(b, v)' = Owed(b, v)
  PROVE  AllOwed' = AllOwed - Owed(a, u) + Owed(a, u)'
<1> DEFINE D == Auctions \X Users
           new == OwedTable'
<1>1. /\ IsFiniteSet(D) /\ AllOwed = SumFunctionOnSet(OwedTable, D)
      /\ \A e \in D : OwedTable[e] \in Int
  BY AllOwedSum DEF OwedSum
<1>2. AllOwed' = SumFunctionOnSet(new, D) /\ \A e \in D : new[e] \in Int
  <2>1. OwedSum'
    BY AllOwedSum, PTL
  <2> QED
    BY <2>1 DEF OwedSum
<1>3. << a, u >> \in D /\ OwedTable[<< a, u >>] = Owed(a, u)
      /\ new[<< a, u >>] = Owed(a, u)'
  BY DEF OwedTable
<1>4. \A e \in D \ {<< a, u >>} : OwedTable[e] = new[e]
  BY DEF OwedTable
<1> HIDE DEF D, new
<1>5. SumFunctionOnSet(new, D)
        = SumFunctionOnSet(OwedTable, D) - OwedTable[<< a, u >>] + new[<< a, u >>]
  BY <1>1, <1>2, <1>3, <1>4, SumUpdate
<1> QED
  BY <1>1, <1>2, <1>3, <1>5

\* A new auction owes nothing.
LEMMA AllOwedCreate ==
  ASSUME TypeOK, TypeOK', NEW u \in Users, NEW n \in Nfts, NEW l \in Listings,
         CreateAuction(u, n, l)
  PROVE  AllOwed' = AllOwed
<1> DEFINE D == Auctions \X Users
           E == Auctions' \X Users
           new == OwedTable'
<1>0. PICK c \in Nat : c = counter_items
  BY DEF TypeOK
<1>1. /\ Auctions' = Auctions \cup {c}
      /\ \A b \in Auctions : bids'[b] = bids[b]
      /\ bids'[c] = [v \in Users |-> None]
      /\ outcome' = NewEntry(outcome, None)
  BY <1>0, CreateAuctionEffect DEF CreateAuction, ExecuteCreateAuction
<1>2. outcome'[c] = None /\ \A b \in Auctions : outcome'[b] = outcome[b]
  BY <1>0, <1>1 DEF NewEntry, Auctions
<1>3. \A b \in Auctions, v \in Users : Owed(b, v)' = Owed(b, v)
  BY <1>1, <1>2 DEF Owed, Sold, Total
<1>4. \A v \in Users : Owed(c, v)' = 0
  BY <1>1, <1>2 DEF Owed, Sold, Total
<1>5. IsFiniteSet(D) /\ AllOwed = SumFunctionOnSet(OwedTable, D)
  BY AllOwedSum DEF OwedSum
<1>6. IsFiniteSet(E) /\ AllOwed' = SumFunctionOnSet(new, E) /\ \A e \in E : new[e] \in Int
  <2>1. OwedSum'
    BY AllOwedSum, PTL
  <2> QED
    BY <2>1 DEF OwedSum
<1>7. D \in SUBSET E /\ \A e \in E \ D : new[e] = 0
  BY <1>1, <1>4 DEF OwedTable
<1>8. \A e \in D : OwedTable[e] = new[e]
  BY <1>1, <1>3 DEF OwedTable
<1> HIDE DEF D, E, new
<1>9. SumFunctionOnSet(new, E) = SumFunctionOnSet(new, D)
  BY <1>6, <1>7, SumZeros
<1>10. SumFunctionOnSet(new, D) = SumFunctionOnSet(OwedTable, D)
  BY <1>5, <1>8, SumAgree
<1> QED
  BY <1>5, <1>6, <1>9, <1>10

-----------------------------------------------------------------------------
(* What the contract has beyond what it owes. *)

Surplus == bank - stray - AllOwed

\* A step that never makes it smaller, and where transfers are not taxed
\* leaves it as it is.
SurplusKept == Surplus <= Surplus' /\ (TaxRate = 0 => Surplus' = Surplus)

\* Without a tax a transfer costs what it carries.
LEMMA UntaxedOutflow ==
  ASSUME TaxRate = 0, NEW g \in Nat
  PROVE  Outflow(g) = g
  BY TaxTerms, TaxParameters, NoTaxIsFree DEF Outflow

\* Paying out an amount costs at most the amount, and without a tax exactly
\* that.
LEMMA PayingOut ==
  ASSUME NEW g \in Nat
  PROVE  Outflow(g) \in Nat /\ Outflow(g) <= g /\ (TaxRate = 0 => Outflow(g) = g)
  BY OutflowCovered, UntaxedOutflow

\* The parts of a surplus are integers.
LEMMA SurplusParts ==
  ASSUME TypeOK
  PROVE  bank \in Nat /\ stray \in Nat /\ AllOwed \in Int
  BY AllOwedSum DEF TypeOK, OwedSum

\* Coins that come in by mistake count on both sides.
LEMMA StrayCoins ==
  ASSUME TypeOK, NEW extra \in Nat, bank' = bank + extra, stray' = stray + extra,
         AllOwed' = AllOwed
  PROVE  SurplusKept
  BY SurplusParts DEF SurplusKept, Surplus

\* The steps that leave bids and outcomes alone do not change what is owed.
LEMMA OwedUntouched ==
  ASSUME UNCHANGED << counter_items, bids, outcome >>
  PROVE  AllOwed' = AllOwed
<1>1. Auctions' = Auctions
  BY SameAuctions
<1>2. \A a \in Auctions, u \in Users : Owed(a, u)' = Owed(a, u)
  BY DEF Owed, Sold, Total
<1> QED
  BY <1>1, <1>2, AllOwedSame

\* place_bid and instant_buy: the coins come in and are owed.
LEMMA BidSurplus ==
  ASSUME TypeOK, OutcomesKept, Stands', NEW u \in Users, NEW a \in Auctions,
         NEW sent \in Amounts, PlaceBid(u, a, sent) \/ InstantBuy(u, a, sent)
  PROVE  SurplusKept
<1>1. TypeOK' /\ sent \in Nat
  BY PlaceBidType, InstantBuyType, InputAssumption
<1>2. /\ Auctions' = Auctions /\ Total(u, a)' = Total(u, a) + sent
      /\ \A b \in Auctions, v \in Users : b # a \/ v # u => bids'[b][v] = bids[b][v]
  BY BidEffect, BidTotalAdds
<1>3. outcome' = outcome /\ bank' = bank + sent /\ stray' = stray
  BY DEF PlaceBid, InstantBuy
<1>4. outcome[a] = None
  <2>1. items'[a].total_bids = items[a].total_bids + 1
    BY BidKeepsTerms
  <2>2. outcome[a] # None =>
          /\ items[a].total_bids >= outcome[a].bids /\ items[a].total_bids \in Nat
          /\ outcome[a].bids \in Nat
    BY DEF OutcomesKept, OutcomeKept, TypeOK, ItemInfo, Outcome, Option
  <2>3. outcome[a] = None \/ items'[a].total_bids = outcome[a].bids
    BY <1>2, <1>3 DEF Stands, SettlementStands
  <2> QED
    BY <2>1, <2>2, <2>3
<1>5. Owed(a, u) = Total(u, a) /\ Owed(a, u)' = Total(u, a) + sent
  BY <1>2, <1>3, <1>4 DEF Owed, Sold
<1>6. \A b \in Auctions, v \in Users : b # a \/ v # u => Owed(b, v)' = Owed(b, v)
  BY <1>2, <1>3 DEF Owed, Sold, Total
<1>7. AllOwed' = AllOwed - Owed(a, u) + Owed(a, u)'
  BY <1>1, <1>2, <1>6, AllOwedMoves
<1>8. Total(u, a) \in Nat
  BY TotalNat
<1> QED
  BY <1>1, <1>3, <1>5, <1>7, <1>8, SurplusParts DEF SurplusKept, Surplus

\* retract_bids: at most the bids go out, and they are no longer owed.  The
\* buyer of the NFT is bound, so that nobody takes bids back that were spent.
LEMMA RefundSurplus ==
  ASSUME TypeOK, OutcomesKept, SoldOnTheCreatorsTerms, Stands', NEW u \in Users,
         NEW a \in Auctions, NEW extra \in Extras, RetractBids(u, a, extra)
  PROVE  SurplusKept
<1> DEFINE refund == bids[a][u].total_bid
<1>1. TypeOK' /\ extra \in Nat /\ stray' = stray + extra /\ Auctions' = Auctions
  BY RetractBidsType, StraysType, SameAuctions
     DEF RetractBids, ExecuteRetractBids, Strays
<1>2. /\ bids[a][u] # None /\ bids[a][u] \in BidInfo
      /\ bids'[a][u] \in BidInfo /\ bids'[a][u].total_bid = 0
      /\ \A b \in Auctions, v \in Users : b # a \/ v # u => bids'[b][v] = bids[b][v]
  BY RetractBidsEffect, NoneIsNoRecord
<1>3. refund \in Nat /\ Total(u, a) = refund /\ Total(u, a)' = 0
  BY <1>2 DEF BidInfo, Total
<1>4. outcome' = outcome /\ items' = items /\ bank' = bank + extra - Outflow(refund)
      /\ ~IsWinner(u, items[a])
  BY DEF RetractBids, ExecuteRetractBids
<1>5. Owed(a, u) = refund /\ Owed(a, u)' = 0
  <2>1. SUFFICES ASSUME Sold(a), outcome[a].bidder = u PROVE FALSE
    BY <1>3, <1>4 DEF Owed, Sold
  <2>2. items[a].highest_bidder = u /\ items[a].total_bids = outcome[a].bids
    BY <1>1, <1>4, <2>1 DEF Stands, SettlementStands, Sold
  <2>3. OrZero(items[a].highest_bid) = outcome[a].price
    BY <2>1, <2>2 DEF OutcomesKept, OutcomeKept, Sold
  <2>4. outcome[a].price >= OrZero(items[a].reserve_price)
    BY <2>1 DEF SoldOnTheCreatorsTerms
  <2>5. OrZero(items[a].highest_bid) \in Nat /\ OrZero(items[a].reserve_price) \in Nat
    BY OptionNat DEF TypeOK, ItemInfo
  <2> QED
    BY <1>4, <2>2, <2>3, <2>4, <2>5 DEF IsWinner, ReserveMet
<1>6. \A b \in Auctions, v \in Users : b # a \/ v # u => Owed(b, v)' = Owed(b, v)
  BY <1>2, <1>4 DEF Owed, Sold, Total
<1>7. AllOwed' = AllOwed - Owed(a, u) + Owed(a, u)'
  BY <1>1, <1>6, AllOwedMoves
<1>8. Outflow(refund) \in Nat /\ Outflow(refund) <= refund
      /\ (TaxRate = 0 => Outflow(refund) = refund)
  BY <1>3, PayingOut
<1> HIDE DEF refund
<1> QED
  BY <1>1, <1>3, <1>4, <1>5, <1>7, <1>8, SurplusParts DEF SurplusKept, Surplus

\* withdraw_nft without a buyer: nothing is paid and nobody's bids are spent.
LEMMA UnsoldSurplus ==
  ASSUME TypeOK, OutcomesKept, NEW a \in Auctions, NEW extra \in Extras,
         WithdrawNft(a, extra), ~IsSale(items[a])
  PROVE  SurplusKept
<1>1. extra \in Nat /\ stray' = stray + extra /\ Auctions' = Auctions
      /\ bids' = bids /\ bank' = bank + extra
  BY StraysType, SameAuctions DEF WithdrawNft, ExecuteWithdrawNft, Strays
<1>2. /\ ~Sold(a) /\ ~Sold(a)'
      /\ \A b \in Auctions : b # a => outcome'[b] = outcome[b]
  BY SettledOnce, SettlementKept DEF Sold, WithdrawNft, ExecuteWithdrawNft, TypeOK
<1>3. \A b \in Auctions, v \in Users : Owed(b, v)' = Owed(b, v)
  BY <1>1, <1>2 DEF Owed, Sold, Total
<1> QED
  BY <1>1, <1>3, AllOwedSame, StrayCoins

\* withdraw_nft with a buyer: the shares are paid from what the buyer has in
\* the auction, which is no longer owed.
LEMMA SaleSurplus ==
  ASSUME TypeOK, TermsMet, OutcomesKept, WinnerEscrowed,
         NEW a \in Auctions, NEW extra \in Extras,
         WithdrawNft(a, extra), IsSale(items[a])
  PROVE  SurplusKept
<1> DEFINE item == items[a]
           price == item.highest_bid
           paid == Payouts(item, RoyaltyOf(item.nft))
           out == Outflow(paid[1]) + Outflow(paid[2]) + Outflow(paid[3]) + Outflow(paid[4])
<1>1. extra \in Nat /\ stray' = stray + extra /\ Auctions' = Auctions /\ TypeOK'
      /\ bids' = bids /\ bank' = bank + extra - out
  BY WithdrawNftType, StraysType, SameAuctions DEF WithdrawNft, ExecuteWithdrawNft, Strays
<1>2. PICK w \in Users : w = item.highest_bidder /\ ReserveMet(item) /\ price \in Nat
  <2>1. item \in ItemInfo /\ item.highest_bidder # None /\ ReserveMet(item)
    BY DEF TypeOK, IsSale, NewOwner
  <2>2. price # None
    BY <2>1 DEF TermsMet
  <2> QED
    BY <2>1, <2>2 DEF ItemInfo, Option
<1>3. Total(w, a) = price /\ OrZero(price) = price
  BY <1>2, NoneAssumption DEF WinnerEscrowed, ReserveMet, OrZero
<1>4. /\ outcome[a] = None /\ Sold(a)' /\ outcome'[a].bidder = w
      /\ \A b \in Auctions : b # a => outcome'[b] = outcome[b]
  BY <1>2, SettledOnce, SettlementKept DEF Sold, WithdrawNft, ExecuteWithdrawNft, TypeOK
<1>5. Owed(a, w) = price /\ Owed(a, w)' = 0
  BY <1>3, <1>4 DEF Owed, Sold
<1>6. \A b \in Auctions, v \in Users : b # a \/ v # w => Owed(b, v)' = Owed(b, v)
  BY <1>1, <1>4 DEF Owed, Sold, Total
<1>7. AllOwed' = AllOwed - Owed(a, w) + Owed(a, w)'
  BY <1>1, <1>6, AllOwedMoves
<1>8. (\A k \in 1 .. 4 : paid[k] \in Nat) /\ paid[1] + paid[2] + paid[3] + paid[4] = price
  <2>1. item \in ItemInfo /\ RoyaltyOf(item.nft) \in Decimal
    BY RoyaltyOfDecimal DEF TypeOK, ItemInfo
  <2>2. FeesFit(item, RoyaltyOf(item.nft))
    BY DEF WithdrawNft, ExecuteWithdrawNft
  <2> QED
    BY <1>3, <2>1, <2>2, SharesOfThePrice
<1>9. \A k \in 1 .. 4 : /\ Outflow(paid[k]) \in Nat /\ Outflow(paid[k]) <= paid[k]
                        /\ TaxRate = 0 => Outflow(paid[k]) = paid[k]
  BY <1>8, PayingOut
<1> HIDE DEF paid
<1>10. out \in Nat /\ out <= price /\ (TaxRate = 0 => out = price)
  BY <1>8, <1>9
<1> HIDE DEF price, out
<1> QED
  BY <1>1, <1>2, <1>5, <1>7, <1>10, SurplusParts DEF SurplusKept, Surplus

\* The auctions of which the contract may have kept the odd unit of a fee.
Halved == {a \in Auctions : items[a].highest_bid # None /\ items[a].highest_bidder = None}

\* Half of an amount, twice, is the amount or one less.
LEMMA HalfTwice ==
  ASSUME NEW x \in Nat
  PROVE  Half(x) \in Nat /\ Half(x) + Half(x) <= x /\ x <= Half(x) + Half(x) + 1
  BY DEF Half

\* cancel_auction passes on no more than the fee, and keeps at most one unit
\* of it, when it divides the fee between the creator and a bidder.
LEMMA CancellationSurplus ==
  ASSUME TypeOK, NEW u \in Users, NEW a \in Auctions, NEW extra \in Extras,
         CancelAuction(u, a, extra)
  PROVE  \/ SurplusKept /\ Halved' = Halved
         \/ /\ a \notin Halved /\ Halved' = Halved \cup {a}
            /\ Surplus <= Surplus'
            /\ TaxRate = 0 => Surplus' <= Surplus + 1
<1> DEFINE item == items[a]
           fee == CancellationFee(item)
<1>1. /\ extra \in Nat /\ stray' = stray + extra /\ Auctions' = Auctions
      /\ bids' = bids /\ outcome' = outcome /\ AllOwed' = AllOwed
  BY StraysType, SameAuctions, OwedUntouched
     DEF CancelAuction, ExecuteCancelAuction, Strays
<1>2. /\ items'[a].highest_bid = item.highest_bid /\ items'[a].highest_bidder = None
      /\ \A b \in Auctions : b # a => items'[b] = items[b]
  BY CancellationCloses, CancelAuctionEffect
<1>3. CASE item.highest_bid = None
  <2>1. bank' = bank + extra
    BY <1>3 DEF CancelAuction
  <2>2. Halved' = Halved
    BY <1>1, <1>2, <1>3 DEF Halved
  <2> QED
    BY <1>1, <2>1, <2>2, StrayCoins
<1>4. CASE item.highest_bid # None
  <2>1. fee \in Nat /\ extra = 0 /\ bank' = AfterCancelFee(item, fee)
    <3>1. item.highest_bid \in Nat
      BY <1>4 DEF TypeOK, ItemInfo, Option
    <3> QED
      BY <1>4, <3>1, DecMulNat, ConfigAssumption
         DEF CancelAuction, CancellationFee, ConfigType
  <2>2. bank \in Nat /\ stray \in Nat /\ AllOwed \in Int
    BY SurplusParts
  <2> HIDE DEF fee
  <2>3. CASE item.highest_bidder = None
    <3>1. Halved' = Halved
      BY <1>1, <1>2, <2>3 DEF Halved
    <3>2. bank' = bank + fee - Outflow(fee)
      BY <2>1, <2>3 DEF AfterCancelFee
    <3>3. Outflow(fee) \in Nat /\ Outflow(fee) <= fee /\ (TaxRate = 0 => Outflow(fee) = fee)
      BY <2>1, PayingOut
    <3>4. SurplusKept
      BY <1>1, <2>1, <2>2, <3>2, <3>3 DEF SurplusKept, Surplus
    <3> QED
      BY <3>1, <3>4
  <2>4. CASE item.highest_bidder # None
    <3>1. a \notin Halved /\ Halved' = Halved \cup {a}
      BY <1>1, <1>2, <1>4, <2>4 DEF Halved
    <3>2. bank' = bank + fee - (Outflow(Half(fee)) + Outflow(Half(fee)))
      BY <2>1, <2>4 DEF AfterCancelFee
    <3>3. /\ Half(fee) \in Nat /\ Half(fee) + Half(fee) <= fee
          /\ fee <= Half(fee) + Half(fee) + 1
      BY <2>1, HalfTwice
    <3>4. /\ Outflow(Half(fee)) \in Nat /\ Outflow(Half(fee)) <= Half(fee)
          /\ TaxRate = 0 => Outflow(Half(fee)) = Half(fee)
      BY <3>3, PayingOut
    <3>5. Surplus <= Surplus' /\ (TaxRate = 0 => Surplus' <= Surplus + 1)
      BY <1>1, <2>1, <2>2, <3>2, <3>3, <3>4 DEF Surplus
    <3> QED
      BY <3>1, <3>5
  <2> QED
    BY <2>3, <2>4
<1> QED
  BY <1>3, <1>4

\* What a step does to the surplus as long as the settlements stand.
SurplusMoves ==
  \/ SurplusKept /\ Halved' = Halved
  \/ /\ \E a : a \notin Halved /\ Halved' = Halved \cup {a}
     /\ Surplus <= Surplus'
     /\ TaxRate = 0 => Surplus' <= Surplus + 1

\* The steps that leave the auctions, bids and outcomes alone.
LEMMA QuietSurplus ==
  ASSUME TypeOK, NEW extra \in Nat, bank' = bank + extra, stray' = stray + extra,
         UNCHANGED << counter_items, items, bids, outcome >>
  PROVE  SurplusMoves
<1>1. SurplusKept
  BY OwedUntouched, StrayCoins
<1>2. Halved' = Halved
  BY SameAuctions DEF Halved
<1> QED
  BY <1>1, <1>2 DEF SurplusMoves

\* Every step moves the surplus like that.
LEMMA SurplusStep ==
  ASSUME TypeOK, TermsMet, OutcomesKept, WinnerEscrowed, SoldOnTheCreatorsTerms,
         CancelledIsClosed, Stands', [Next]_vars
  PROVE  SurplusMoves
<1>1. ASSUME NEW u \in Users, NEW n \in Nfts, NEW l \in Listings, CreateAuction(u, n, l)
      PROVE  SurplusMoves
  <2>1. AllOwed' = AllOwed
    BY <1>1, CreateAuctionType, AllOwedCreate
  <2>2. bank' = bank + 0 /\ stray' = stray + 0
    BY <1>1 DEF CreateAuction, TypeOK
  <2>3. SurplusKept
    BY <2>1, <2>2, StrayCoins
  <2>4. Halved' = Halved
    <3>0. PICK c \in Nat : c = counter_items
      BY DEF TypeOK
    <3>1. /\ Auctions' = Auctions \cup {c} /\ c \notin Auctions
          /\ \A b \in Auctions : items'[b] = items[b]
          /\ items'[c] = NewItem(u, n, l)
      BY <1>1, <3>0, CreateAuctionEffect
    <3>2. NewItem(u, n, l).highest_bid = None
      BY DEF NewItem
    <3> QED
      BY <3>1, <3>2 DEF Halved
  <2> QED
    BY <2>3, <2>4 DEF SurplusMoves
<1>2. ASSUME NEW u \in Users, NEW a \in Auctions, NEW sent \in Amounts,
             PlaceBid(u, a, sent) \/ InstantBuy(u, a, sent)
      PROVE  SurplusMoves
  <2>1. SurplusKept
    BY <1>2, BidSurplus
  <2>2. /\ Auctions' = Auctions /\ items'[a].highest_bidder # None
        /\ \A b \in Auctions : b # a => items'[b] = items[b]
    BY <1>2, BidEffect, AddressAssumption
  <2>3. a \notin Halved
    <3>1. now <= items[a].end_time /\ items[a].end_time \in Nat /\ now \in Nat
      BY <1>2 DEF PlaceBid, InstantBuy, NotEnded, TypeOK, ItemInfo
    <3> QED
      BY <3>1 DEF CancelledIsClosed, Halved
  <2>4. Halved' = Halved
    BY <2>2, <2>3 DEF Halved
  <2> QED
    BY <2>1, <2>4 DEF SurplusMoves
<1>3. ASSUME NEW u \in Users, NEW a \in Auctions, NEW extra \in Extras,
             RetractBids(u, a, extra)
      PROVE  SurplusMoves
  <2>1. SurplusKept
    BY <1>3, RefundSurplus
  <2>2. Halved' = Halved
    BY <1>3, SameAuctions DEF RetractBids, ExecuteRetractBids, Halved
  <2> QED
    BY <2>1, <2>2 DEF SurplusMoves
<1>4. ASSUME NEW a \in Auctions, NEW extra \in Extras, WithdrawNft(a, extra)
      PROVE  SurplusMoves
  <2>1. SurplusKept
    BY <1>4, UnsoldSurplus, SaleSurplus
  <2>2. Auctions' = Auctions
    BY <1>4, SameAuctions DEF WithdrawNft, ExecuteWithdrawNft
  <2>3. Halved' = Halved
    BY <1>4, <2>2, SettlementKeepsAll DEF TermsKept, Halved
  <2> QED
    BY <2>1, <2>3 DEF SurplusMoves
<1>5. ASSUME NEW u \in Users, NEW a \in Auctions, NEW extra \in Extras,
             CancelAuction(u, a, extra)
      PROVE  SurplusMoves
  BY <1>5, CancellationSurplus DEF SurplusMoves
<1>6. ASSUME NEW u \in Users, NEW fee \in RoyaltyFees, NEW r \in Option(Users),
             NEW extra \in Extras, UpdateRoyalty(u, fee, r, extra)
      PROVE  SurplusMoves
  <2>1. /\ extra \in Nat /\ bank' = bank + extra /\ stray' = stray + extra
        /\ UNCHANGED << counter_items, items, bids, outcome >>
    BY <1>6, StraysType DEF UpdateRoyalty, Strays
  <2> QED
    BY <2>1, QuietSurplus
<1>7. ASSUME NEW u \in Users, NEW a \in Auctions, RegisterPrivateSale(u, a)
      PROVE  SurplusMoves
  <2>1. /\ items' = items /\ bank' = bank + 0 /\ stray' = stray + 0
        /\ Auctions' = Auctions /\ outcome' = outcome
    <3>1. items' = items /\ bank' = bank /\ stray' = stray /\ outcome' = outcome
          /\ counter_items' = counter_items
      BY <1>7 DEF RegisterPrivateSale, ExecuteRegisterPrivateSale
    <3>2. bank \in Nat /\ stray \in Nat
      BY DEF TypeOK
    <3> QED
      BY <3>1, <3>2, SameAuctions
  <2>2. \A b \in Auctions, v \in Users : Owed(b, v)' = Owed(b, v)
    <3>1. \A b \in Auctions, v \in Users : Total(v, b)' = Total(v, b)
      BY <1>7, RegisterPrivateSaleEffect DEF Total
    <3> QED
      BY <2>1, <3>1 DEF Owed, Sold
  <2>3. SurplusKept
    BY <2>1, <2>2, AllOwedSame, StrayCoins
  <2>4. Halved' = Halved
    BY <2>1 DEF Halved
  <2> QED
    BY <2>3, <2>4 DEF SurplusMoves
<1>8. CASE Tick \/ UNCHANGED vars
  <2>1. /\ bank' = bank + 0 /\ stray' = stray + 0
        /\ UNCHANGED << counter_items, items, bids, outcome >>
    BY <1>8 DEF Tick, vars, TypeOK
  <2> QED
    BY <2>1, QuietSurplus
<1> QED
  BY <1>1, <1>2, <1>3, <1>4, <1>5, <1>6, <1>7, <1>8 DEF Next

\* A settlement that stands after a step stood before it, for all auctions.
LEMMA StandsStep ==
  ASSUME TypeOK, OutcomesKept, [Next]_vars, Stands'
  PROVE  Stands
  BY OutcomesKeptStep DEF Stands

\* The arithmetic of a step: balance b, coins that came by mistake s, owed o.
LEMMA StillCovered ==
  ASSUME NEW b \in Nat, NEW s \in Nat, NEW o \in Int,
         NEW c \in Nat, NEW t \in Nat, NEW p \in Int,
         b >= o + s, b - s - o <= c - t - p
  PROVE  c >= p + t
  OBVIOUS

LEMMA StillExhausted ==
  ASSUME NEW b \in Nat, NEW s \in Nat, NEW o \in Int,
         NEW c \in Nat, NEW t \in Nat, NEW p \in Int, NEW k \in Nat, NEW d \in Nat,
         b <= o + s + k, c - t - p <= b - s - o + d
  PROVE  c <= p + t + (k + d)
  OBVIOUS

\* What Solvent and NothingStranded ask of the balance.
Covered == bank >= AllOwed + stray

Exhausted == bank <= AllOwed + stray + Cardinality(Halved)

\* The balance of the contract covers everything it owes to the bidders of all
\* auctions together, through refunds, settlements, fees, royalties, charity,
\* tax and cancellations, for every configuration and every rounding, as long
\* as no settled auction was reopened in the second it ended.
THEOREM SolventAlways == Spec => []Solvent
<1>0. Solvent <=> (Stands => Covered)
  BY DEF Solvent, Stands, Covered
<1>1. Init => Solvent
  <2> SUFFICES ASSUME Init PROVE Solvent
    OBVIOUS
  <2>1. [e \in Auctions \X Users |-> Owed(e[1], e[2])] = [e \in {} |-> 0]
    BY DEF Init, Auctions
  <2>2. DOMAIN [e \in {} |-> 0] = {}
    OBVIOUS
  <2>3. AllOwed = 0
    BY <2>1, <2>2, SumEmpty DEF AllOwed, SumFunction
  <2> QED
    BY <2>3 DEF Init, Solvent
<1>2. /\ TypeOK /\ TermsMet /\ OutcomesKept /\ WinnerEscrowed /\ SoldOnTheCreatorsTerms
      /\ CancelledIsClosed /\ Solvent /\ [Next]_vars /\ Stands'
      => Covered'
  <2> SUFFICES ASSUME TypeOK, TermsMet, OutcomesKept, WinnerEscrowed,
                      SoldOnTheCreatorsTerms, CancelledIsClosed, Solvent, [Next]_vars, Stands'
               PROVE  Covered'
    OBVIOUS
  <2>1. bank >= AllOwed + stray
    BY <1>0, StandsStep DEF Covered
  <2>2. bank \in Nat /\ stray \in Nat /\ AllOwed \in Int
    BY SurplusParts
  <2>3. bank' \in Nat /\ stray' \in Nat /\ AllOwed' \in Int
    <3>1. TypeOK'
      BY NextTypeOK
    <3>2. OwedSum'
      BY <3>1, AllOwedSum, PTL
    <3> QED
      BY <3>1, <3>2 DEF TypeOK, OwedSum
  <2>4. Surplus <= Surplus'
    BY SurplusStep DEF SurplusMoves, SurplusKept
  <2>5. bank - stray - AllOwed <= bank' - stray' - AllOwed'
    BY <2>4 DEF Surplus
  <2>6. bank' >= AllOwed' + stray'
    BY <2>1, <2>2, <2>3, <2>5, StillCovered
  <2> QED
    BY <2>6 DEF Covered
<1> QED
  BY <1>0, <1>1, <1>2, TypeCorrect, TermsMetAlways, OutcomesKeptAlways, WinnerEscrowedAlways,
     SoldOnTheCreatorsTermsAlways, CancelledIsClosedAlways, PTL DEF Spec

\* Where transfers are not taxed, nothing else stays behind in the contract
\* than what it owes, the coins that came in by mistake, and at most one unit
\* for each auction whose cancellation fee execute_cancel_auction divided.
THEOREM NothingStrandedAlways ==
  ASSUME TaxRate = 0
  PROVE  Spec => []NothingStranded
<1>0. NothingStranded <=> (Stands => Exhausted)
  BY DEF NothingStranded, Stands, Exhausted, Halved
<1>1. Init => NothingStranded
  <2> SUFFICES ASSUME Init PROVE NothingStranded
    OBVIOUS
  <2>1. [e \in Auctions \X Users |-> Owed(e[1], e[2])] = [e \in {} |-> 0]
    BY DEF Init, Auctions
  <2>2. DOMAIN [e \in {} |-> 0] = {}
    OBVIOUS
  <2>3. AllOwed = 0
    BY <2>1, <2>2, SumEmpty DEF AllOwed, SumFunction
  <2>4. Halved = {}
    BY DEF Init, Halved, Auctions
  <2>5. Cardinality(Halved) = 0
    BY <2>4, FS_EmptySet
  <2> QED
    BY <1>0, <2>3, <2>5 DEF Init, Exhausted
<1>2. /\ TypeOK /\ TermsMet /\ OutcomesKept /\ WinnerEscrowed /\ SoldOnTheCreatorsTerms
      /\ CancelledIsClosed /\ NothingStranded /\ [Next]_vars /\ Stands'
      => Exhausted'
  <2> SUFFICES ASSUME TypeOK, TermsMet, OutcomesKept, WinnerEscrowed, NothingStranded,
                      SoldOnTheCreatorsTerms, CancelledIsClosed, [Next]_vars, Stands'
               PROVE  Exhausted'
    OBVIOUS
  <2>1. bank <= AllOwed + stray + Cardinality(Halved)
    BY <1>0, StandsStep DEF Exhausted
  <2>2. bank \in Nat /\ stray \in Nat /\ AllOwed \in Int
    BY SurplusParts
  <2>3. bank' \in Nat /\ stray' \in Nat /\ AllOwed' \in Int
    <3>1. TypeOK'
      BY NextTypeOK
    <3>2. OwedSum'
      BY <3>1, AllOwedSum, PTL
    <3> QED
      BY <3>1, <3>2 DEF TypeOK, OwedSum
  <2>4. IsFiniteSet(Halved) /\ Cardinality(Halved) \in Nat
    BY AllOwedSum, FS_Subset, FS_CardinalityType DEF OwedSum, Halved
  <2>5. SurplusMoves
    BY SurplusStep
  <2>6. CASE SurplusKept /\ Halved' = Halved
    <3>1. bank' - stray' - AllOwed' <= bank - stray - AllOwed + 0
      BY <2>2, <2>6 DEF SurplusKept, Surplus
    <3>2. Cardinality(Halved') = Cardinality(Halved) + 0
      BY <2>4, <2>6
    <3>3. bank' <= AllOwed' + stray' + (Cardinality(Halved) + 0)
      BY <2>1, <2>2, <2>3, <2>4, <3>1, StillExhausted
    <3> QED
      BY <3>2, <3>3 DEF Exhausted
  <2>7. CASE /\ \E a : a \notin Halved /\ Halved' = Halved \cup {a}
             /\ TaxRate = 0 => Surplus' <= Surplus + 1
    <3>1. Cardinality(Halved') = Cardinality(Halved) + 1
      BY <2>4, <2>7, FS_AddElement
    <3>2. bank' - stray' - AllOwed' <= bank - stray - AllOwed + 1
      BY <2>7 DEF Surplus
    <3>3. bank' <= AllOwed' + stray' + (Cardinality(Halved) + 1)
      BY <2>1, <2>2, <2>3, <2>4, <3>2, StillExhausted
    <3> QED
      BY <3>1, <3>3 DEF Exhausted
  <2> QED
    BY <2>5, <2>6, <2>7 DEF SurplusMoves
<1> QED
  BY <1>0, <1>1, <1>2, TypeCorrect, TermsMetAlways, OutcomesKeptAlways, WinnerEscrowedAlways,
     SoldOnTheCreatorsTermsAlways, CancelledIsClosedAlways, PTL DEF Spec

-----------------------------------------------------------------------------
(* What the balance is enough for. *)

\* What a bidder is owed is a part of everything that is owed.
LEMMA OwedIsPart ==
  ASSUME TypeOK, NEW a \in Auctions, NEW u \in Users
  PROVE  Owed(a, u) <= AllOwed
<1> DEFINE D == Auctions \X Users
           rest == D \ {<< a, u >>}
           none == [e \in rest |-> 0]
<1>1. /\ IsFiniteSet(D) /\ AllOwed = SumFunctionOnSet(OwedTable, D)
      /\ \A e \in D : OwedTable[e] \in Int
  BY AllOwedSum DEF OwedSum
<1>2. << a, u >> \in D /\ OwedTable[<< a, u >>] = Owed(a, u)
  BY DEF OwedTable
<1>3. IsFiniteSet(rest)
  BY <1>1, FS_RemoveElement
<1>4. \A e \in rest : OwedTable[e] \in Int /\ none[e] \in Int /\ none[e] <= OwedTable[e]
  BY OwedNat DEF OwedTable
<1> HIDE DEF D
<1>5. {} \in SUBSET rest /\ \A e \in rest : none[e] \in Int /\ none[e] = 0
  OBVIOUS
<1> HIDE DEF rest, none
<1>6. SumFunctionOnSet(none, rest) = 0
  BY <1>3, <1>5, SumZeros, SumEmpty
<1>7. 0 <= SumFunctionOnSet(OwedTable, rest)
  BY <1>3, <1>4, <1>6, SumMonotone
<1>8. AllOwed = Owed(a, u) + SumFunctionOnSet(OwedTable, rest)
  BY <1>1, <1>2, SumTake DEF rest
<1>9. SumFunctionOnSet(OwedTable, rest) \in Int /\ Owed(a, u) \in Nat
  BY <1>3, <1>4, SumTake, OwedNat
<1> QED
  BY <1>7, <1>8, <1>9

\* A state as it is between transactions, with all settlements standing.
GoodBooks ==
  /\ TypeOK /\ TermsMet /\ OutcomesKept /\ WinnerEscrowed /\ SoldOnTheCreatorsTerms
  /\ NftCustody /\ Solvent /\ Stands

\* Whoever is not bound by an auction is owed all of their bids: they did not
\* buy its NFT.
LEMMA UnboundIsOwed ==
  ASSUME TypeOK, OutcomesKept, SoldOnTheCreatorsTerms, Stands,
         NEW a \in Auctions, NEW u \in Users, ~IsWinner(u, items[a])
  PROVE  Owed(a, u) = Total(u, a)
<1> SUFFICES ASSUME Sold(a), outcome[a].bidder = u PROVE FALSE
  BY DEF Owed
<1>1. items[a].highest_bidder = u /\ items[a].total_bids = outcome[a].bids
  BY DEF Stands, SettlementStands, Sold
<1>2. OrZero(items[a].highest_bid) = outcome[a].price
  BY <1>1 DEF OutcomesKept, OutcomeKept, Sold
<1>3. outcome[a].price >= OrZero(items[a].reserve_price)
  BY DEF SoldOnTheCreatorsTerms
<1>4. OrZero(items[a].highest_bid) \in Nat /\ OrZero(items[a].reserve_price) \in Nat
  BY OptionNat DEF TypeOK, ItemInfo
<1> QED
  BY <1>1, <1>2, <1>3, <1>4 DEF IsWinner, ReserveMet

\* The contract has the coins for every refund.
LEMMA RefundCovered ==
  ASSUME GoodBooks, NEW a \in Auctions, NEW u \in Users, ~IsWinner(u, items[a])
  PROVE  Total(u, a) \in Nat /\ Total(u, a) <= bank
<1>1. Total(u, a) \in Nat /\ Total(u, a) <= AllOwed
  BY UnboundIsOwed, OwedIsPart, TotalNat DEF GoodBooks
<1>2. bank >= AllOwed + stray /\ bank \in Nat /\ stray \in Nat /\ AllOwed \in Int
  BY SurplusParts DEF GoodBooks, Solvent, Stands
<1> QED
  BY <1>1, <1>2

\* The contract has the price of every auction that is about to be sold.
LEMMA PriceCovered ==
  ASSUME GoodBooks, NEW a \in Auctions, ~items[a].resolved, IsSale(items[a])
  PROVE  OrZero(items[a].highest_bid) \in Nat /\ OrZero(items[a].highest_bid) <= bank
<1> DEFINE item == items[a]
           price == item.highest_bid
<1>1. PICK w \in Users : w = item.highest_bidder /\ ReserveMet(item) /\ price \in Nat
  <2>1. item \in ItemInfo /\ item.highest_bidder # None /\ ReserveMet(item)
    BY DEF GoodBooks, TypeOK, IsSale, NewOwner
  <2>2. price # None
    BY <2>1 DEF GoodBooks, TermsMet
  <2> QED
    BY <2>1, <2>2 DEF ItemInfo, Option
<1>2. Total(w, a) = price /\ OrZero(price) = price
  BY <1>1, NoneAssumption DEF GoodBooks, WinnerEscrowed, ReserveMet, OrZero
<1>3. Owed(a, w) = price
  BY <1>2 DEF GoodBooks, OutcomesKept, OutcomeKept, Owed, Sold
<1>4. price <= AllOwed
  BY <1>3, OwedIsPart DEF GoodBooks
<1>5. bank >= AllOwed + stray /\ bank \in Nat /\ stray \in Nat /\ AllOwed \in Int
  BY SurplusParts DEF GoodBooks, Solvent, Stands
<1> HIDE DEF price
<1> QED
  BY <1>1, <1>2, <1>4, <1>5 DEF price

\* So its shares can be paid out, one after the other.
LEMMA SharesCovered ==
  ASSUME GoodBooks, NEW a \in Auctions, ~items[a].resolved, IsSale(items[a]),
         FeesFit(items[a], RoyaltyOf(items[a].nft))
  PROVE  LET paid == Payouts(items[a], RoyaltyOf(items[a].nft))
         IN  /\ \A k \in 1 .. 4 : Outflow(paid[k]) \in Nat
             /\ Outflow(paid[1]) + Outflow(paid[2]) + Outflow(paid[3]) + Outflow(paid[4]) <= bank
<1> DEFINE paid == Payouts(items[a], RoyaltyOf(items[a].nft))
           price == OrZero(items[a].highest_bid)
<1>1. (\A k \in 1 .. 4 : paid[k] \in Nat) /\ paid[1] + paid[2] + paid[3] + paid[4] = price
  <2>1. items[a] \in ItemInfo /\ RoyaltyOf(items[a].nft) \in Decimal
    BY RoyaltyOfDecimal DEF GoodBooks, TypeOK, ItemInfo
  <2> QED
    BY <2>1, SharesOfThePrice
<1>2. \A k \in 1 .. 4 : Outflow(paid[k]) \in Nat /\ Outflow(paid[k]) <= paid[k]
  BY <1>1, PayingOut
<1>3. price \in Nat /\ price <= bank /\ bank \in Nat
  BY PriceCovered, SurplusParts DEF GoodBooks
<1> HIDE DEF paid, price
<1>4. /\ Outflow(paid[1]) + Outflow(paid[2]) + Outflow(paid[3]) + Outflow(paid[4]) <= bank
      /\ \A k \in 1 .. 4 : Outflow(paid[k]) \in Nat
  BY <1>1, <1>2, <1>3
<1> QED
  BY <1>4 DEF paid

\* The NFT of an auction that is not settled is there.
LEMMA NftIsThere ==
  ASSUME TypeOK, NftCustody, NEW a \in Auctions, ~items[a].resolved
  PROVE  nft_owner[items[a].nft] = Market
<1>1. items[a].nft \in Nfts /\ a \in Open(items[a].nft)
  BY DEF TypeOK, ItemInfo, Open
<1> QED
  BY <1>1 DEF NftCustody

\* No more coins are sent along than the model allows.
LEMMA StrayBoundedAlways == Spec => [](stray \in Nat /\ stray <= MaxStray)
<1>1. Init => stray \in Nat /\ stray <= MaxStray
  BY BoundAssumption DEF Init
<1>2. (stray \in Nat /\ stray <= MaxStray) /\ [Next]_vars
      => (stray \in Nat /\ stray <= MaxStray)'
  <2> SUFFICES ASSUME stray \in Nat /\ stray <= MaxStray, [Next]_vars
               PROVE  stray' \in Nat /\ stray' <= MaxStray
    OBVIOUS
  <2>1. \A extra \in Extras : Strays(extra) => stray' \in Nat /\ stray' <= MaxStray
    BY InputAssumption DEF Strays
  <2>2. stray' = stray \/ \E extra \in Extras : Strays(extra)
    <3>1. CASE UNCHANGED vars
      BY <3>1 DEF vars
    <3>2. /\ Tick => stray' = stray
          /\ \A u, n, l : CreateAuction(u, n, l) => stray' = stray
          /\ \A u, c : RegisterPrivateSale(u, c) => stray' = stray
      BY DEF Tick, CreateAuction, RegisterPrivateSale
    <3>3. \A u, c, sent : PlaceBid(u, c, sent) => stray' = stray
      BY DEF PlaceBid
    <3>4. \A u, c, sent : InstantBuy(u, c, sent) => stray' = stray
      BY DEF InstantBuy
    <3>5. /\ \A u, c, extra : RetractBids(u, c, extra) => Strays(extra)
          /\ \A c, extra : WithdrawNft(c, extra) => Strays(extra)
          /\ \A u, c, extra : CancelAuction(u, c, extra) => Strays(extra)
          /\ \A u, fee, r, extra : UpdateRoyalty(u, fee, r, extra) => Strays(extra)
      BY DEF RetractBids, WithdrawNft, CancelAuction, UpdateRoyalty
    <3> QED
      BY <3>1, <3>2, <3>3, <3>4, <3>5 DEF Next
  <2> QED
    BY <2>1, <2>2
<1> QED
  BY <1>1, <1>2, PTL DEF Spec

\* A refund and a settlement, as Marketplace lets them happen: the values
\* that RetractBids(u, a, 0) and WithdrawNft(a, 0) give to the next state.
RefundGoesThrough(u, a) ==
  /\ bids[a][u] # None /\ ~IsWinner(u, items[a]) /\ bids[a][u].total_bid # 0
  /\ Sendable(bids[a][u].total_bid) /\ Outflow(bids[a][u].total_bid) <= bank + 0
  /\ EarnsPartialReward(u, a) => Cw20Accepts(PartialReward(u, a))
  /\ stray + 0 <= MaxStray

SettlementGoesThrough(a) ==
  LET item == items[a]
  IN  /\ MaySettle(item)
      /\ FeesFit(item, RoyaltyOf(item.nft))
      /\ nft_owner[item.nft] = Market
      /\ IsSale(item) => /\ PayoutsGoThrough(Payouts(item, RoyaltyOf(item.nft)), bank + 0)
                         /\ Cw20Accepts(FullReward(item))
      /\ stray + 0 <= MaxStray

\* What they do then: one value for each variable.
AfterRefund(u, a) ==
  LET bid == bids[a][u]
  IN  /\ bids' = [bids EXCEPT ![a][u] = [bid EXCEPT !.total_bid = 0, !.resolved = TRUE]]
      /\ sity' = IF EarnsPartialReward(u, a)
                 THEN Minted(sity, u, PartialReward(u, a))
                 ELSE sity
      /\ bank' = bank + 0 - Outflow(bid.total_bid)
      /\ stray' = stray + 0
      /\ UNCHANGED << now, counter_items, items, histories, histories_bidder, royalty,
                      nft_owner, outcome >>

AfterSettlement(a) ==
  LET item == items[a]
      to == NewOwner(item)
      paid == Payouts(item, RoyaltyOf(item.nft))
      reward == FullReward(item)
  IN  /\ items' = [items EXCEPT ![a] = [item EXCEPT !.resolved = TRUE]]
      /\ outcome' = [outcome EXCEPT ![a] =
                       [bidder |-> item.highest_bidder, price |-> OrZero(item.highest_bid),
                        bids |-> item.total_bids, sold |-> IsSale(item)]]
      /\ nft_owner' = [nft_owner EXCEPT ![item.nft] = to]
      /\ sity' = IF IsSale(item)
                 THEN Minted(Minted(sity, item.creator, reward), to, reward)
                 ELSE sity
      /\ bank' = IF IsSale(item)
                 THEN bank + 0 - (Outflow(paid[1]) + Outflow(paid[2])
                                  + Outflow(paid[3]) + Outflow(paid[4]))
                 ELSE bank + 0
      /\ stray' = stray + 0
      /\ UNCHANGED << now, counter_items, bids, histories, histories_bidder, royalty >>

\* These conditions are all there is: RetractBids and WithdrawNft are enabled
\* exactly where they hold.
LEMMA RefundIsThat ==
  ASSUME NEW u \in Users, NEW a \in Auctions
  PROVE  RetractBids(u, a, 0) <=> RefundGoesThrough(u, a) /\ AfterRefund(u, a)
  BY DEF RetractBids, ExecuteRetractBids, Strays, RefundGoesThrough, AfterRefund

LEMMA SettlementIsThat ==
  ASSUME NEW a \in Auctions
  PROVE  WithdrawNft(a, 0) <=> SettlementGoesThrough(a) /\ AfterSettlement(a)
  BY DEF WithdrawNft, ExecuteWithdrawNft, Strays, SettlementGoesThrough, AfterSettlement

\* OnlyDustBlocks with these conditions in place of ENABLED, and with the one
\* other thing that can stop a settlement: fees above the price.
NothingElseBlocks ==
  Stands =>
    \A a \in Auctions :
      /\ \A u \in Users :
           Total(u, a) > 0 /\ ~IsWinner(u, items[a]) /\ ~DustRefund(u, a) =>
             RefundGoesThrough(u, a)
      /\ /\ MaySettle(items[a]) /\ FeesFit(items[a], RoyaltyOf(items[a].nft))
         /\ IsSale(items[a]) => ~DustSale(items[a])
         => SettlementGoesThrough(a)

\* Rewards are amounts.
LEMMA RewardsNat ==
  ASSUME TypeOK, NEW a \in Auctions
  PROVE  /\ FullReward(items[a]) \in Nat
         /\ \A u \in Users : bids[a][u] # None => PartialReward(u, a) \in Nat
<1>1. OrZero(items[a].highest_bid) \in Nat
  BY OptionNat DEF TypeOK, ItemInfo
<1>2. \A u \in Users : bids[a][u] # None => bids[a][u].total_bid \in Nat
  BY DEF TypeOK, Option, BidInfo
<1>3. Config.sity_full_rewards \in Decimal /\ Config.sity_partial_rewards \in Decimal
  BY ConfigAssumption DEF ConfigType
<1> QED
  BY <1>1, <1>2, <1>3, DecMulNat DEF FullReward, PartialReward

\* A refund that is allowed is stopped by dust at most.
LEMMA RefundUnblocked ==
  ASSUME GoodBooks, stray \in Nat, stray <= MaxStray, NEW a \in Auctions, NEW u \in Users,
         Total(u, a) > 0, ~IsWinner(u, items[a]), ~DustRefund(u, a)
  PROVE  RefundGoesThrough(u, a)
<1>1. bids[a][u] # None /\ Total(u, a) = bids[a][u].total_bid
  BY DEF Total
<1>2. Sendable(Total(u, a)) /\ (EarnsPartialReward(u, a) => PartialReward(u, a) # 0)
  BY DEF DustRefund
<1>3. PartialReward(u, a) \in Nat
  BY <1>1, RewardsNat DEF GoodBooks
<1>4. EarnsPartialReward(u, a) => Cw20Accepts(PartialReward(u, a))
  BY <1>2, <1>3 DEF Cw20Accepts
<1>5. Total(u, a) \in Nat /\ Total(u, a) <= bank
  BY RefundCovered
<1>6. Outflow(Total(u, a)) \in Nat /\ Outflow(Total(u, a)) <= Total(u, a)
  BY <1>5, PayingOut
<1>7. bank \in Nat
  BY DEF GoodBooks, TypeOK
<1>8. Outflow(Total(u, a)) <= bank + 0 /\ Total(u, a) # 0 /\ stray + 0 <= MaxStray
  BY <1>5, <1>6, <1>7
<1> QED
  BY <1>1, <1>2, <1>4, <1>8 DEF RefundGoesThrough

\* A settlement that is allowed and whose fees fit is stopped by dust at most.
LEMMA SettlementUnblocked ==
  ASSUME GoodBooks, stray \in Nat, stray <= MaxStray, NEW a \in Auctions,
         MaySettle(items[a]), FeesFit(items[a], RoyaltyOf(items[a].nft)),
         IsSale(items[a]) => ~DustSale(items[a])
  PROVE  SettlementGoesThrough(a)
<1> DEFINE paid == Payouts(items[a], RoyaltyOf(items[a].nft))
<1>1. ~items[a].resolved
  BY DEF MaySettle
<1>2. nft_owner[items[a].nft] = Market
  BY <1>1, NftIsThere DEF GoodBooks
<1>3. ASSUME IsSale(items[a])
      PROVE  PayoutsGoThrough(paid, bank + 0) /\ Cw20Accepts(FullReward(items[a]))
  <2>1. FullReward(items[a]) \in Nat /\ FullReward(items[a]) # 0
    BY <1>3, RewardsNat DEF DustSale, GoodBooks
  <2>2. \A k \in 1 .. 4 : paid[k] # 0 => Sendable(paid[k])
    BY <1>3 DEF DustSale
  <2>3. Outflow(paid[1]) + Outflow(paid[2]) + Outflow(paid[3]) + Outflow(paid[4]) <= bank
    BY <1>1, <1>3, SharesCovered
  <2>4. bank + 0 = bank
    BY DEF GoodBooks, TypeOK
  <2> HIDE DEF paid
  <2> QED
    BY <2>1, <2>2, <2>3, <2>4 DEF PayoutsGoThrough, Cw20Accepts
<1>4. stray + 0 <= MaxStray
  OBVIOUS
<1> QED
  BY <1>2, <1>3, <1>4 DEF SettlementGoesThrough

\* What execute_retract_bids and execute_withdraw_nft let through is carried
\* out, unless something rounds to zero: the coins and the NFT are there, in
\* every configuration in which the fees fit into the price, whatever other
\* auctions, refunds, settlements and cancellations the contract has gone
\* through.
THEOREM NothingElseBlocksAlways == Spec => []NothingElseBlocks
<1>1. /\ TypeOK /\ TermsMet /\ OutcomesKept /\ WinnerEscrowed /\ SoldOnTheCreatorsTerms
      /\ NftCustody /\ Solvent /\ (stray \in Nat /\ stray <= MaxStray)
      => NothingElseBlocks
  BY RefundUnblocked, SettlementUnblocked DEF GoodBooks, NothingElseBlocks
<1> QED
  BY <1>1, TypeCorrect, TermsMetAlways, OutcomesKeptAlways, WinnerEscrowedAlways,
     SoldOnTheCreatorsTermsAlways, NftCustodyAlways, SolventAlways, StrayBoundedAlways,
     PTL DEF Spec

-----------------------------------------------------------------------------
(* Rewards in SITY. *)

\* A finite set of amounts has a largest one.
LEMMA LargestElement ==
  ASSUME NEW S \in SUBSET Nat, IsFiniteSet(S), S # {}
  PROVE  Max(S) \in S /\ \A y \in S : Max(S) >= y
<1> DEFINE B == {s \in SUBSET S : s # {} /\ ~\E m \in s : \A y \in s : m >= y}
<1>1. B = {}
  <2> SUFFICES ASSUME B # {} PROVE FALSE
    OBVIOUS
  <2>1. PICK s \in B : \A x \in s : s \ {x} \notin B
    <3>1. B \in SUBSET SUBSET S
      OBVIOUS
    <3> HIDE DEF B
    <3> QED
      BY <3>1, SmallestSubset
  <2>2. /\ s \in SUBSET Nat /\ s \in SUBSET S /\ s # {}
        /\ ~\E m \in s : \A y \in s : m >= y
    BY <2>1
  <2>3. PICK x \in s : TRUE
    BY <2>2
  <2>4. CASE s \ {x} = {}
    BY <2>2, <2>3, <2>4
  <2>5. CASE s \ {x} # {}
    <3>1. PICK m \in s \ {x} : \A y \in s \ {x} : m >= y
      BY <2>1, <2>2, <2>5
    <3>2. m \in Nat /\ x \in Nat /\ \A y \in s : y \in Nat
      BY <2>2, <3>1
    <3>3. CASE m >= x
      BY <2>2, <3>1, <3>3
    <3>4. CASE x > m
      <4>1. \A y \in s : x >= y
        BY <3>1, <3>2, <3>4
      <4> QED
        BY <2>2, <4>1
    <3> QED
      BY <3>2, <3>3, <3>4
  <2> QED
    BY <2>4, <2>5
<1>2. \E m \in S : \A y \in S : m >= y
  BY <1>1
<1> HIDE DEF B
<1> QED
  BY <1>2 DEF Max

\* The largest amount of a bidder's history; zero for an empty one.
LargestIn(h) == Max({0} \cup {h[k].amount : k \in DOMAIN h})

\* It is an amount, and no entry tops it.
LEMMA LargestInTops ==
  ASSUME NEW h \in Seq(HistoryBidInfo)
  PROVE  /\ LargestIn(h) \in {0} \cup {h[k].amount : k \in DOMAIN h}
         /\ LargestIn(h) \in Nat
         /\ \A k \in DOMAIN h : h[k].amount <= LargestIn(h)
<1> DEFINE all == {h[k].amount : k \in DOMAIN h}
           f == [k \in DOMAIN h |-> h[k].amount]
<1>1. IsFiniteSet(DOMAIN h) /\ \A k \in DOMAIN h : h[k].amount \in Nat
  <2>1. DOMAIN h = 1 .. Len(h) /\ Len(h) \in Nat
        /\ \A k \in DOMAIN h : h[k] \in HistoryBidInfo
    OBVIOUS
  <2> QED
    BY <2>1, FS_Interval DEF HistoryBidInfo
<1>2. IsFiniteSet(all)
  <2>1. f \in Surjection(DOMAIN h, all)
    BY DEF Surjection
  <2> HIDE DEF f, all
  <2> QED
    BY <1>1, <2>1, FS_Surjection
<1>3. {0} \cup all \in SUBSET Nat /\ {0} \cup all # {}
  BY <1>1
<1>4. IsFiniteSet({0} \cup all)
  <2>1. IsFiniteSet({0})
    BY FS_Singleton
  <2> QED
    BY <1>2, <2>1, FS_Union
<1>5. LargestIn(h) = Max({0} \cup all)
  BY DEF LargestIn
<1>6. \A k \in DOMAIN h : h[k].amount \in all
  OBVIOUS
<1> HIDE DEF all
<1>7. /\ LargestIn(h) \in {0} \cup all
      /\ \A y \in {0} \cup all : LargestIn(h) >= y
  BY <1>3, <1>4, <1>5, LargestElement
<1> QED
  BY <1>1, <1>3, <1>6, <1>7 DEF all

\* Another entry makes it no smaller, and may be the largest.
LEMMA LargestInGrows ==
  ASSUME NEW h \in Seq(HistoryBidInfo), NEW e \in HistoryBidInfo
  PROVE  LargestIn(Append(h, e)) >= LargestIn(h) /\ LargestIn(Append(h, e)) >= e.amount
<1> DEFINE g == Append(h, e)
<1>1. g \in Seq(HistoryBidInfo) /\ DOMAIN h \subseteq DOMAIN g
      /\ \A k \in DOMAIN h : g[k] = h[k]
  OBVIOUS
<1>2. Len(h) + 1 \in DOMAIN g /\ g[Len(h) + 1] = e
  OBVIOUS
<1> HIDE DEF g
<1>3. /\ LargestIn(g) \in Nat /\ \A k \in DOMAIN g : g[k].amount <= LargestIn(g)
      /\ LargestIn(h) \in {0} \cup {h[k].amount : k \in DOMAIN h}
  BY <1>1, LargestInTops
<1>4. LargestIn(h) <= LargestIn(g) /\ e.amount <= LargestIn(g)
  BY <1>1, <1>2, <1>3
<1>5. LargestIn(h) \in Nat /\ e.amount \in Nat
  BY LargestInTops DEF HistoryBidInfo
<1> QED
  BY <1>3, <1>4, <1>5 DEF g

\* A larger amount earns no smaller reward.
LEMMA DecMulMonotone ==
  ASSUME NEW x \in Nat, NEW y \in Nat, x <= y, NEW d \in Decimal
  PROVE  DecMul(x, d) \in Nat /\ DecMul(y, d) \in Nat /\ DecMul(x, d) <= DecMul(y, d)
<1>1. d \in Nat /\ SCALE \in Nat \ {0} /\ x * d \in Nat /\ y * d \in Nat
  BY ScaleAssumption, ProductNat DEF Decimal
<1>2. x * d <= y * d
  BY <1>1, ProductMonotone
<1>3. /\ DecMul(x, d) \in Nat /\ SCALE * DecMul(x, d) <= x * d
      /\ DecMul(y, d) \in Nat /\ y * d < SCALE * DecMul(y, d) + SCALE
  BY <1>1, DivBounds DEF DecMul
<1>4. SUFFICES ASSUME DecMul(y, d) + 1 <= DecMul(x, d) PROVE FALSE
  BY <1>3
<1>5. SCALE * (DecMul(y, d) + 1) <= SCALE * DecMul(x, d)
  BY <1>1, <1>3, <1>4, ProductMonotone
<1>6. SCALE * (DecMul(y, d) + 1) = SCALE * DecMul(y, d) + SCALE
      /\ SCALE * DecMul(y, d) \in Nat /\ SCALE * DecMul(x, d) \in Nat
  BY <1>1, <1>3
<1> QED
  BY <1>1, <1>2, <1>3, <1>5, <1>6

\* The partial reward that u has been given for auction a, at the most.
PartialGiven(u, a) ==
  IF bids[a][u] # None /\ bids[a][u].resolved
  THEN DecMul(LargestBid(u, a), Config.sity_partial_rewards)
  ELSE 0

\* What u has gained in auction a, at the most.
Gain(u, a) == PartialGiven(u, a) + SaleReward(u, a) - SityUsed(u, a)

\* The inductive invariant: nobody has more at stake than their largest bid,
\* a partial reward was given for resolved entries only, and nobody has more
\* SITY than the gains of all auctions add up to.
RewardsGiven ==
  /\ \A a \in Auctions, u \in Users : Total(u, a) <= LargestBid(u, a)
  /\ \A u \in Users :
       sity[u] <= SityEndowment[u]
                  + SumFunctionOnSet([a \in Auctions |-> Gain(u, a)], Auctions)

\* The parts of a gain are numbers.
GainTypes ==
  \A a \in Auctions, u \in Users :
    /\ LargestBid(u, a) \in Nat /\ SityUsed(u, a) \in Nat
    /\ SaleReward(u, a) \in Nat /\ PartialGiven(u, a) \in Nat
    /\ DecMul(LargestBid(u, a), Config.sity_partial_rewards) \in Nat
    /\ PartialGiven(u, a) <= DecMul(LargestBid(u, a), Config.sity_partial_rewards)
    /\ Gain(u, a) \in Int

\* The largest bid is the largest entry of the bidder's history.
LEMMA LargestBidIs ==
  \A u, a : LargestBid(u, a) = LargestIn(histories_bidder[a][u])
  BY DEF LargestBid, LargestIn

\* So they are in every well-typed state.
LEMMA GainsTyped == TypeOK => GainTypes
<1> SUFFICES ASSUME TypeOK, NEW a \in Auctions, NEW u \in Users
             PROVE  /\ LargestBid(u, a) \in Nat /\ SityUsed(u, a) \in Nat
                    /\ SaleReward(u, a) \in Nat /\ PartialGiven(u, a) \in Nat
                    /\ DecMul(LargestBid(u, a), Config.sity_partial_rewards) \in Nat
                    /\ PartialGiven(u, a)
                         <= DecMul(LargestBid(u, a), Config.sity_partial_rewards)
                    /\ Gain(u, a) \in Int
  BY DEF GainTypes
<1>0. Config.sity_partial_rewards \in Decimal /\ Config.sity_full_rewards \in Decimal
  BY ConfigAssumption DEF ConfigType
<1>1. LargestBid(u, a) \in Nat
  BY LargestBidIs, LargestInTops DEF TypeOK
<1>2. SityUsed(u, a) \in Nat
  <2>1. bids[a][u] # None => bids[a][u].sity_used \in Option(Nat)
    BY DEF TypeOK, Option, BidInfo
  <2> QED
    BY <2>1, OptionNat DEF SityUsed
<1>3. DecMul(LargestBid(u, a), Config.sity_partial_rewards) \in Nat
  BY <1>0, <1>1, DecMulNat
<1>4. /\ PartialGiven(u, a) \in Nat
      /\ PartialGiven(u, a) <= DecMul(LargestBid(u, a), Config.sity_partial_rewards)
  BY <1>3 DEF PartialGiven
<1>5. SaleReward(u, a) \in Nat
  <2>1. Sold(a) => outcome[a].price \in Nat
    BY DEF Sold, TypeOK, Option, Outcome
  <2>2. Sold(a) => DecMul(outcome[a].price, Config.sity_full_rewards) \in Nat
    BY <1>0, <2>1, DecMulNat
  <2> QED
    BY <2>2 DEF SaleReward
<1>6. Gain(u, a) \in Int
  BY <1>2, <1>4, <1>5 DEF Gain
<1> QED
  BY <1>1, <1>2, <1>3, <1>4, <1>5, <1>6

\* So the bound on the SITY of a user is a sum of integers.
GainsSum ==
  /\ IsFiniteSet(Auctions)
  /\ \A u \in Users : \A a \in Auctions : [b \in Auctions |-> Gain(u, b)][a] \in Int
  /\ \A u \in Users : SumFunctionOnSet([a \in Auctions |-> Gain(u, a)], Auctions) \in Int

LEMMA GainsAddUp == TypeOK => GainsSum
<1> SUFFICES ASSUME TypeOK PROVE GainsSum
  OBVIOUS
<1>1. IsFiniteSet(Auctions)
  BY FS_Interval DEF TypeOK, Auctions
<1>2. \A u \in Users : \A a \in Auctions : [b \in Auctions |-> Gain(u, b)][a] \in Int
  BY GainsTyped DEF GainTypes
<1>3. ASSUME NEW u \in Users
      PROVE  SumFunctionOnSet([a \in Auctions |-> Gain(u, a)], Auctions) \in Int
  BY <1>1, <1>2, SumTake
<1> QED
  BY <1>1, <1>2, <1>3 DEF GainsSum

\* A step that moves the gains of one auction, and mints no more than that.
LEMMA GainMoves ==
  ASSUME TypeOK, TypeOK', Auctions' = Auctions, RewardsGiven, NEW a \in Auctions,
         \A b \in Auctions, v \in Users : b # a => Gain(v, b)' = Gain(v, b),
         \A v \in Users : sity'[v] <= sity[v] + (Gain(v, a)' - Gain(v, a)),
         \A b \in Auctions, v \in Users : Total(v, b)' <= LargestBid(v, b)'
  PROVE  RewardsGiven'
<1> SUFFICES ASSUME NEW u \in Users
             PROVE  sity'[u] <= SityEndowment[u]
                                + SumFunctionOnSet([b \in Auctions' |-> Gain(u, b)'], Auctions')
  BY DEF RewardsGiven
<1> DEFINE old == [b \in Auctions |-> Gain(u, b)]
           new == [b \in Auctions |-> Gain(u, b)']
<1>1. IsFiniteSet(Auctions) /\ \A b \in Auctions : old[b] \in Int
  BY GainsAddUp DEF GainsSum
<1>2. GainTypes'
  BY GainsTyped, PTL
<1>3. \A b \in Auctions : new[b] \in Int
  BY <1>2 DEF GainTypes
<1>4. \A b \in Auctions \ {a} : old[b] = new[b]
  OBVIOUS
<1>5. old[a] = Gain(u, a) /\ new[a] = Gain(u, a)'
  OBVIOUS
<1>6. sity[u] <= SityEndowment[u] + SumFunctionOnSet(old, Auctions)
  BY DEF RewardsGiven
<1>7. SumFunctionOnSet(old, Auctions) \in Int
  BY GainsAddUp DEF GainsSum
<1>8. sity[u] \in Int /\ sity'[u] \in Int /\ SityEndowment[u] \in Int
  BY OutsideAssumption DEF TypeOK
<1>9. Gain(u, a) \in Int /\ Gain(u, a)' \in Int
  BY <1>1, <1>3, <1>5
<1>10. sity'[u] <= sity[u] + (Gain(u, a)' - Gain(u, a))
  OBVIOUS
<1>11. SumFunctionOnSet([b \in Auctions' |-> Gain(u, b)'], Auctions')
         = SumFunctionOnSet(new, Auctions)
  OBVIOUS
<1> HIDE DEF old, new
<1>12. SumFunctionOnSet(new, Auctions)
         = SumFunctionOnSet(old, Auctions) - old[a] + new[a]
  BY <1>1, <1>3, <1>4, SumUpdate
<1> QED
  BY <1>5, <1>6, <1>7, <1>8, <1>9, <1>10, <1>11, <1>12

\* A step that moves no gains, and mints nothing.
LEMMA GainsStay ==
  ASSUME TypeOK, Auctions' = Auctions, RewardsGiven, sity' = sity,
         \A b \in Auctions, v \in Users :
           /\ Gain(v, b)' = Gain(v, b)
           /\ Total(v, b)' = Total(v, b) /\ LargestBid(v, b)' = LargestBid(v, b)
  PROVE  RewardsGiven'
<1>1. \A u \in Users : [b \in Auctions' |-> Gain(u, b)'] = [b \in Auctions |-> Gain(u, b)]
  OBVIOUS
<1>2. \A u \in Users :
        sity'[u] <= SityEndowment[u]
                    + SumFunctionOnSet([b \in Auctions' |-> Gain(u, b)'], Auctions')
  BY <1>1 DEF RewardsGiven
<1> QED
  BY <1>2 DEF RewardsGiven

\* What the gain of v in auction b depends on.
LEMMA GainDependsOn ==
  ASSUME NEW b, NEW v, bids'[b][v] = bids[b][v],
         histories_bidder'[b][v] = histories_bidder[b][v],
         outcome'[b] = outcome[b], items'[b].creator = items[b].creator
  PROVE  /\ Gain(v, b)' = Gain(v, b)
         /\ Total(v, b)' = Total(v, b) /\ LargestBid(v, b)' = LargestBid(v, b)
         /\ SityUsed(v, b)' = SityUsed(v, b) /\ SaleReward(v, b)' = SaleReward(v, b)
<1>1. LargestBid(v, b)' = LargestBid(v, b)
  BY DEF LargestBid
<1>2. SityUsed(v, b)' = SityUsed(v, b) /\ SaleReward(v, b)' = SaleReward(v, b)
  BY DEF SityUsed, SaleReward, Sold
<1>3. PartialGiven(v, b)' = PartialGiven(v, b)
  BY <1>1 DEF PartialGiven
<1> QED
  BY <1>1, <1>2, <1>3 DEF Gain, Total

\* A new auction has given nobody anything.
LEMMA CreationRewards ==
  ASSUME TypeOK, TypeOK', RewardsGiven, NEW u \in Users, NEW n \in Nfts, NEW l \in Listings,
         CreateAuction(u, n, l)
  PROVE  RewardsGiven'
<1>0. PICK c \in Nat : c = counter_items
  BY DEF TypeOK
<1>1. /\ Auctions' = Auctions \cup {c} /\ c \notin Auctions
      /\ \A b \in Auctions : items'[b] = items[b] /\ bids'[b] = bids[b]
      /\ bids'[c] = [v \in Users |-> None]
  BY <1>0, CreateAuctionEffect
<1>2. /\ outcome' = NewEntry(outcome, None) /\ sity' = sity
      /\ histories_bidder' = NewEntry(histories_bidder, [v \in Users |-> << >>])
  BY DEF CreateAuction, ExecuteCreateAuction
<1>3. /\ outcome'[c] = None /\ \A b \in Auctions : outcome'[b] = outcome[b]
      /\ \A b \in Auctions : histories_bidder'[b] = histories_bidder[b]
  BY <1>0, <1>2 DEF NewEntry, Auctions
<1>4. \A b \in Auctions, v \in Users :
        /\ Gain(v, b)' = Gain(v, b)
        /\ Total(v, b)' = Total(v, b) /\ LargestBid(v, b)' = LargestBid(v, b)
  BY <1>1, <1>3, GainDependsOn
<1>5. \A v \in Users : Gain(v, c)' = 0 /\ Total(v, c)' = 0
  <2>1. \A v \in Users : bids'[c][v] = None /\ outcome'[c] = None
    BY <1>1, <1>3
  <2> QED
    BY <2>1 DEF Gain, PartialGiven, SaleReward, SityUsed, Sold, Total
<1>6. GainTypes' /\ GainsSum'
  BY GainsTyped, GainsAddUp, PTL
<1>7. ASSUME NEW v \in Users
      PROVE  sity'[v] <= SityEndowment[v]
                         + SumFunctionOnSet([b \in Auctions' |-> Gain(v, b)'], Auctions')
  <2> DEFINE E == Auctions'
             old == [b \in Auctions |-> Gain(v, b)]
             new == [b \in Auctions' |-> Gain(v, b)']
  <2>1. IsFiniteSet(E) /\ Auctions \in SUBSET E /\ \A b \in E \ Auctions : new[b] = 0
    BY <1>1, <1>5, <1>6 DEF GainsSum
  <2>2. \A b \in E : new[b] \in Int
    BY <1>6 DEF GainTypes
  <2>3. \A b \in Auctions : old[b] = new[b]
    BY <1>1, <1>4
  <2>4. IsFiniteSet(Auctions)
    BY GainsAddUp DEF GainsSum
  <2>5. sity'[v] <= SityEndowment[v] + SumFunctionOnSet(old, Auctions)
    BY <1>2 DEF RewardsGiven
  <2> HIDE DEF E, old, new
  <2>6. SumFunctionOnSet(new, E) = SumFunctionOnSet(new, Auctions)
    BY <2>1, <2>2, SumZeros
  <2>7. SumFunctionOnSet(new, Auctions) = SumFunctionOnSet(old, Auctions)
    BY <2>3, <2>4, SumAgree
  <2> QED
    BY <2>5, <2>6, <2>7 DEF new, E
<1>8. \A b \in Auctions', v \in Users : Total(v, b)' <= LargestBid(v, b)'
  BY <1>1, <1>4, <1>5, <1>6 DEF RewardsGiven, GainTypes
<1> QED
  BY <1>7, <1>8 DEF RewardsGiven

\* A bid earns nothing, but may become the largest of its bidder.
LEMMA BidRewards ==
  ASSUME TypeOK, TypeOK', RewardsGiven, NEW u \in Users, NEW a \in Auctions,
         NEW sent \in Amounts, PlaceBid(u, a, sent) \/ InstantBuy(u, a, sent)
  PROVE  RewardsGiven'
<1>1. /\ Auctions' = Auctions /\ items'[a].creator = items[a].creator
      /\ \A b \in Auctions : b # a => items'[b] = items[b]
      /\ \A b \in Auctions, v \in Users : b # a \/ v # u => bids'[b][v] = bids[b][v]
  BY BidEffect
<1>2. outcome' = outcome /\ sity' = sity
  BY DEF PlaceBid, InstantBuy
<1>3. PICK e \in HistoryBidInfo :
        /\ e.amount = BidTotal(u, a, sent)
        /\ histories_bidder'[a][u] = Append(histories_bidder[a][u], e)
        /\ \A b \in Auctions, v \in Users :
             b # a \/ v # u => histories_bidder'[b][v] = histories_bidder[b][v]
  BY BidRemembered
<1>4. \A b \in Auctions, v \in Users :
        b # a \/ v # u => /\ Gain(v, b)' = Gain(v, b)
                          /\ Total(v, b)' = Total(v, b)
                          /\ LargestBid(v, b)' = LargestBid(v, b)
  BY <1>1, <1>2, <1>3, GainDependsOn
<1>5. LargestBid(u, a)' >= LargestBid(u, a) /\ LargestBid(u, a)' >= BidTotal(u, a, sent)
  <2>1. histories_bidder[a][u] \in Seq(HistoryBidInfo)
    BY DEF TypeOK
  <2>2. LargestBid(u, a) = LargestIn(histories_bidder[a][u])
    BY LargestBidIs
  <2>3. LargestBid(u, a)' = LargestIn(histories_bidder'[a][u])
    BY DEF LargestBid, LargestIn
  <2> QED
    BY <1>3, <2>1, <2>2, <2>3, LargestInGrows
<1>6. GainTypes /\ GainTypes'
  BY GainsTyped, PTL
<1>7. SityUsed(u, a)' = SityUsed(u, a) /\ SaleReward(u, a)' = SaleReward(u, a)
  <2>1. SityUsed(u, a)' = SityUsed(u, a)
    BY BidEntry DEF SityUsed, OrZero
  <2> QED
    BY <1>1, <1>2, <2>1 DEF SaleReward, Sold
<1>8. PartialGiven(u, a)' >= PartialGiven(u, a)
  <2>1. DecMul(LargestBid(u, a), Config.sity_partial_rewards)
          <= DecMul(LargestBid(u, a)', Config.sity_partial_rewards)
    <3>1. /\ LargestBid(u, a) \in Nat /\ LargestBid(u, a)' \in Nat
          /\ LargestBid(u, a) <= LargestBid(u, a)'
      BY <1>1, <1>5, <1>6 DEF GainTypes
    <3>2. Config.sity_partial_rewards \in Decimal
      BY ConfigAssumption DEF ConfigType
    <3> QED
      BY <3>1, <3>2, DecMulMonotone
  <2>2. PartialGiven(u, a) \in Nat /\ PartialGiven(u, a)' \in Nat
    BY <1>1, <1>6 DEF GainTypes
  <2>3. CASE bids[a][u] # None /\ bids[a][u].resolved
    <3>1. bids'[a][u] # None /\ bids'[a][u].resolved
      BY <2>3, BidEntry
    <3> QED
      BY <2>1, <2>2, <2>3, <3>1 DEF PartialGiven
  <2>4. CASE ~(bids[a][u] # None /\ bids[a][u].resolved)
    <3>1. PartialGiven(u, a) = 0
      BY <2>4 DEF PartialGiven
    <3> QED
      BY <2>2, <3>1
  <2> QED
    BY <2>3, <2>4
<1>9. 0 <= Gain(u, a)' - Gain(u, a)
  <2>1. /\ PartialGiven(u, a) \in Nat /\ PartialGiven(u, a)' \in Nat
        /\ SityUsed(u, a) \in Nat /\ SaleReward(u, a) \in Nat
    BY <1>1, <1>6 DEF GainTypes
  <2> QED
    BY <1>7, <1>8, <2>1 DEF Gain
<1>10. ASSUME NEW v \in Users PROVE sity'[v] <= sity[v] + (Gain(v, a)' - Gain(v, a))
  <2>1. sity[v] \in Nat /\ Gain(v, a) \in Int /\ Gain(v, a)' \in Int
    BY <1>1, <1>6 DEF TypeOK, GainTypes
  <2> QED
    BY <1>2, <1>4, <1>9, <2>1
<1>11. \A b \in Auctions, v \in Users : Total(v, b)' <= LargestBid(v, b)'
  <2>1. Total(u, a)' = BidTotal(u, a, sent) /\ BidTotal(u, a, sent) \in Nat
    BY BidEffect, BidTotalNat
  <2>2. LargestBid(u, a)' \in Nat
    BY <1>1, <1>6 DEF GainTypes
  <2>3. Total(u, a)' <= LargestBid(u, a)'
    BY <1>5, <2>1, <2>2
  <2> QED
    BY <1>4, <2>3 DEF RewardsGiven
<1> QED
  BY <1>1, <1>4, <1>10, <1>11, GainMoves

\* A refund earns the partial reward once: the entry is resolved from then on.
LEMMA RefundRewards ==
  ASSUME TypeOK, TypeOK', RewardsGiven, NEW u \in Users, NEW a \in Auctions,
         NEW extra \in Extras, RetractBids(u, a, extra)
  PROVE  RewardsGiven'
<1> DEFINE bid == bids[a][u]
           earned == IF EarnsPartialReward(u, a) THEN PartialReward(u, a) ELSE 0
<1>1. /\ items' = items /\ outcome' = outcome /\ histories_bidder' = histories_bidder
      /\ Auctions' = Auctions
  BY SameAuctions DEF RetractBids, ExecuteRetractBids
<1>2. /\ bid \in BidInfo /\ bid # None /\ bids'[a][u] # None /\ bids'[a][u] \in BidInfo
      /\ bids'[a][u].total_bid = 0 /\ bids'[a][u].sity_used = bid.sity_used
      /\ \A b \in Auctions, v \in Users : b # a \/ v # u => bids'[b][v] = bids[b][v]
  BY RetractBidsEffect, NoneIsNoRecord
<1>3. bids'[a][u].resolved
  <2>1. bids' = [bids EXCEPT ![a][u] = [bid EXCEPT !.total_bid = 0, !.resolved = TRUE]]
    BY DEF RetractBids, ExecuteRetractBids
  <2>2. bids'[a][u] = [bid EXCEPT !.total_bid = 0, !.resolved = TRUE]
    BY <2>1 DEF TypeOK
  <2> QED
    BY <1>2, <2>2 DEF BidInfo
<1>4. \A b \in Auctions, v \in Users :
        b # a \/ v # u => /\ Gain(v, b)' = Gain(v, b)
                          /\ Total(v, b)' = Total(v, b)
                          /\ LargestBid(v, b)' = LargestBid(v, b)
  BY <1>1, <1>2, GainDependsOn
<1>5. /\ LargestBid(u, a)' = LargestBid(u, a) /\ SityUsed(u, a)' = SityUsed(u, a)
      /\ SaleReward(u, a)' = SaleReward(u, a)
  BY <1>1, <1>2 DEF LargestBid, SityUsed, SaleReward, Sold
<1>6. GainTypes /\ GainTypes'
  BY GainsTyped, PTL
<1>7. PartialGiven(u, a)' = DecMul(LargestBid(u, a), Config.sity_partial_rewards)
  BY <1>2, <1>3, <1>5 DEF PartialGiven
<1>8. bid.total_bid \in Nat /\ bid.total_bid <= LargestBid(u, a) /\ LargestBid(u, a) \in Nat
  BY <1>2, <1>6 DEF BidInfo, RewardsGiven, Total, GainTypes
<1>9. /\ PartialReward(u, a) \in Nat
      /\ PartialReward(u, a) <= DecMul(LargestBid(u, a), Config.sity_partial_rewards)
  BY <1>8, DecMulMonotone, ConfigAssumption DEF PartialReward, ConfigType
<1>10. earned \in Nat /\ earned <= PartialGiven(u, a)' - PartialGiven(u, a)
  <2>1. /\ PartialGiven(u, a) \in Nat
        /\ PartialGiven(u, a) <= DecMul(LargestBid(u, a), Config.sity_partial_rewards)
        /\ DecMul(LargestBid(u, a), Config.sity_partial_rewards) \in Nat
    BY <1>6 DEF GainTypes
  <2>2. EarnsPartialReward(u, a) => PartialGiven(u, a) = 0
    BY DEF EarnsPartialReward, PartialGiven
  <2>3. CASE EarnsPartialReward(u, a)
    BY <1>7, <1>9, <2>1, <2>2, <2>3
  <2>4. CASE ~EarnsPartialReward(u, a)
    BY <1>7, <2>1, <2>4
  <2> QED
    BY <2>3, <2>4
<1>11. earned <= Gain(u, a)' - Gain(u, a)
  <2>1. /\ PartialGiven(u, a) \in Nat /\ PartialGiven(u, a)' \in Nat
        /\ SityUsed(u, a) \in Nat /\ SaleReward(u, a) \in Nat
    BY <1>1, <1>6 DEF GainTypes
  <2> HIDE DEF earned
  <2> QED
    BY <1>5, <1>10, <2>1 DEF Gain
<1>12. sity'[u] = sity[u] + earned /\ \A v \in Users : v # u => sity'[v] = sity[v]
  <2>1. sity \in [Users -> Nat]
    BY DEF TypeOK
  <2>2. sity' = IF EarnsPartialReward(u, a)
                THEN [sity EXCEPT ![u] = @ + PartialReward(u, a)]
                ELSE sity
    BY DEF RetractBids, Minted
  <2> QED
    BY <2>1, <2>2
<1>13. ASSUME NEW v \in Users PROVE sity'[v] <= sity[v] + (Gain(v, a)' - Gain(v, a))
  <2>1. sity[v] \in Nat /\ Gain(v, a) \in Int /\ Gain(v, a)' \in Int
    BY <1>1, <1>6 DEF TypeOK, GainTypes
  <2> HIDE DEF earned
  <2>2. CASE v = u
    BY <1>10, <1>11, <1>12, <2>1, <2>2
  <2>3. CASE v # u
    BY <1>4, <1>12, <2>1, <2>3
  <2> QED
    BY <2>2, <2>3
<1>14. \A b \in Auctions, v \in Users : Total(v, b)' <= LargestBid(v, b)'
  <2>1. Total(u, a)' = 0 /\ LargestBid(u, a)' \in Nat
    BY <1>1, <1>2, <1>6 DEF Total, GainTypes
  <2>2. Total(u, a)' <= LargestBid(u, a)'
    BY <2>1
  <2> QED
    BY <1>4, <2>2 DEF RewardsGiven
<1> QED
  BY <1>1, <1>4, <1>13, <1>14, GainMoves

\* A settlement gives the full reward, to the creator and to somebody else.
LEMMA SaleRewards ==
  ASSUME TypeOK, TypeOK', OutcomesKept, RewardsGiven, NEW a \in Auctions,
         NEW extra \in Extras, WithdrawNft(a, extra)
  PROVE  RewardsGiven'
<1> DEFINE item == items[a]
           reward == FullReward(item)
<1>1. /\ bids' = bids /\ histories_bidder' = histories_bidder /\ Auctions' = Auctions
      /\ \A b \in Auctions : b # a => outcome'[b] = outcome[b]
  BY SameAuctions DEF WithdrawNft, ExecuteWithdrawNft, TypeOK
<1>2. \A b \in Auctions : items'[b].creator = items[b].creator
  BY SettlementKeepsAll DEF SameTerms
<1>3. \A b \in Auctions, v \in Users : b # a => Gain(v, b)' = Gain(v, b)
  BY <1>1, <1>2, GainDependsOn
<1>4. \A b \in Auctions, v \in Users :
        Total(v, b)' = Total(v, b) /\ LargestBid(v, b)' = LargestBid(v, b)
  BY <1>1 DEF Total, LargestBid
<1>5. outcome[a] = None /\ outcome'[a] # None /\ outcome'[a].sold = IsSale(item)
      /\ outcome'[a].bidder = item.highest_bidder
  BY SettledOnce, SettlementKept
<1>6. outcome'[a].price = OrZero(item.highest_bid)
  BY DEF WithdrawNft, ExecuteWithdrawNft, TypeOK
<1>7. GainTypes /\ GainTypes'
  BY GainsTyped, PTL
<1>8. \A v \in Users : /\ SaleReward(v, a) = 0
                       /\ Gain(v, a)' = Gain(v, a) + SaleReward(v, a)'
  <2>1. \A v \in Users : /\ PartialGiven(v, a)' = PartialGiven(v, a)
                         /\ SityUsed(v, a)' = SityUsed(v, a)
    BY <1>1 DEF PartialGiven, LargestBid, SityUsed
  <2>2. \A v \in Users : SaleReward(v, a) = 0
    BY <1>5 DEF SaleReward, Sold
  <2>3. \A v \in Users : /\ PartialGiven(v, a) \in Nat /\ SityUsed(v, a) \in Nat
                         /\ SaleReward(v, a)' \in Nat
    BY <1>1, <1>7 DEF GainTypes
  <2> QED
    BY <2>1, <2>2, <2>3 DEF Gain
<1>9. reward \in Nat
  <2>1. OrZero(item.highest_bid) \in Nat
    BY OptionNat DEF TypeOK, ItemInfo
  <2> QED
    BY <2>1, DecMulNat, ConfigAssumption DEF FullReward, ConfigType
<1>10. ASSUME NEW v \in Users PROVE sity'[v] <= sity[v] + SaleReward(v, a)'
  <2>0. SaleReward(v, a)' \in Nat /\ sity[v] \in Nat /\ sity \in [Users -> Nat]
    BY <1>1, <1>7 DEF GainTypes, TypeOK
  <2>1. CASE ~IsSale(item)
    <3>1. sity' = sity
      BY <2>1 DEF WithdrawNft
    <3> QED
      BY <2>0, <3>1
  <2>2. CASE IsSale(item)
    <3> DEFINE to == NewOwner(item)
    <3>1. to = item.highest_bidder /\ to # item.creator
      BY <2>2 DEF IsSale, NewOwner
    <3>2. sity' = [[sity EXCEPT ![item.creator] = @ + reward] EXCEPT ![to] = @ + reward]
      BY <2>2 DEF WithdrawNft, Minted
    <3>3. item.creator \in Users /\ to \in Users
      BY <2>2, <3>1 DEF TypeOK, ItemInfo, Option, IsSale, NewOwner
    <3>4. SaleReward(v, a)' = IF v \in {item.creator, to} THEN reward ELSE 0
      BY <1>2, <1>5, <1>6, <2>2, <3>1 DEF SaleReward, Sold, FullReward
    <3> HIDE DEF to, reward
    <3>5. CASE v = item.creator
      <4>1. sity'[v] = sity[v] + reward
        BY <2>0, <3>1, <3>2, <3>3, <3>5
      <4> QED
        BY <1>9, <2>0, <3>4, <3>5, <4>1
    <3>6. CASE v = to
      <4>1. sity'[v] = sity[v] + reward
        BY <2>0, <3>1, <3>2, <3>3, <3>6
      <4> QED
        BY <1>9, <2>0, <3>4, <3>6, <4>1
    <3>7. CASE v # item.creator /\ v # to
      <4>1. sity'[v] = sity[v]
        BY <2>0, <3>2, <3>3, <3>7
      <4> QED
        BY <2>0, <4>1
    <3> QED
      BY <3>5, <3>6, <3>7
  <2> QED
    BY <2>1, <2>2
<1>11. ASSUME NEW v \in Users PROVE sity'[v] <= sity[v] + (Gain(v, a)' - Gain(v, a))
  <2>1. sity[v] \in Nat /\ Gain(v, a) \in Int /\ SaleReward(v, a)' \in Nat
    BY <1>1, <1>7 DEF TypeOK, GainTypes
  <2> QED
    BY <1>8, <1>10, <2>1
<1> QED
  BY <1>1, <1>3, <1>4, <1>11, GainMoves DEF RewardsGiven

\* A registration costs what it is recorded with.
LEMMA RegistrationRewards ==
  ASSUME TypeOK, TypeOK', RewardsGiven, NEW u \in Users, NEW a \in Auctions,
         RegisterPrivateSale(u, a)
  PROVE  RewardsGiven'
<1> DEFINE sent == SityRequired(items[a])
<1>1. /\ items' = items /\ outcome' = outcome /\ histories_bidder' = histories_bidder
      /\ Auctions' = Auctions
  BY SameAuctions DEF RegisterPrivateSale, ExecuteRegisterPrivateSale
<1>2. /\ bids[a][u] = None /\ bids'[a][u] # None
      /\ bids'[a][u].total_bid = 0 /\ bids'[a][u].sity_used = sent
      /\ \A b \in Auctions, v \in Users : b # a \/ v # u => bids'[b][v] = bids[b][v]
  BY RegisterPrivateSaleEffect
<1>3. \A b \in Auctions, v \in Users :
        b # a \/ v # u => /\ Gain(v, b)' = Gain(v, b)
                          /\ Total(v, b)' = Total(v, b)
                          /\ LargestBid(v, b)' = LargestBid(v, b)
  BY <1>1, <1>2, GainDependsOn
<1>4. GainTypes /\ GainTypes'
  BY GainsTyped, PTL
<1>5. sent \in Nat /\ sent <= sity[u] /\ sity' = [sity EXCEPT ![u] = @ - sent]
  BY SityRequiredNat DEF RegisterPrivateSale, TypeOK
<1>6. sent # None
  BY <1>5, NoneAssumption
<1>7. PartialGiven(u, a) = 0 /\ SityUsed(u, a) = 0 /\ SityUsed(u, a)' = sent
      /\ SaleReward(u, a)' = SaleReward(u, a)
  BY <1>1, <1>2, <1>6 DEF PartialGiven, SityUsed, OrZero, SaleReward, Sold
<1> HIDE DEF sent
<1>8. 0 - sent <= Gain(u, a)' - Gain(u, a)
  <2>1. PartialGiven(u, a)' \in Nat /\ SaleReward(u, a) \in Nat
    BY <1>1, <1>4 DEF GainTypes
  <2> QED
    BY <1>5, <1>7, <2>1 DEF Gain
<1>9. ASSUME NEW v \in Users PROVE sity'[v] <= sity[v] + (Gain(v, a)' - Gain(v, a))
  <2>1. /\ sity[v] \in Nat /\ Gain(v, a) \in Int /\ Gain(v, a)' \in Int
        /\ sity \in [Users -> Nat]
    BY <1>1, <1>4 DEF TypeOK, GainTypes
  <2>2. CASE v = u
    <3>1. sity'[v] = sity[v] - sent
      BY <1>5, <2>1, <2>2
    <3> QED
      BY <1>5, <1>8, <2>1, <2>2, <3>1
  <2>3. CASE v # u
    <3>1. sity'[v] = sity[v]
      BY <1>5, <2>1, <2>3
    <3> QED
      BY <1>3, <2>1, <2>3, <3>1
  <2> QED
    BY <2>2, <2>3
<1>10. \A b \in Auctions, v \in Users : Total(v, b)' <= LargestBid(v, b)'
  <2>1. Total(u, a)' = 0 /\ LargestBid(u, a)' \in Nat
    BY <1>1, <1>2, <1>4 DEF Total, GainTypes
  <2>2. Total(u, a)' <= LargestBid(u, a)'
    BY <2>1
  <2> QED
    BY <1>3, <2>2 DEF RewardsGiven
<1> QED
  BY <1>1, <1>3, <1>9, <1>10, GainMoves

\* Every step keeps the invariant.
LEMMA RewardsStep ==
  ASSUME TypeOK, OutcomesKept, RewardsGiven, [Next]_vars
  PROVE  RewardsGiven'
<1>0. TypeOK'
  BY NextTypeOK
<1>1. ASSUME Auctions' = Auctions, sity' = sity, bids' = bids, outcome' = outcome,
             histories_bidder' = histories_bidder,
             \A b \in Auctions : items'[b].creator = items[b].creator
      PROVE  RewardsGiven'
  <2>1. \A b \in Auctions, v \in Users :
          /\ Gain(v, b)' = Gain(v, b)
          /\ Total(v, b)' = Total(v, b) /\ LargestBid(v, b)' = LargestBid(v, b)
    BY <1>1, GainDependsOn
  <2> QED
    BY <1>1, <2>1, GainsStay
<1>2. ASSUME NEW u \in Users, NEW n \in Nfts, NEW l \in Listings, CreateAuction(u, n, l)
      PROVE  RewardsGiven'
  BY <1>0, <1>2, CreationRewards
<1>3. ASSUME NEW u \in Users, NEW a \in Auctions, RegisterPrivateSale(u, a)
      PROVE  RewardsGiven'
  BY <1>0, <1>3, RegistrationRewards
<1>4. ASSUME NEW u \in Users, NEW a \in Auctions, NEW sent \in Amounts,
             PlaceBid(u, a, sent) \/ InstantBuy(u, a, sent)
      PROVE  RewardsGiven'
  BY <1>0, <1>4, BidRewards
<1>5. ASSUME NEW u \in Users, NEW a \in Auctions, NEW extra \in Extras,
             RetractBids(u, a, extra)
      PROVE  RewardsGiven'
  BY <1>0, <1>5, RefundRewards
<1>6. ASSUME NEW a \in Auctions, NEW extra \in Extras, WithdrawNft(a, extra)
      PROVE  RewardsGiven'
  BY <1>0, <1>6, SaleRewards
<1>7. ASSUME NEW u \in Users, NEW a \in Auctions, NEW extra \in Extras,
             CancelAuction(u, a, extra)
      PROVE  RewardsGiven'
  <2>1. \A b \in Auctions : items'[b].creator = items[b].creator
    BY <1>7, CancellationKeepsAll DEF SameTerms
  <2>2. /\ Auctions' = Auctions /\ sity' = sity /\ bids' = bids /\ outcome' = outcome
        /\ histories_bidder' = histories_bidder
    BY <1>7, SameAuctions DEF CancelAuction, ExecuteCancelAuction
  <2> QED
    BY <1>1, <2>1, <2>2
<1>8. CASE \/ Tick \/ UNCHANGED vars
           \/ \E u \in Users, fee \in RoyaltyFees, r \in Option(Users), extra \in Extras :
                UpdateRoyalty(u, fee, r, extra)
  <2>1. /\ Auctions' = Auctions /\ sity' = sity /\ bids' = bids /\ outcome' = outcome
        /\ histories_bidder' = histories_bidder /\ items' = items
    BY <1>8, SameAuctions DEF Tick, vars, UpdateRoyalty
  <2> QED
    BY <1>1, <2>1
<1> QED
  BY <1>2, <1>3, <1>4, <1>5, <1>6, <1>7, <1>8 DEF Next

\* It says more than RewardsBounded: what was given is within the limits.
LEMMA RewardsWithinLimits ==
  ASSUME TypeOK, RewardsGiven
  PROVE  RewardsBounded
<1> SUFFICES ASSUME NEW u \in Users
             PROVE  sity[u] <= SityEndowment[u]
                      + SumFunction([a \in Auctions |-> RewardLimit(u, a) - SityUsed(u, a)])
  BY DEF RewardsBounded
<1> DEFINE given == [a \in Auctions |-> Gain(u, a)]
           limit == [a \in Auctions |-> RewardLimit(u, a) - SityUsed(u, a)]
<1>1. \A a \in Auctions : given[a] \in Int /\ limit[a] \in Int /\ given[a] <= limit[a]
  BY GainsTyped DEF GainTypes, Gain, RewardLimit
<1>2. SumFunction(limit) = SumFunctionOnSet(limit, Auctions)
  BY DEF SumFunction
<1>3. sity[u] <= SityEndowment[u] + SumFunctionOnSet(given, Auctions)
  BY DEF RewardsGiven
<1>4. IsFiniteSet(Auctions)
  BY GainsAddUp DEF GainsSum
<1>5. sity[u] \in Int /\ SityEndowment[u] \in Int
  BY OutsideAssumption DEF TypeOK
<1> HIDE DEF given, limit
<1>6. SumFunctionOnSet(given, Auctions) <= SumFunctionOnSet(limit, Auctions)
  BY <1>1, <1>4, SumMonotone
<1>7. /\ SumFunctionOnSet(given, Auctions) \in Int
      /\ SumFunctionOnSet(limit, Auctions) \in Int
  BY <1>1, <1>4, SumTake
<1> QED
  BY <1>2, <1>3, <1>5, <1>6, <1>7 DEF limit

\* However often a bidder retracts and bids again, and in however many
\* auctions, nobody ends up with more SITY than the endowment, less what
\* registrations took, plus one partial reward of the largest bid for each
\* auction and one full reward for each sale they took part in.
THEOREM RewardsBoundedAlways == Spec => []RewardsBounded
<1>1. Init => RewardsGiven
  <2> SUFFICES ASSUME Init PROVE RewardsGiven
    OBVIOUS
  <2>1. Auctions = {} /\ sity = SityEndowment
    BY DEF Init, Auctions
  <2>2. \A u \in Users : SityEndowment[u] \in Nat
    BY OutsideAssumption
  <2>3. \A u \in Users : SumFunctionOnSet([a \in Auctions |-> Gain(u, a)], {}) = 0
    BY SumEmpty
  <2> QED
    BY <2>1, <2>2, <2>3 DEF RewardsGiven
<1>2. TypeOK /\ OutcomesKept /\ RewardsGiven /\ [Next]_vars => RewardsGiven'
  BY RewardsStep
<1>3. TypeOK /\ RewardsGiven => RewardsBounded
  BY RewardsWithinLimits
<1> QED
  BY <1>1, <1>2, <1>3, TypeCorrect, OutcomesKeptAlways, PTL DEF Spec
=============================================================================
