# Verification of the LoTerra NFT marketplace

TLA+ specifications of the CosmWasm contract in this repository, the TLC
configurations that check them on small instances, and theorems about them that
TLAPS checks for every instance.

Paths below are relative to the repository; `contract.rs` is `src/contract.rs`.

## The system

The repository is one contract. Users send it messages; each message is a
transaction: the handler reads and writes the storage and returns messages of
its own (bank transfers, cw20 and cw721 calls), which the chain carries out
before the next transaction. If the handler or any of those messages fails, the
whole transaction is undone.

| Part | State | Operations | Code |
|---|---|---|---|
| Auctions | `ITEMS`, `STATE.counter_items`, `BIDS`, `HISTORIES`, `HISTORIES_BIDDER`, the contract's bank balance, the NFTs it holds | list an NFT, place a bid, buy at the instant price, retract, settle, cancel | `contract.rs` 122-161, 279-1183, 1243-1352; `state.rs` |
| Private sales | entries of `BIDS` with `sity_used`; SITY balances | register by sending SITY, which is burnt | `contract.rs` 163-276 |
| Royalties | `ROYALTY` | set the fee and the recipient; read at settlement | `contract.rs` 569-587, 1185-1241 |
| Prices and shares | `CONFIG`, `CANCELLATION` (written once) | smallest bid, SITY price, cancellation fee, division of the price | in the handlers |
| Tax | none | `compute_tax`, `deduct_tax` | `taxation.rs` |
| Instantiation | `CONFIG`, `STATE.cw20_address` | `instantiate`, `reply` | `contract.rs` 38-97, 1354-1391 |
| Queries | none | auctions page by page, bids, histories, royalties | `contract.rs` 1393-1625 |
| Migration | none | `migrate`, whose body is commented out | `contract.rs` 1628-1648 |

The parts meet in three places. All auctions share **one bank balance**. The
**BIDS map** is written by registrations, bids, purchases and retractions, and the
mere presence of an entry is the right to bid in a private sale. And **end_time and
`resolved`** of an item are the only things that tell an open auction from one that
was bought out, cancelled, has ended or was settled; each handler compares them in
its own way.

What is hard here is not parallelism (transactions are serial) but the order of
transactions of different people: retractions between bids, bids, cancellations and
settlements in the last second, NFTs that are sold and listed again, changes of the
royalty between bid and settlement; agreement of four maps that are updated one
after the other; rounding at every fee and share against a shared balance; and messages of
a response any of which undoes everything. `PROJECT.json` lists these hazards
at their lines, with the properties that watch them.

What makes each part correct:

* Auctions: the buyer's money is there when it is paid out (`WinnerEscrowed`); the
  price only rises, by the margin (`LeaderOutbids`, `HighestBidTops`); an auction
  that is over is over (`ClosedForever`, `BoughtOutIsClosed`, `CancelledIsClosed`), and a
  settlement final but for one second (`OnlyTheLastSecondReopens`);
  the outbid have time to answer (`OutbidCanAnswer`); sales respect the creator's
  terms (`SoldOnTheCreatorsTerms`); each NFT is handed out once (`NftCustody`);
  the records agree (`HistoriesAgree`); everybody gets the NFT or the money
  (`EveryAuctionSettles`, `EveryBidderIsServed`).
* The shared balance: it covers all bids that are still to be returned
  (`Solvent`) and holds nothing else (`NothingStranded`).
* Private sales: only who has paid is in (`PrivateBiddersRegistered`).
* Rewards: SITY is minted once per bidder and auction (`RewardsBounded`).
* Prices, shares and tax: nothing is lost or paid twice in rounding
  (`PayoutsExhaustThePrice`, `DeductTaxIsTight`).
* All of it together: an auction is a lot of an abstract auction house
  (`ImplementsAuctionHouse`).
* Transactions: a call with all its messages is atomic (`AtomicMarketplace`), what a
  handler accepts is carried out unless an amount is dust (`AcceptedIsCarriedOut`,
  `OnlyDustBlocks`), the SITY contract is the right one (`WiredToSity`) and no SITY
  is kept (`NoSityKept`).
* Queries: a client that pages misses nothing and sees nothing twice (`SeenInOrder`,
  `EveryAuctionIsListed`), and what it was shown was true once and can be
  reconciled with later answers (`SeenIsPast`, `HistoryTellsWhatWasSeen`,
  `AnswersAreEnough`).

## The modules

| Module | What it is |
|---|---|
| `FixedPoint` | `Decimal`, products and ratios that round down, as cosmwasm_std has them |
| `Taxation` | `taxation.rs`, and what a taxed transfer costs the contract |
| `Pricing` | the amounts that the handlers compute |
| `Marketplace` | the storage and one action per message; `Spec`, `FairSpec` |
| `MarketplaceProperties` | everything claimed about `Marketplace` |
| `AuctionHouse` | an abstract auction house: lots, stakes, custody; no clock, no coins, no margins |
| `Refinement` | the mapping under which `Marketplace` implements `AuctionHouse` |
| `Transactions` | instantiation and reply; every call as a handler followed by its messages; commit and abort |
| `Paging` | the queries, and a client that reads while others trade |
| `MCMarketplace`, `MCPricing`, `MCRefinement`, `MCTransactions`, `MCPaging` | instances for TLC |
| `ArithmeticProofs` | division and products; a tax on top of an amount; sums over finite sets; no constants |
| `PricingProofs` | the properties of `MCPricing`, for every input |
| `MarketplaceProofs` | the cost of a transfer; effects of the operations; type correctness |
| `AuctionProofs` | the auction invariants; the rules of bidding and of a sale; the two histories |
| `MoneyProofs` | settlements that stand, solvency, nothing left over, what a payout needs, rewards |
| `RefinementProofs` | the marketplace is an auction house |
| `TransactionsProofs` | the wiring of the SITY contract; no SITY is kept; transactions are atomic and carried out |
| `PagingProofs` | the order of the keys; what a client of the queries can rely on |

Every module extends the ones above it that it needs; the constants and the
assumptions about them are declared where they are first used.

### How the state corresponds

`items`, `bids`, `histories`, `histories_bidder` and `royalty` are the maps of the
same names. The maps indexed by auctions have the auctions `0 .. counter_items - 1`
as their domain; an absent entry of `BIDS` or `ROYALTY` is `None` and an absent
history the empty sequence (the code never stores an empty one). `bank` is the
contract's balance of the configured denomination, `sity` the users' balances of the
SITY token and `nft_owner` the owner in the cw721 contracts. `now` is the block time.
`outcome` is a history variable: what an auction looked like when it was
settled. So is `stray`: the coins that came with messages whose handler does not
look at `info.funds` and that nobody can get back. `nft` stands for `nft_contract` and
`nft_id`. The address and the share in `charity` are reduced to the share, `time` in
the histories is left out, and who receives a royalty or the LOTA fee makes no
difference to the contract.

### How the actions correspond

| Action | Code | Remarks |
|---|---|---|
| `Tick` | the chain | block time never goes back; several transactions share a block time |
| `CreateAuction` | `execute_create_auction` | with the transfer of the NFT that precedes it |
| `RegisterPrivateSale` | `execute_register_private_sale` | SITY received and burnt in one step |
| `PlaceBid` | `execute_place_bid` | |
| `InstantBuy` | `execute_instant_buy` | it does not ask whether the auction has started |
| `RetractBids` | `execute_retract_bids` | with the refund, its tax and the partial reward |
| `WithdrawNft` | `execute_withdraw_nft` | with the NFT transfer, up to four payouts and two mints |
| `CancelAuction` | `execute_cancel_auction` | with the two halves of the fee |
| `UpdateRoyalty` | `execute_update_royalty` | |

The handlers that send messages of several kinds, and those that other contracts call,
are split in two: `Execute...` is what the handler checks and writes to the
storage, and the action adds the transfers. `Transactions` uses the `Execute...`
operators and carries out the transfers one at a time.

An action is a transaction that succeeds, so its guard contains the early returns of
the handler, the panics (`FeesFit` is the pair of unwrapped `checked_sub`) and the
conditions under which the bank, the cw20 and the cw721 contracts carry out the
messages: the balance suffices and **no amount is zero**. A failing transaction
changes nothing and is no step. In `CancelAuction`, the branch for an auction that
has bids but no bidder is kept although no reachable state takes it.

### Transactions

`Transactions` starts where the chain does: no contract, `cw20_address = None`.
`Instantiate` stores the contract's own address in place of the token's and asks for a
cw20 contract; `InstantiateCw20` and `Reply` follow in the same transaction. `tx` is
the transaction under way, or `Idle`: the messages still to be executed, depth first as the
chain does it, and the wiring it has to restore if it fails. The variables of
`Marketplace` are the committed state; the handlers work on a copy of it, the `draft_...`
variables, through `Draft`, an instance of `Marketplace`. `Commit` makes the draft the
state, `Abort` the state the draft. `Call...`, `SendNft`
and `SendCw20` begin one, `ReceiveNft` and `Receive` are the calls that a token
contract makes, `ExecuteSend`, `ExecuteMint`, `ExecuteBurn` and `ExecuteTransferNft`
carry out what the handlers return, each with the condition under which the bank or
the token contract accepts it. A step whose guard fails leaves only `Abort`, which is
also possible at any other point, since gas can run out. A foreign cw20 contract may
call `Receive`, too. `AtomicMarketplace` is `Spec` of `Marketplace`, said of the
committed state.

### The auction house

`AuctionHouse` knows lots with a piece, a seller, a reserve, a price, a leader and
stakes, and six moves: enlist, raise, leave, abandon, settle, and time closing some
lots. Under `Refinement` a stake is `total_bid`, a lot is closed when its `end_time`
is in the past and settled when it is `resolved`. Placing a bid and buying are both
`Raise`, the latter closing the lot; a cancellation is `Abandon`; a block is `Close`;
registrations and royalties are stuttering. What each move may not do, such as a bound
leader leaving or a closed lot taking another stake, is what the marketplace inherits.

### Queries

`AllAuctions`, `Auction`, `Bidder`, `HistoryBids`, `HistoryBidderBids` and
`RoyaltyOffered` are the six queries over the maps. Storage keys are sequences of
bytes and compared byte by byte; a byte has `BYTE` values and a key `KEY_BYTES` of
them, which number at least `MaxAuctions` auctions (`KeyAssumption`). `seen` is what a client was shown so far, and when; it is not part of the
contract. `query_config` and `query_state` return constants and the counter.

### Numbers

Amounts are unbounded naturals. The sums of the code use `checked_add` and abort on
overflow of 128 bits, which would need more coins than exist; nothing wraps. Time
is in units of which `MIN_TIME_AUCTION`, `MAX_TIME_AUCTION` and
`LAST_MINUTE_BID_EXTRA_TIME` are multiples chosen per run.

Operators whose comment starts with "Mutant" are deliberate mistakes that nothing
uses. `PROJECT.json` pairs each property of a passing run with one of them: put in
the place of the operator after it, it makes TLC report the property.

## The runs

All runs say `CHECK_DEADLOCK FALSE`: with the bounds on time and bids the behaviour
really ends, in a state where everything is settled and returned.

| Run | Question | Instance |
|---|---|---|
| `public_sale` | types, escrow, prices, closing, finality, histories, extension; refinement | creator and 3 interchangeable bidders, 1 NFT, up to 4 bids of 1, 3 or 6; a listing with start price 3, reserve 6 and instant price 9, and one that starts late |
| `private_sale` | registration, rewards; refinement | 2 bidders with different amounts of SITY, up to 4 bids |
| `two_auctions` | solvency, nothing left over, refunds and settlements that go through, custody | two NFTs of two owners, one of whom also bids; up to 2 auctions, at once or of the same NFT one after the other |
| `taxed_settlement` | solvency under tax, fees, royalty, charity; only dust blocks | amounts 20 and 33 that round everywhere, tax 15% capped at 2, a royalty that changes, charity of 35% and of 100%, one coin that is sent along with a message that takes none |
| `transactions` | atomicity, wiring, failing messages | a private sale with charity, royalty and tax, 2 bidders, bids of 20 and 40, SITY and a foreign cw20 token in amounts 1 and 6, one of which is the right registration |
| `paging` | order and completeness of pages | up to 3 auctions of 2 NFTs, keys of two bytes of two values, pages of 0, 1 or 2 |
| `client_view` | what a client can conclude | one short public or private sale of an NFT its seller minted, 2 interchangeable bidders, 2 bids, pages as above, all queries |
| `settles` | liveness; nothing left over where coins come along | one auction with a reserve price, 2 bidders, a cancellation fee, one coin that is sent along with a message that takes none |
| `pricing` | arithmetic | amounts 0-60, five rates, three caps, charity and royalty |
| `late_bid` | finding | as `settles`, with no coins sent along and bids of 5 |
| `quoted_price` | finding | as `private_sale` |
| `free_cancel` | finding | as `settles`, with bids of 2 and 4 and the cancellation fee of zero that `instantiate` writes |

**Bounds.** `MaxTime`, `MaxAuctions` and `MaxBids` bound time, auctions and bids per
auction; `Amounts` and `Listings` are the messages that are sent. `SCALE = 20` makes
a Decimal a number of twentieths, so that the margins, fees and halves round on
amounts this small. Three bidders are enough for one who leads, one who was outbid
and one who retracted. Four bids are enough to be outbid, retract, come back and be
outbid again. `MaxTime` leaves room for the end, an extension, and the second
of the end as well as the time after it. Two auctions are enough for one to spend
what belongs to the other. In `paging`, the third auction is the first whose number needs
the other byte of the key, so a page boundary can fall before and after it; the limits
asked for are none, zero and more than the largest page. `symmetry` is used where the bidders have the same
endowment and no liveness is checked.

**The cancellation fee.** `instantiate` writes a fee of zero, with which an auction that has a
bid cannot be cancelled (finding `free_cancel`). The other runs give it a value, as the
test of the cancellation does, so that a cancellation with a bid is reached; in `settles`
this adds the bidder of a cancelled auction to those who must be served, and takes no
behaviour away.

**Settlements that stand.** `Solvent` and `NothingStranded` speak of states in which
no settled auction was bid on or cancelled afterwards (`SettlementStands`). The code
allows that for one second, which is the first finding; what is owed to
whom is then no longer defined. `EveryBidderIsServed` makes the same exception: the
bidder of a reopened auction is not served, and the finding is about that.

**Fairness.** `FairSpec` is weakly fair to `Tick`, because blocks keep coming; to
`WithdrawNft` of each auction, because anybody may send it and creator and winner
both want to; and to `RetractBids` of each bidder, because it is the bidder's own
money. Nothing else is fair: nobody has to bid, buy or cancel. With a
listing that asks for no more than amounts the chain can send, each of them
stays enabled until it is taken or no longer needed. Where an amount rounds to zero
this fails: a partial reward of zero, or a share that the tax reduces to zero,
makes the transaction fail each time, and the model has these guards.
`OnlyDustBlocks` says exactly which amounts these are, and that a refund or settlement
that is allowed is never stopped by anything else. `SpecReader` in `Paging` is weakly
fair to the client's reading: an assumption about the client, not about the contract,
as completeness can only be claimed for a client that goes on.

## Findings

* `late_bid`. `WithdrawNft` is accepted from the second of `end_time` on
  (`contract.rs:594`), bids, purchases and cancellations up to and including it
  (`:805`, `:1020`, `:1257`), and none of the latter looks at `resolved`. In the run, an auction
  with reserve price 4 is settled without a bid, the NFT goes back to the creator, and a bid
  of 5 follows in the same second. Its bidder counts as the winner and cannot retract
  (`:437-441`), and a second settlement is refused (`:589`). The price has to meet the
  reserve for that, which is why the run has bids of 5 only: whoever bids less in that
  second can still retract.
* `quoted_price`. "Registration amount required {0} SITY token" (`error.rs:39`)
  names `highest_bid * sity_fee_registration` once there is a bid (`contract.rs:820`,
  `:1033`); `RegisterPrivateSale` requires `sity_min_opening` on top (`:225`).
* `free_cancel`. "You need to pay fees for canceling this auction please send {0} {1}"
  (`error.rs:57`) asks for a coin of amount zero with the configuration that
  `instantiate` writes (`contract.rs:66`) and no message changes; the chain carries
  no such coin, and without one the handler answers `EmptyFunds` (`contract.rs:1269`).
  An auction with a bid cannot be cancelled. The test of the cancellation writes
  another fee into the storage first (`contract.rs:3699`).

## What is proved

TLAPS checks the following for every set of users and NFTs, every configuration,
every listing and every value of the times, without bounds on time, auctions or bids
(the bounds are constants of which only `\in Nat` is assumed). The assumptions are
the named `ASSUME`s of the modules: constants have their types, `None` is not a
value, block times are at least `MIN_TIME_AUCTION`, and there are finitely many users (an
address is a string of bounded length; the sums over users need it).

* `OutflowCovered` (`MarketplaceProofs`): sending `deduct_tax(g)` costs at most `g`. The
  argument is `UntaxedIsCovered` of `ArithmeticProofs`: with `n = g * s \div (r + s)`, the tax
  on `n` is at most `g - n`, and a cap below that only makes the tax smaller.
  `UntaxedIsTight` is the other bound of the same division: two units more than what is left
  of `g` could not be paid for.
* `DeductTaxIsTightAlways`, `PayoutsExhaustThePriceAlways` (`PricingProofs`): what the
  run `pricing` checks for amounts up to 60, for all of them, for any scale of a Decimal and any
  set of rates and caps. They rest on the same lemmas of `ArithmeticProofs`, which has
  no constants because the rate and the cap are variables in `MCPricing` and constants in
  `Taxation`.
* `SharesOfThePrice`, `TypeCorrect` (`MarketplaceProofs`). `TypeOK` is inductive by
  itself. It contains more than types: that the charity's share is at most one is
  what makes the creator's share an amount, and that no time is before `Genesis` is
  what makes `now - MIN_TIME_AUCTION` one.
* `WinnerEscrowedAlways`: inductive with `TypeOK`. A bid makes bidder and price agree;
  a retraction is refused exactly to the bidder the invariant speaks of.
* `BoughtOutIsClosedAlways`: the end of a bought-out auction is in the past, so that no
  later bid touches it.
* `HighestBidTopsAlways`: needs `BoughtOutIsClosed` as strengthening. A
  purchase sets the price to the instant price without comparing it with the
  highest bid; that it is not lower follows from bids staying below it.
* `ClosedForeverAlways`: an action property, from `TypeOK`.
* `CancelledIsClosedAlways`, `NftCustodyAlways`, `PrivateBiddersRegisteredAlways`:
  inductive with `TypeOK`. For the custody, a new auction takes an NFT the contract
  did not hold, and a settlement moves that of the one auction it resolves.
* `LeaderOutbidsAlways`, `OutbidCanAnswerAlways`, `SoldOnTheCreatorsTermsAlways`
  (`AuctionProofs`). The last needs `TermsMet`: a leader of an auction is a bidder of it
  with a history, not its creator, and its price is at least the start price. It has
  to speak of every auction and not only of sold ones, because the settlement
  only copies what the bids established; and of a cancelled one only what remains
  true without a leader. It also keeps of `ValidPrices` that the start price is below the
  instant price: a purchase does not compare its price with the start price.
* `OnlyTheLastSecondReopensAlways` (`MoneyProofs`): a settlement that stands is undone by a
  step only in the second of `end_time`, where the first finding is. `end_time` may have been
  moved by bids since the settlement; the invariant `SettledInTime` says that as long as the
  settlement stands it is not after the present, because the only steps that move it
  forward count a bid, and then the settlement does not stand any more.
* `HistoriesAgreeAlways` (`AuctionProofs`): the bids of a user in `HISTORIES` are, in their
  order, those in `HISTORIES_BIDDER`. The invariant holds of each auction and needs
  `HighestBidTops`: the two records of a new bid agree on its amount because what the bidder
  has staked, from the one map, is what the auction's highest bid becomes in the other.
* `SolventAlways`, `NothingStrandedAlways`, `RewardsBoundedAlways` (`MoneyProofs`). The
  first two speak of sums over all auctions and all users. No induction is needed for them:
  a step changes one auction, or one stake, and `SumUpdate` tells how a sum moves with
  one of its terms. The balance minus everything owed never falls (`SurplusMoves`), and without
  tax it grows by nothing but `stray` coins and the unit that is lost when a
  cancellation fee is halved, so `NothingStranded` is stated for `TaxRate = 0`. The step of a
  settlement needs `OutcomesKept`: what `outcome` recorded at the settlement is what
  the auction still looks like, as long as the settlement stands. For the rewards
  the invariant is that a bidder has been given at most what the auctions so far allow: a
  partial reward is at most the whole one, and whoever retracts has no stake left to be
  rewarded for at the settlement.
* `NothingElseBlocksAlways` (`MoneyProofs`): what `OnlyDustBlocks` says, with the guards of
  the two actions where the latter has `ENABLED`. Whoever may retract is owed their
  stake, so by `Solvent` the balance is enough for it (`RefundCovered`). The price of a sale
  that was not settled is still owed to its bidder (`PriceCovered`, by `WinnerEscrowed`),
  the four shares add up to it, and each costs at most itself (`SharesCovered`); by
  `NftCustody` the NFT is there. `RefundIsThat` and `SettlementIsThat` say that the guards are the
  whole of them: where they hold the action has a successor state. What remains
  are amounts that round to zero and fees that exceed the price (`FeesFit`).
* `Implementation` (`RefinementProofs`): `Spec => ImplementsAuctionHouse`, for
  `Prices = Nat`. Initial states map to initial states; each action maps to one move or
  to a stutter, by the guards, `TypeOK` and `BoughtOutIsClosed` (a purchase does not lower
  the price, although it does not compare the two).
  A settled lot that is bid on again in its last second, the first finding, is
  allowed by the auction house: it promises nothing about the order of `Settle` and
  `Close`. That is why `SettledAuctionIsFinal` is a property of its own.
* `WiredAlways` and `NoSityKeptAlways` (`TransactionsProofs`). Neither is inductive: in
  the middle of a transaction the address may be the contract's own and SITY may
  be held. `WiringInv` says which messages are waiting then: the instantiation of
  the token, its reply, a token that was received, SITY of the same amount to
  be burnt, or any list of messages that concern neither (`Quiet`); and that the
  state to return to is in order.
* `TransactionsAreAtomic` (`TransactionsProofs`): `SpecTx => AtomicMarketplace`, so that what
  is proved of `Spec` holds of what is committed. A commit has to be an action
  of `Marketplace`, guard and all, but when it happens the guards have long been
  checked, some of them by the bank and the token contracts in between. The
  invariant `StageInv` remembers them. Besides the types it has one disjunct for each
  kind of transaction (`ListingUnderWay`, `SettlementUnderWay`, ...), which says by how much
  the draft differs from what is committed: what the handler decided and wrote
  (`SettlementDecided`), and which of its messages have been executed, with the conditions
  under which they were, and which are waiting (`SaleProgress`, `SharesSent`). The proof
  has three parts, one for each kind of step: `...Begins` for the calls, `...GoesOn` for the
  messages, both of which commit nothing, and `...Commits` for the atomic action that is
  complete when no message is left. It needs `WiringInv`, because a mint or a burn is
  accepted from nobody but the contract that SITY obeys. That `0 \in Extras` is
  assumed for it: a cancellation that is charged a fee is the atomic action with nothing
  sent along.
* `AcceptedIsCarriedOutAlways` (`TransactionsProofs`): when a message is next, what it needs is
  there. Each disjunct of `StageInv` says which messages are waiting and what was paid
  already; what is left of the shares is covered by what is left of the price, which
  the committed state covers (`Solvent`), since the draft differs from it by the messages
  that have been executed and nothing else. `MissesNothing` puts the cases together.
* `PromisesKept` (`TransactionsProofs`): by `TransactionsAreAtomic`, everything proved of `Spec` is
  true of what is committed in `SpecTx`.
* `SeenInOrderAlways`, `SeenIsPastAlways`, `HistoryTellsWhatWasSeenAlways`,
  `AnswersAreEnoughAlways` (`PagingProofs`), for keys of any length and pages of any size. A
  behaviour of `SpecReader` is one of `Spec`, so that what is proved above can be used.
  - `KeyOrderExact`: the key of one number is before that of another exactly if the number
    is smaller. The first byte that two keys differ in is the least element of a set
    of positions; the part of the numbers above it agrees and that byte decides.
    `PageContents` then says which auctions a page holds. `SeenInOrder` is part of the
    invariant `Paged`: what was seen are the auctions from 0 up to the last one seen.
  - The invariant `SeenFits` says of each entry that was seen that the auction's present state may
    follow it (`Past`), and that the auction's history tells of it (`Told`). A step
    keeps the first because `Later` is transitive, and because of the argument of
    `ClosedForever`; the second because histories only grow. When an entry is read, its
    history tells of it by `LastLeads`: as long as there is a highest bidder, the last
    bid of the history is theirs. `HistoryTellsWhatWasSeen` follows with
    `HistoriesAgree`.
  - For `AnswersAreEnough` the invariant `Counted` says that whoever has an entry in
    a public sale has a counter above zero; `PrivateBiddersRegistered` covers the
    private ones.

Facts about sums are induction over the set that is summed, and the library's induction
theorems cannot be used with the installed provers. `ArithmeticProofs` replaces them by one
argument: if a fact fails for some finite set, there is a smallest set it fails for
(`SmallestSubset`, from the least element of a set of naturals), and what
`SumTake` says of taking one element out of it is a contradiction.

Only model-checked: `OnlyDustBlocks`, because of `ENABLED` (its content is
`NothingElseBlocksAlways`), and the liveness properties `EveryAuctionSettles`,
`EveryBidderIsServed` and `EveryAuctionIsListed`, which are out of the prover's reach.

## What is not modelled

* `migrate`, which changes nothing; messages, errors and schema as data formats; the
  tests and their mock querier.
* Token contracts that do not behave like cw20_base and cw721: one that calls
  back into the marketplace while it executes a message, or that calls `ReceiveNft`
  without having transferred the NFT.
* A minter of an NFT that is no address of this chain: the `addr_canonicalize` of
  `contract.rs:560` and `:566` fails then, and so does the settlement, each time.
* SITY or other tokens that are transferred to the contract without `Send`, and coins
  of other denominations; a transaction with several messages of the user; what a call
  costs in gas (only that it can run out).
* The recipients of royalties and of the LOTA fee, and the charity's address, since
  what they do with their money does not come back to the contract.

## Plan

Done: all handlers, instantiation, reply and queries, with the properties and proofs
above. What would add most from here:

* A ledger of payouts per recipient, to state who gets which share and not only that the
  contract has it.
