---------------------------- MODULE Transactions ----------------------------
(***************************************************************************)
(* How the chain carries out a call of the marketplace: the handler runs   *)
(* on the storage and returns messages, each message is executed in turn   *)
(* and may return further ones, which come first; if anything fails, or    *)
(* the gas runs out, nothing of the transaction remains.  The variables of *)
(* Marketplace are the state that is committed; a transaction works on a   *)
(* draft of it, which takes its place when all messages are executed.      *)
(* It begins where Marketplace does not: with instantiate and the reply    *)
(* that tells the contract which cw20 contract is its SITY token.          *)
(*                                                                         *)
(* The other contracts are those of cw20_base and cw721: they send no      *)
(* messages but the Receive and ReceiveNft that a Send and a SendNft ask   *)
(* for.                                                                    *)
(***************************************************************************)
EXTENDS MarketplaceProperties

CONSTANTS
  Sity,          \* the address that the chain gives to the SITY contract
  ForeignCw20,   \* a cw20 contract that has nothing to do with the marketplace
  Cw20Amounts    \* the amounts of tokens that are sent to the marketplace

ASSUME TokenAssumption ==
  /\ Sity \notin {None, Market, ForeignCw20}
  /\ ForeignCw20 \notin {None, Market}
  /\ Cw20Amounts \subseteq Nat

VARIABLES
  \* The draft of a transaction, a copy of the state where none is under way.
  draft_counter_items, draft_items, draft_bids, draft_histories, draft_histories_bidder,
  draft_royalty, draft_bank, draft_stray, draft_sity, draft_nft_owner, draft_outcome,
  cw20_address,   \* STATE.cw20_address, None before instantiate
  sity_minter,    \* who may mint SITY, None before there is such a contract
  held,           \* the SITY balance of the marketplace
  tx              \* the transaction under way, or Idle

wiring == << cw20_address, sity_minter, held >>
storage == << draft_counter_items, draft_items, draft_bids, draft_histories,
              draft_histories_bidder, draft_royalty, draft_outcome >>
draft == << storage, draft_bank, draft_stray, draft_sity, draft_nft_owner >>
allVars == << vars, draft, wiring, tx >>

\* The handlers at work on the draft.
Draft == INSTANCE Marketplace WITH
  counter_items <- draft_counter_items, items <- draft_items, bids <- draft_bids,
  histories <- draft_histories, histories_bidder <- draft_histories_bidder,
  royalty <- draft_royalty, bank <- draft_bank, stray <- draft_stray,
  sity <- draft_sity, nft_owner <- draft_nft_owner, outcome <- draft_outcome

-----------------------------------------------------------------------------
(* Transactions and messages. *)

\* No transaction is under way.
Idle == [open |-> FALSE, msgs |-> << >>, before |-> << >>]

\* One begins, and remembers what a failure takes it back to.
Begin(msgs) ==
  /\ ~tx.open
  /\ tx' = [open |-> TRUE, msgs |-> msgs,
            before |-> [cw20_address |-> cw20_address, sity_minter |-> sity_minter,
                        held |-> held]]

\* A transaction that calls the marketplace, which has to exist.
Call(msgs) == cw20_address # None /\ Begin(msgs)

Message == Head(tx.msgs)

Executes(type) == tx.open /\ tx.msgs # << >> /\ Message.type = type

\* The messages that are returned come before those that are still waiting.
Respond(msgs) == tx' = [tx EXCEPT !.msgs = msgs \o Tail(@)]

BankSend(gross) == [type |-> "send", amount |-> gross]

MintMessage(u, amount) ==
  [type |-> "mint", token |-> cw20_address, recipient |-> u, amount |-> amount]

BurnMessage(amount) == [type |-> "burn", token |-> cw20_address, amount |-> amount]

TransferNft(n, u) == [type |-> "transfer_nft", nft |-> n, recipient |-> u]

-----------------------------------------------------------------------------
(* What the handlers ask for. *)

\* Mutant: the tokens of a registration stay with the contract.
RegisterMessagesNone(amount) == << >>

RegisterMessages(amount) == << BurnMessage(amount) >>

RetractMessages(u, a) ==
  << BankSend(draft_bids[a][u].total_bid) >>
  \o IF Draft!EarnsPartialReward(u, a)
     THEN << MintMessage(u, Draft!PartialReward(u, a)) >>
     ELSE << >>

\* A share of zero is not sent.
SendShare(share) == IF share = 0 THEN << >> ELSE << BankSend(share) >>

\* Mutant: both rewards go to the creator.
WithdrawMessagesOneSided(a) ==
  LET item == draft_items[a]
      reward == FullReward(item)
      paid == Payouts(item, Draft!RoyaltyOf(item.nft))
  IN  << TransferNft(item.nft, NewOwner(item)) >>
      \o IF ~IsSale(item)
         THEN << >>
         ELSE << MintMessage(item.creator, reward), MintMessage(item.creator, reward) >>
              \o SendShare(paid[1]) \o SendShare(paid[2])
              \o SendShare(paid[3]) \o SendShare(paid[4])

WithdrawMessages(a) ==
  LET item == draft_items[a]
      reward == FullReward(item)
      paid == Payouts(item, Draft!RoyaltyOf(item.nft))
  IN  << TransferNft(item.nft, NewOwner(item)) >>
      \o IF ~IsSale(item)
         THEN << >>
         ELSE << MintMessage(item.creator, reward), MintMessage(NewOwner(item), reward) >>
              \o SendShare(paid[1]) \o SendShare(paid[2])
              \o SendShare(paid[3]) \o SendShare(paid[4])

CancelMessages(a) ==
  LET item == draft_items[a]
      fee == CancellationFee(item)
  IN  IF item.highest_bid = None THEN << >>
      ELSE IF item.highest_bidder = None THEN << BankSend(fee) >>
      ELSE << BankSend(Half(fee)), BankSend(Half(fee)) >>

-----------------------------------------------------------------------------
(* The marketplace comes into being.  Until the reply its own address stands
   for the token. *)

Instantiate ==
  /\ cw20_address = None
  /\ Begin(<< [type |-> "instantiate_cw20", minter |-> Market] >>)
  /\ cw20_address' = Market
  /\ UNCHANGED << vars, draft, sity_minter, held >>

\* The new contract, and the reply that was asked for on success.
InstantiateCw20 ==
  /\ Executes("instantiate_cw20")
  /\ sity_minter' = Message.minter
  /\ Respond(<< [type |-> "reply", contract_address |-> Sity] >>)
  /\ UNCHANGED << vars, draft, cw20_address, held >>

\* Mutant: the address is not stored.
ReplyForgetful ==
  /\ Executes("reply")
  /\ Respond(<< >>)
  /\ UNCHANGED << vars, draft, wiring >>

Reply ==
  /\ Executes("reply")
  /\ cw20_address' = Message.contract_address
  /\ Respond(<< >>)
  /\ UNCHANGED << vars, draft, sity_minter, held >>

-----------------------------------------------------------------------------
(* Calls by way of another contract. *)

SendNft(u, n, l) ==
  /\ Call(<< [type |-> "receive_nft", sender |-> u, nft |-> n, listing |-> l] >>)
  /\ draft_nft_owner[n] = u
  /\ draft_nft_owner' = [draft_nft_owner EXCEPT ![n] = Market]
  /\ UNCHANGED << vars, storage, draft_bank, draft_stray, draft_sity, wiring >>

\* Any cw721 contract may call it.
ReceiveNft ==
  /\ Executes("receive_nft")
  /\ Draft!ExecuteCreateAuction(Message.sender, Message.nft, Message.listing)
  /\ Respond(<< >>)
  /\ UNCHANGED << vars, draft_bank, draft_stray, draft_sity, draft_nft_owner, wiring >>

SendCw20(token, u, a, amount) ==
  /\ Call(<< [type |-> "receive", token |-> token, sender |-> u, auction |-> a,
              amount |-> amount] >>)
  /\ Cw20Accepts(amount)
  /\ IF token = Sity
     THEN /\ amount <= draft_sity[u]
          /\ draft_sity' = [draft_sity EXCEPT ![u] = @ - amount]
          /\ held' = held + amount
     ELSE UNCHANGED << draft_sity, held >>
  /\ UNCHANGED << vars, storage, draft_bank, draft_stray, draft_nft_owner, cw20_address,
                  sity_minter >>

\* Only the SITY contract may call it.
Receive ==
  /\ Executes("receive")
  /\ Message.token = cw20_address
  /\ Draft!ExecuteRegisterPrivateSale(Message.sender, Message.auction, Message.amount)
  /\ Respond(RegisterMessages(Message.amount))
  /\ UNCHANGED << vars, draft_bank, draft_stray, draft_sity, draft_nft_owner, wiring >>

-----------------------------------------------------------------------------
(* Direct calls: the coins arrive, then the handler runs. *)

CallBid(u, a, sent) ==
  /\ Call(<< >>)
  /\ Draft!PlaceBid(u, a, sent) \/ Draft!InstantBuy(u, a, sent)
  /\ UNCHANGED << vars, wiring >>

CallUpdateRoyalty(u, fee, recipient, extra) ==
  /\ Call(<< >>)
  /\ Draft!UpdateRoyalty(u, fee, recipient, extra)
  /\ UNCHANGED << vars, wiring >>

CallRetractBids(u, a, extra) ==
  /\ Draft!ExecuteRetractBids(u, a)
  /\ Call(RetractMessages(u, a))
  /\ draft_bank' = draft_bank + extra
  /\ Draft!Strays(extra)
  /\ UNCHANGED << vars, draft_sity, draft_nft_owner, wiring >>

CallWithdrawNft(a, extra) ==
  /\ Draft!ExecuteWithdrawNft(a)
  /\ Call(WithdrawMessages(a))
  /\ draft_bank' = draft_bank + extra
  /\ Draft!Strays(extra)
  /\ UNCHANGED << vars, draft_sity, draft_nft_owner, wiring >>

CallCancelAuction(u, a, sent) ==
  /\ Draft!ExecuteCancelAuction(u, a, sent)
  /\ Call(CancelMessages(a))
  /\ draft_bank' = draft_bank + sent
  /\ IF draft_items[a].highest_bid = None THEN Draft!Strays(sent) ELSE UNCHANGED draft_stray
  /\ UNCHANGED << vars, draft_sity, draft_nft_owner, wiring >>

\* Coins that may come with a cancellation, the fee among them.
CancelCoins(a) ==
  Extras \cup {DecMul(OrZero(draft_items[a].highest_bid), Config.cancellation_fee)}

-----------------------------------------------------------------------------
(* The messages that the marketplace sends are executed. *)

ExecuteSend ==
  /\ Executes("send")
  /\ Sendable(Message.amount) /\ Outflow(Message.amount) <= draft_bank
  /\ draft_bank' = draft_bank - Outflow(Message.amount)
  /\ Respond(<< >>)
  /\ UNCHANGED << vars, storage, draft_stray, draft_sity, draft_nft_owner, wiring >>

ExecuteMint ==
  /\ Executes("mint")
  /\ Message.token = Sity /\ sity_minter = Market
  /\ Cw20Accepts(Message.amount)
  /\ draft_sity' = Minted(draft_sity, Message.recipient, Message.amount)
  /\ Respond(<< >>)
  /\ UNCHANGED << vars, storage, draft_bank, draft_stray, draft_nft_owner, wiring >>

ExecuteBurn ==
  /\ Executes("burn")
  /\ Message.token = Sity
  /\ Cw20Accepts(Message.amount) /\ Message.amount <= held
  /\ held' = held - Message.amount
  /\ Respond(<< >>)
  /\ UNCHANGED << vars, draft, cw20_address, sity_minter >>

ExecuteTransferNft ==
  /\ Executes("transfer_nft")
  /\ draft_nft_owner[Message.nft] = Market
  /\ draft_nft_owner' = [draft_nft_owner EXCEPT ![Message.nft] = Message.recipient]
  /\ Respond(<< >>)
  /\ UNCHANGED << vars, storage, draft_bank, draft_stray, draft_sity, wiring >>

Commit ==
  /\ tx.open /\ tx.msgs = << >>
  /\ counter_items' = draft_counter_items
  /\ items' = draft_items
  /\ bids' = draft_bids
  /\ histories' = draft_histories
  /\ histories_bidder' = draft_histories_bidder
  /\ royalty' = draft_royalty
  /\ bank' = draft_bank
  /\ stray' = draft_stray
  /\ sity' = draft_sity
  /\ nft_owner' = draft_nft_owner
  /\ outcome' = draft_outcome
  /\ tx' = Idle
  /\ UNCHANGED << now, draft, wiring >>

\* A handler or a message fails, or the gas is used up: at any point.
Abort ==
  /\ tx.open
  /\ draft_counter_items' = counter_items
  /\ draft_items' = items
  /\ draft_bids' = bids
  /\ draft_histories' = histories
  /\ draft_histories_bidder' = histories_bidder
  /\ draft_royalty' = royalty
  /\ draft_bank' = bank
  /\ draft_stray' = stray
  /\ draft_sity' = sity
  /\ draft_nft_owner' = nft_owner
  /\ draft_outcome' = outcome
  /\ cw20_address' = tx.before.cw20_address
  /\ sity_minter' = tx.before.sity_minter
  /\ held' = tx.before.held
  /\ tx' = Idle
  /\ UNCHANGED vars

-----------------------------------------------------------------------------
InitTx ==
  /\ Init /\ Draft!Init
  /\ cw20_address = None /\ sity_minter = None /\ held = 0
  /\ tx = Idle

NextTx ==
  \/ ~tx.open /\ Tick /\ UNCHANGED << draft, wiring, tx >>
  \/ Instantiate \/ InstantiateCw20 \/ Reply
  \/ \E u \in Users, n \in Nfts, l \in Listings : SendNft(u, n, l)
  \/ ReceiveNft
  \/ \E token \in {Sity, ForeignCw20}, u \in Users, a \in Auctions, amount \in Cw20Amounts :
       SendCw20(token, u, a, amount)
  \/ Receive
  \/ \E u \in Users, a \in Auctions, sent \in Amounts : CallBid(u, a, sent)
  \/ \E u \in Users, fee \in RoyaltyFees, r \in Option(Users), extra \in Extras :
       CallUpdateRoyalty(u, fee, r, extra)
  \/ \E u \in Users, a \in Auctions, extra \in Extras : CallRetractBids(u, a, extra)
  \/ \E a \in Auctions, extra \in Extras : CallWithdrawNft(a, extra)
  \/ \E u \in Users, a \in Auctions : \E sent \in CancelCoins(a) : CallCancelAuction(u, a, sent)
  \/ ExecuteSend \/ ExecuteMint \/ ExecuteBurn \/ ExecuteTransferNft
  \/ Commit \/ Abort

SpecTx == InitTx /\ [][NextTx]_allVars

-----------------------------------------------------------------------------
(* What it promises. *)

\* A call with all of its messages is one of the atomic actions of
\* Marketplace, with exactly their guards, or leaves no trace: the actions
\* foresee everything that the bank, SITY and cw721 can refuse halfway.
AtomicMarketplace == Spec

\* Between transactions the token that Receive listens to and that is told
\* to mint is the one instantiate had created, and it obeys the marketplace.
WiredToSity ==
  ~tx.open /\ cw20_address # None => cw20_address = Sity /\ sity_minter = Market

\* SITY that is sent to the marketplace is burnt or sent back, but not kept.
NoSityKept == ~tx.open => held = 0

\* A call whose handler accepted it is not given up halfway for lack of
\* coins, of the NFT or of the right to mint: of what the messages of
\* execute_withdraw_nft, execute_retract_bids and execute_cancel_auction
\* need, only an amount that was rounded to zero can be missing.
AcceptedIsCarriedOut ==
  /\ \A a \in Auctions : SettlementStands(a)
  /\ tx.open /\ tx.msgs # << >>
  => /\ Message.type = "send" => Outflow(Message.amount) <= draft_bank
     /\ Message.type = "transfer_nft" => draft_nft_owner[Message.nft] = Market
     /\ Message.type = "mint" => Message.token = Sity /\ sity_minter = Market
     /\ Message.type = "burn" => Message.token = Sity /\ Message.amount <= held
=============================================================================
