------------------------- MODULE TransactionsProofs -------------------------
(***************************************************************************)
(* That the marketplace and the SITY contract find each other, that no     *)
(* SITY is left behind, and that a transaction is one atomic action or     *)
(* none at all, whichever messages arrive and whichever fail.              *)
(***************************************************************************)
EXTENDS Transactions, MoneyProofs

\* Once there is a marketplace, its token is SITY and obeys it.
Wired(address, minter) == address # None => address = Sity /\ minter = Market

\* Messages that neither burn SITY nor concern the wiring.
QuietTypes == {"send", "mint", "transfer_nft", "receive_nft"}

Quiet(msgs) == \E S : msgs \in Seq(S) /\ \A m \in S : m.type \in QuietTypes

\* The stages of a transaction: coming into being, a token that has been sent
\* to the marketplace, SITY that is to be burnt, and all the others.
Instantiating ==
  /\ tx.msgs = << [type |-> "instantiate_cw20", minter |-> Market] >>
  /\ held = 0

Replying ==
  /\ tx.msgs = << [type |-> "reply", contract_address |-> Sity] >>
  /\ sity_minter = Market
  /\ held = 0

Receiving ==
  /\ cw20_address = Sity /\ sity_minter = Market
  /\ \E token, u, a : \E amount \in Nat :
       /\ tx.msgs = << [type |-> "receive", token |-> token, sender |-> u, auction |-> a,
                        amount |-> amount] >>
       /\ held = IF token = Sity THEN amount ELSE 0

Burning ==
  /\ cw20_address = Sity /\ sity_minter = Market
  /\ \E amount \in Nat :
       /\ tx.msgs = << [type |-> "burn", token |-> Sity, amount |-> amount] >>
       /\ held = amount

Trading ==
  /\ cw20_address = Sity /\ sity_minter = Market
  /\ held = 0
  /\ Quiet(tx.msgs)

\* What holds before each step, during transactions and between them.
WiringInv ==
  /\ tx = [open |-> tx.open, msgs |-> tx.msgs, before |-> tx.before]
  /\ tx.open \in BOOLEAN
  /\ ~tx.open => Wired(cw20_address, sity_minter) /\ held = 0
  /\ tx.open =>
       /\ Wired(tx.before.cw20_address, tx.before.sity_minter)
       /\ tx.before.held = 0
       /\ Instantiating \/ Replying \/ Receiving \/ Burning \/ Trading

-----------------------------------------------------------------------------
(* Lists of messages. *)

\* The only message of a list is its head, and what it asks for takes its place.
LEMMA OnlyMessage ==
  ASSUME NEW m, NEW b
  PROVE  /\ << m >> # << >> /\ Head(<< m >>) = m
         /\ << >> \o Tail(<< m >>) = << >>
         /\ << b >> \o Tail(<< m >>) = << b >>
  OBVIOUS

\* No messages are quiet.
LEMMA NoneQuiet == Quiet(<< >>)
<1> DEFINE S == {}
<1>1. << >> \in Seq(S) /\ \A m \in S : m.type \in QuietTypes
  OBVIOUS
<1> HIDE DEF S
<1> QED
  BY <1>1, Zenon DEF Quiet

\* One or two messages of quiet types are.
LEMMA FewQuiet ==
  ASSUME NEW m, NEW n, m.type \in QuietTypes, n.type \in QuietTypes
  PROVE  Quiet(<< m >>) /\ Quiet(<< m, n >>)
<1> DEFINE S == {m, n}
<1>1. /\ << m >> \in Seq(S) /\ << m, n >> \in Seq(S)
      /\ \A k \in S : k.type \in QuietTypes
  OBVIOUS
<1> HIDE DEF S
<1> QED
  BY <1>1, Zenon DEF Quiet

\* Two lists of quiet messages make one.
LEMMA ConcatQuiet ==
  ASSUME NEW p, NEW q, Quiet(p), Quiet(q)
  PROVE  Quiet(p \o q)
<1>1. PICK S : p \in Seq(S) /\ \A m \in S : m.type \in QuietTypes
  BY DEF Quiet
<1>2. PICK T : q \in Seq(T) /\ \A m \in T : m.type \in QuietTypes
  BY DEF Quiet
<1>3. p \in Seq(S \cup T) /\ q \in Seq(S \cup T)
  BY <1>1, <1>2
<1>4. p \o q \in Seq(S \cup T)
  BY <1>3
<1> QED
  BY <1>1, <1>2, <1>4 DEF Quiet

\* Of a list of quiet messages the first is quiet, and so are the others.
LEMMA TailQuiet ==
  ASSUME NEW p, Quiet(p), p # << >>
  PROVE  Head(p).type \in QuietTypes /\ Quiet(<< >> \o Tail(p))
<1>1. PICK S : p \in Seq(S) /\ \A m \in S : m.type \in QuietTypes
  BY DEF Quiet
<1>2. Head(p) \in S /\ Tail(p) \in Seq(S)
  BY <1>1
<1>3. << >> \o Tail(p) = Tail(p)
  BY <1>2
<1> QED
  BY <1>1, <1>2, <1>3 DEF Quiet

\* What the handlers of the marketplace ask for is quiet, except a registration.
LEMMA MessagesQuiet ==
  ASSUME NEW u, NEW a
  PROVE  /\ Quiet(RetractMessages(u, a))
         /\ Quiet(WithdrawMessages(a))
         /\ Quiet(CancelMessages(a))
<1>1. /\ \A gross : BankSend(gross).type \in QuietTypes
      /\ \A v, amount : MintMessage(v, amount).type \in QuietTypes
      /\ \A n, v : TransferNft(n, v).type \in QuietTypes
  BY DEF BankSend, MintMessage, TransferNft, QuietTypes
<1>2. \A m : m.type \in QuietTypes => Quiet(<< m >>)
  BY FewQuiet, Zenon
<1>3. \A m, n : m.type \in QuietTypes /\ n.type \in QuietTypes => Quiet(<< m, n >>)
  BY FewQuiet, Zenon
<1>4. \A share : Quiet(SendShare(share))
  BY <1>1, <1>2, NoneQuiet, Zenon DEF SendShare
<1>5. \A p, q : Quiet(p) /\ Quiet(q) => Quiet(p \o q)
  BY ConcatQuiet, Zenon
<1>7. Quiet(RetractMessages(u, a))
  BY <1>1, <1>2, <1>5, NoneQuiet, Zenon DEF RetractMessages
<1>8. Quiet(WithdrawMessages(a))
  BY <1>1, <1>2, <1>3, <1>4, <1>5, NoneQuiet, Zenon DEF WithdrawMessages
<1>9. Quiet(CancelMessages(a))
  BY <1>1, <1>2, <1>3, NoneQuiet, Zenon DEF CancelMessages
<1> QED
  BY <1>7, <1>8, <1>9

-----------------------------------------------------------------------------
(* The steps of a transaction. *)

\* A transaction that begins remembers that all is well.
LEMMA BeginInv ==
  ASSUME WiringInv, NEW msgs, Begin(msgs),
         Instantiating' \/ Replying' \/ Receiving' \/ Burning' \/ Trading'
  PROVE  WiringInv'
<1>1. /\ tx' = [open |-> TRUE, msgs |-> msgs,
                before |-> [cw20_address |-> cw20_address, sity_minter |-> sity_minter,
                            held |-> held]]
      /\ ~tx.open
  BY DEF Begin
<1> QED
  BY <1>1 DEF WiringInv

\* A transaction that goes on remembers where it started.
LEMMA RespondInv ==
  ASSUME WiringInv, tx.open, NEW msgs, Respond(msgs),
         Instantiating' \/ Replying' \/ Receiving' \/ Burning' \/ Trading'
  PROVE  WiringInv' /\ tx'.msgs = msgs \o Tail(tx.msgs)
<1>1. tx' = [open |-> TRUE, msgs |-> msgs \o Tail(tx.msgs), before |-> tx.before]
  BY DEF Respond, WiringInv
<1> QED
  BY <1>1 DEF WiringInv

\* The next message tells the stage.
LEMMA StageOfMessage ==
  ASSUME WiringInv, tx.open
  PROVE  /\ tx.msgs = << >> => Trading
         /\ Executes("instantiate_cw20") => Instantiating
         /\ Executes("reply") => Replying
         /\ Executes("receive") => Receiving
         /\ Executes("burn") => Burning
         /\ \A type \in QuietTypes : Executes(type) => Trading
<1>1. CASE Instantiating
  <2>1. tx.msgs # << >> /\ Message.type = "instantiate_cw20"
    BY <1>1 DEF Instantiating, Message
  <2> QED
    BY <1>1, <2>1 DEF Executes, QuietTypes
<1>2. CASE Replying
  <2>1. tx.msgs # << >> /\ Message.type = "reply"
    BY <1>2 DEF Replying, Message
  <2> QED
    BY <1>2, <2>1 DEF Executes, QuietTypes
<1>3. CASE Receiving
  <2>1. PICK token, u, a, amount :
          tx.msgs = << [type |-> "receive", token |-> token, sender |-> u, auction |-> a,
                        amount |-> amount] >>
    BY <1>3, Zenon DEF Receiving
  <2>2. tx.msgs # << >> /\ Message.type = "receive"
    BY <2>1 DEF Message
  <2> QED
    BY <1>3, <2>2 DEF Executes, QuietTypes
<1>4. CASE Burning
  <2>1. PICK amount : tx.msgs = << [type |-> "burn", token |-> Sity, amount |-> amount] >>
    BY <1>4, Zenon DEF Burning
  <2>2. tx.msgs # << >> /\ Message.type = "burn"
    BY <2>1 DEF Message
  <2> QED
    BY <1>4, <2>2 DEF Executes, QuietTypes
<1>5. CASE Trading
  <2>1. tx.msgs # << >> => Message.type \in QuietTypes
    BY <1>5, TailQuiet DEF Trading, Message
  <2> QED
    BY <1>5, <2>1 DEF Executes, QuietTypes
<1> QED
  BY <1>1, <1>2, <1>3, <1>4, <1>5 DEF WiringInv

\* A call that begins a transaction finds the marketplace wired and holding
\* no SITY.
LEMMA CallFindsWired ==
  ASSUME WiringInv, NEW msgs, Call(msgs)
  PROVE  cw20_address = Sity /\ sity_minter = Market /\ held = 0 /\ tx'.msgs = msgs
BY DEF WiringInv, Wired, Call, Begin

\* A call that asks for quiet messages only and leaves the SITY alone.
LEMMA CallInv ==
  ASSUME WiringInv, NEW msgs, Quiet(msgs), Call(msgs), UNCHANGED wiring
  PROVE  WiringInv'
<1>1. cw20_address = Sity /\ sity_minter = Market /\ held = 0 /\ tx'.msgs = msgs
  BY CallFindsWired
<1>2. Trading'
  BY <1>1 DEF Trading, wiring
<1> QED
  BY <1>2, BeginInv DEF Call

\* A quiet message that is executed.
LEMMA QuietStepInv ==
  ASSUME WiringInv, NEW type \in QuietTypes, Executes(type), Respond(<< >>), UNCHANGED wiring
  PROVE  WiringInv'
<1>1. Trading /\ tx.open /\ tx.msgs # << >>
  BY StageOfMessage DEF Executes
<1>2. tx'.msgs = << >> \o Tail(tx.msgs)
  BY DEF Respond, WiringInv
<1>3. Quiet(<< >> \o Tail(tx.msgs))
  BY <1>1, TailQuiet DEF Trading
<1>4. Trading'
  BY <1>1, <1>2, <1>3 DEF Trading, wiring
<1> QED
  BY <1>1, <1>4, RespondInv

-----------------------------------------------------------------------------
(* The steps that do concern SITY. *)

\* The contract comes into being, and with it its token.
LEMMA InstantiationInv ==
  ASSUME WiringInv, Instantiate \/ InstantiateCw20 \/ Reply
  PROVE  WiringInv'
<1>1. CASE Instantiate
  <2>1. Instantiating'
    BY <1>1 DEF Instantiate, Begin, WiringInv, Instantiating
  <2> QED
    BY <1>1, <2>1, BeginInv DEF Instantiate
<1>2. CASE InstantiateCw20
  <2>1. Instantiating /\ tx.open
    BY <1>2, StageOfMessage DEF InstantiateCw20, Executes
  <2>2. Respond(<< [type |-> "reply", contract_address |-> Sity] >>)
    BY <1>2 DEF InstantiateCw20
  <2>3. tx'.msgs = << [type |-> "reply", contract_address |-> Sity] >>
    BY <2>1, <2>2, OnlyMessage DEF Respond, WiringInv, Instantiating
  <2>4. Message.minter = Market
    BY <2>1 DEF Instantiating, Message
  <2>5. Replying'
    BY <1>2, <2>1, <2>3, <2>4 DEF Replying, Instantiating, InstantiateCw20
  <2> QED
    BY <2>1, <2>2, <2>5, RespondInv
<1>3. CASE Reply
  <2>1. Replying /\ tx.open
    BY <1>3, StageOfMessage DEF Reply, Executes
  <2>2. Respond(<< >>)
    BY <1>3 DEF Reply
  <2>3. tx'.msgs = << >>
    BY <2>1, <2>2, OnlyMessage DEF Respond, WiringInv, Replying
  <2>4. Message.contract_address = Sity
    BY <2>1 DEF Replying, Message
  <2>5. Trading'
    BY <1>3, <2>1, <2>3, <2>4, NoneQuiet DEF Replying, Trading, Reply
  <2> QED
    BY <2>1, <2>2, <2>5, RespondInv
<1> QED
  BY <1>1, <1>2, <1>3

\* A token is sent to the marketplace.
LEMMA SendCw20Inv ==
  ASSUME WiringInv, NEW token \in {Sity, ForeignCw20}, NEW u \in Users, NEW a \in Auctions,
         NEW amount \in Cw20Amounts, SendCw20(token, u, a, amount)
  PROVE  WiringInv'
<1> DEFINE msg == [type |-> "receive", token |-> token, sender |-> u, auction |-> a,
                   amount |-> amount]
<1>1. Call(<< msg >>)
  BY DEF SendCw20
<1>2. cw20_address = Sity /\ sity_minter = Market /\ held = 0 /\ tx'.msgs = << msg >>
  BY <1>1, CallFindsWired
<1>3. amount \in Nat
  BY TokenAssumption
<1>4. held' = IF token = Sity THEN amount ELSE 0
  BY <1>2, <1>3 DEF SendCw20
<1>5. cw20_address' = Sity /\ sity_minter' = Market
  BY <1>2 DEF SendCw20
<1>6. Receiving'
  BY <1>2, <1>3, <1>4, <1>5 DEF Receiving
<1> QED
  BY <1>1, <1>6, BeginInv DEF Call

\* The marketplace accepts SITY, and nothing else.
LEMMA ReceiveInv ==
  ASSUME WiringInv, Receive
  PROVE  WiringInv'
<1>1. Receiving /\ tx.open
  BY StageOfMessage DEF Receive, Executes
<1>2. PICK token, u, a : \E amount \in Nat :
         /\ tx.msgs = << [type |-> "receive", token |-> token, sender |-> u, auction |-> a,
                          amount |-> amount] >>
         /\ held = IF token = Sity THEN amount ELSE 0
  BY <1>1, Zenon DEF Receiving
<1>3. PICK amount \in Nat :
         /\ tx.msgs = << [type |-> "receive", token |-> token, sender |-> u, auction |-> a,
                          amount |-> amount] >>
         /\ held = IF token = Sity THEN amount ELSE 0
  BY <1>2
<1>4. Message.token = token /\ Message.amount = amount
  BY <1>3 DEF Message
<1>5. cw20_address = Sity /\ sity_minter = Market
  BY <1>1 DEF Receiving
<1>6. token = Sity /\ held = amount
  BY <1>3, <1>4, <1>5 DEF Receive
<1>7. Respond(RegisterMessages(amount))
  BY <1>4 DEF Receive
<1>8. RegisterMessages(amount) = << [type |-> "burn", token |-> Sity, amount |-> amount] >>
  BY <1>5 DEF RegisterMessages, BurnMessage
<1>9. tx'.msgs = << [type |-> "burn", token |-> Sity, amount |-> amount] >>
  BY <1>3, <1>7, <1>8, OnlyMessage DEF Respond, WiringInv
<1>10. Burning'
  BY <1>5, <1>6, <1>9 DEF Burning, Receive, wiring
<1> QED
  BY <1>1, <1>7, <1>10, RespondInv

\* The tokens of a registration are burnt.
LEMMA BurnInv ==
  ASSUME WiringInv, ExecuteBurn
  PROVE  WiringInv'
<1>1. Burning /\ tx.open
  BY StageOfMessage DEF ExecuteBurn, Executes
<1>2. PICK amount \in Nat :
         /\ tx.msgs = << [type |-> "burn", token |-> Sity, amount |-> amount] >>
         /\ held = amount
  BY <1>1 DEF Burning
<1>3. Message.amount = amount
  BY <1>2 DEF Message
<1>4. held' = 0 /\ cw20_address' = Sity /\ sity_minter' = Market
  BY <1>1, <1>2, <1>3 DEF ExecuteBurn, Burning
<1>5. Respond(<< >>)
  BY DEF ExecuteBurn
<1>6. tx'.msgs = << >>
  BY <1>2, <1>5, OnlyMessage DEF Respond, WiringInv
<1>7. Trading'
  BY <1>4, <1>6, NoneQuiet DEF Trading
<1> QED
  BY <1>1, <1>5, <1>7, RespondInv

\* A transaction ends, for better or worse.
LEMMA EndInv ==
  ASSUME WiringInv, Commit \/ Abort
  PROVE  WiringInv'
<1>1. CASE Commit
  <2>1. Trading
    BY <1>1, StageOfMessage DEF Commit
  <2> QED
    BY <1>1, <2>1 DEF Commit, Trading, WiringInv, Idle, Wired, wiring
<1>2. CASE Abort
  BY <1>2 DEF Abort, WiringInv, Idle, Wired
<1> QED
  BY <1>1, <1>2

-----------------------------------------------------------------------------
\* Every step, and the passing of time.
LEMMA WiringInductive ==
  ASSUME WiringInv, [NextTx]_allVars
  PROVE  WiringInv'
<1>1. CASE UNCHANGED allVars \/ (Tick /\ UNCHANGED << draft, wiring, tx >>)
  BY <1>1 DEF allVars, wiring, WiringInv, Wired, Instantiating, Replying, Receiving, Burning,
              Trading
<1>2. CASE Instantiate \/ InstantiateCw20 \/ Reply
  BY <1>2, InstantiationInv
<1>3. ASSUME NEW u \in Users, NEW n \in Nfts, NEW l \in Listings, SendNft(u, n, l)
      PROVE  WiringInv'
  <2> DEFINE msg == [type |-> "receive_nft", sender |-> u, nft |-> n, listing |-> l]
  <2>1. msg.type \in QuietTypes
    BY DEF QuietTypes
  <2>2. Call(<< msg >>) /\ UNCHANGED wiring
    BY <1>3 DEF SendNft
  <2> HIDE DEF msg
  <2>3. Quiet(<< msg >>)
    BY <2>1, FewQuiet, Zenon
  <2> QED
    BY <2>2, <2>3, CallInv
<1>4. CASE ReceiveNft
  BY <1>4, QuietStepInv DEF ReceiveNft, QuietTypes
<1>5. ASSUME NEW token \in {Sity, ForeignCw20}, NEW u \in Users, NEW a \in Auctions,
             NEW amount \in Cw20Amounts, SendCw20(token, u, a, amount)
      PROVE  WiringInv'
  BY <1>5, SendCw20Inv
<1>6. CASE Receive
  BY <1>6, ReceiveInv
<1>7. ASSUME NEW u \in Users, NEW a \in Auctions, NEW sent \in Amounts, CallBid(u, a, sent)
      PROVE  WiringInv'
  BY <1>7, NoneQuiet, CallInv DEF CallBid
<1>8. ASSUME NEW u \in Users, NEW fee \in RoyaltyFees, NEW r \in Option(Users),
             NEW extra \in Extras, CallUpdateRoyalty(u, fee, r, extra)
      PROVE  WiringInv'
  BY <1>8, NoneQuiet, CallInv DEF CallUpdateRoyalty
<1>9. ASSUME NEW u \in Users, NEW a \in Auctions, NEW extra \in Extras,
             CallRetractBids(u, a, extra)
      PROVE  WiringInv'
  BY <1>9, MessagesQuiet, CallInv DEF CallRetractBids
<1>10. ASSUME NEW a \in Auctions, NEW extra \in Extras, CallWithdrawNft(a, extra)
       PROVE  WiringInv'
  BY <1>10, MessagesQuiet, CallInv DEF CallWithdrawNft
<1>11. ASSUME NEW u \in Users, NEW a \in Auctions, NEW sent \in CancelCoins(a),
              CallCancelAuction(u, a, sent)
       PROVE  WiringInv'
  BY <1>11, MessagesQuiet, CallInv DEF CallCancelAuction
<1>12. CASE ExecuteSend
  BY <1>12, QuietStepInv DEF ExecuteSend, QuietTypes
<1>13. CASE ExecuteMint
  BY <1>13, QuietStepInv DEF ExecuteMint, QuietTypes
<1>14. CASE ExecuteTransferNft
  BY <1>14, QuietStepInv DEF ExecuteTransferNft, QuietTypes
<1>15. CASE ExecuteBurn
  BY <1>15, BurnInv
<1>16. CASE Commit \/ Abort
  BY <1>16, EndInv
<1> QED
  BY <1>1, <1>2, <1>3, <1>4, <1>5, <1>6, <1>7, <1>8, <1>9, <1>10, <1>11, <1>12, <1>13, <1>14,
     <1>15, <1>16, Zenon DEF NextTx

\* The invariant holds from the first block on.
LEMMA WiringInvAlways == SpecTx => []WiringInv
<1>1. InitTx => WiringInv
  BY DEF InitTx, Idle, WiringInv, Wired
<1>2. WiringInv /\ [NextTx]_allVars => WiringInv'
  BY WiringInductive
<1> QED
  BY <1>1, <1>2, PTL DEF SpecTx

\* Between transactions the address that instantiate and reply stored is that
\* of SITY, which takes orders from the marketplace, whatever fails in between.
THEOREM WiredAlways == SpecTx => []WiredToSity
<1>1. WiringInv => WiredToSity
  BY DEF WiringInv, Wired, WiredToSity
<1> QED
  BY <1>1, WiringInvAlways, PTL

\* execute_receive_cw20 and execute_register_private_sale burn all SITY they
\* are sent or refuse it.
THEOREM NoSityKeptAlways == SpecTx => []NoSityKept
<1>1. WiringInv => NoSityKept
  BY DEF WiringInv, NoSityKept
<1> QED
  BY <1>1, WiringInvAlways, PTL

-----------------------------------------------------------------------------
(* How far a transaction has come: what its handler has made of the storage
   that was committed before, and which of its messages have been executed. *)

\* The state that is committed, and the draft of the one to come.
Committed ==
  [counter_items |-> counter_items, items |-> items, bids |-> bids,
   histories |-> histories, histories_bidder |-> histories_bidder,
   royalty |-> royalty, bank |-> bank, stray |-> stray, sity |-> sity,
   nft_owner |-> nft_owner, outcome |-> outcome]

Drafted ==
  [counter_items |-> draft_counter_items, items |-> draft_items, bids |-> draft_bids,
   histories |-> draft_histories, histories_bidder |-> draft_histories_bidder,
   royalty |-> draft_royalty, bank |-> draft_bank, stray |-> draft_stray,
   sity |-> draft_sity, nft_owner |-> draft_nft_owner, outcome |-> draft_outcome]

Parts == {"counter_items", "items", "bids", "histories", "histories_bidder", "royalty",
          "bank", "stray", "sity", "nft_owner", "outcome"}

\* Only these parts of the draft differ from what is committed.
OnlyTouched(parts) == \A p \in Parts \ parts : Drafted[p] = Committed[p]

\* The contract is being set up, or has been.
SettingUp ==
  /\ OnlyTouched({})
  /\ \/ tx.msgs = << >>
     \/ tx.msgs = << Message >> /\ Message.type \in {"instantiate_cw20", "reply"}

\* An NFT has arrived with a listing.
NftArrived(u, n, l) ==
  /\ OnlyTouched({"nft_owner"})
  /\ tx.msgs = << [type |-> "receive_nft", sender |-> u, nft |-> n, listing |-> l] >>

\* execute_create_auction has run.
Created(u, n, l) ==
  /\ OnlyTouched({"nft_owner", "counter_items", "items", "bids", "histories",
                  "histories_bidder", "outcome"})
  /\ tx.msgs = << >>
  /\ counter_items < MaxAuctions
  /\ ValidTimes(l) /\ ValidPrices(l) /\ ValidCharity(l)
  /\ draft_items = NewEntry(items, NewItem(u, n, l))
  /\ draft_bids = NewEntry(bids, [v \in Users |-> None])
  /\ draft_histories = NewEntry(histories, << >>)
  /\ draft_histories_bidder = NewEntry(histories_bidder, [v \in Users |-> << >>])
  /\ draft_outcome = NewEntry(outcome, None)
  /\ draft_counter_items = counter_items + 1

ListingUnderWay ==
  \E u \in Users, n \in Nfts, l \in Listings :
    /\ nft_owner[n] = u
    /\ draft_nft_owner = [nft_owner EXCEPT ![n] = Market]
    /\ NftArrived(u, n, l) \/ Created(u, n, l)

\* Tokens of some kind have arrived.
TokensArrived(token, u, a, amount) ==
  /\ OnlyTouched({"sity"})
  /\ tx.msgs = << [type |-> "receive", token |-> token, sender |-> u, auction |-> a,
                   amount |-> amount] >>

\* They were SITY, as much as is asked for, and execute_register_private_sale
\* has run; burning them is all that is left.
Registered(u, a, amount) ==
  /\ OnlyTouched({"sity", "bids"})
  /\ tx.msgs = << >> \/ tx.msgs = << BurnMessage(amount) >>
  /\ NotEnded(items[a]) /\ Started(items[a])
  /\ items[a].creator # u
  /\ items[a].private_sale
  /\ amount = SityRequired(items[a])
  /\ bids[a][u] = None
  /\ draft_bids = [bids EXCEPT ![a][u] =
               [bid_counter |-> 0, total_bid |-> 0, sity_used |-> amount, resolved |-> FALSE]]

RegistrationUnderWay ==
  \E token \in {Sity, ForeignCw20}, u \in Users, a \in Auctions, amount \in Cw20Amounts :
    /\ Cw20Accepts(amount)
    /\ IF token = Sity
       THEN /\ amount <= sity[u]
            /\ draft_sity = [sity EXCEPT ![u] = @ - amount]
       ELSE draft_sity = sity
    /\ \/ TokensArrived(token, u, a, amount)
       \/ token = Sity /\ Registered(u, a, amount)

\* The maps after a bid of u, with these entries in the two histories.
BidRecorded(u, a, sent, end, mine, entry) ==
  LET item == items[a]
  IN  /\ OnlyTouched({"items", "bids", "histories", "histories_bidder", "bank"})
      /\ item.total_bids < MaxBids
      /\ NotEnded(item)
      /\ MayBid(u, a)
      /\ draft_items = [items EXCEPT ![a] = Led(item, u, BidTotal(u, a, sent), end)]
      /\ draft_bids = [bids EXCEPT ![a][u] = AddedBid(bids[a][u], sent)]
      /\ draft_histories_bidder = [histories_bidder EXCEPT ![a][u] = Append(@, mine)]
      /\ draft_histories = [histories EXCEPT ![a] = Append(@, entry)]
      /\ draft_bank = bank + sent

BidPlaced(u, a, sent) ==
  LET item == items[a]
      total == BidTotal(u, a, sent)
      entry == HistoryEntry(u, total, FALSE)
  IN  /\ BidRecorded(u, a, sent, ExtendedEnd(item), entry, entry)
      /\ Started(item)
      /\ total >= MinBid(item)
      /\ item.instant_buy # None => total < item.instant_buy

Bought(u, a, sent) ==
  LET item == items[a]
      total == BidTotal(u, a, sent)
      first == histories[a] = << >>
  IN  /\ BidRecorded(u, a, sent, now - MIN_TIME_AUCTION, HistoryEntry(u, total, TRUE),
                     HistoryEntry(u, IF first THEN sent ELSE total, TRUE))
      /\ item.instant_buy # None
      /\ item.instant_buy = total

BidUnderWay ==
  /\ tx.msgs = << >>
  /\ \E u \in Users, a \in Auctions, sent \in Amounts :
       BidPlaced(u, a, sent) \/ Bought(u, a, sent)

\* Coins have arrived with a message that takes none.
StraysArrived(extra) ==
  stray + extra <= MaxStray /\ draft_stray = stray + extra

RoyaltyUnderWay ==
  /\ tx.msgs = << >>
  /\ \E u \in Users, fee \in RoyaltyFees, recipient \in Option(Users), extra \in Extras :
       /\ OnlyTouched({"royalty", "bank", "stray"})
       /\ fee <= ROYALTY_MAX_FEE
       /\ draft_royalty = [royalty EXCEPT ![u] =
                       [fee |-> fee,
                        recipient |-> IF recipient # None THEN recipient
                                      ELSE IF @ = None THEN u ELSE @.recipient]]
       /\ draft_bank = bank + extra
       /\ StraysArrived(extra)

\* execute_retract_bids has run.
RetractionDecided(u, a, extra) ==
  LET bid == bids[a][u]
  IN  /\ OnlyTouched({"bids", "bank", "stray", "sity"})
      /\ bid # None
      /\ ~IsWinner(u, items[a])
      /\ bid.total_bid # 0
      /\ draft_bids = [bids EXCEPT ![a][u] =
                   [bid EXCEPT !.total_bid = 0, !.resolved = TRUE]]
      /\ StraysArrived(extra)

\* The refund has been sent from this balance or is waiting; then comes the
\* mint of the reward, if there is one.
RefundProgress(u, refund, rewarded, reward, balance, balances) ==
  LET mint == IF rewarded THEN << MintMessage(u, reward) >> ELSE << >>
  IN  \/ tx.msgs = << BankSend(refund) >> \o mint /\ draft_bank = balance /\ draft_sity = balances
      \/ /\ Sendable(refund) /\ Outflow(refund) <= balance
         /\ draft_bank = balance - Outflow(refund)
         /\ \/ tx.msgs = mint /\ draft_sity = balances
            \/ /\ rewarded /\ tx.msgs = << >>
               /\ Cw20Accepts(reward) /\ draft_sity = Minted(balances, u, reward)

RetractionUnderWay ==
  \E u \in Users, a \in Auctions, extra \in Extras :
    /\ RetractionDecided(u, a, extra)
    /\ RefundProgress(u, bids[a][u].total_bid, EarnsPartialReward(u, a),
                      PartialReward(u, a), bank + extra, sity)

\* execute_withdraw_nft has run.
SettlementDecided(a, extra) ==
  LET item == items[a]
  IN  /\ OnlyTouched({"items", "outcome", "bank", "stray", "sity", "nft_owner"})
      /\ MaySettle(item)
      /\ FeesFit(item, RoyaltyOf(item.nft))
      /\ draft_items = [items EXCEPT ![a] = [item EXCEPT !.resolved = TRUE]]
      /\ draft_outcome = [outcome EXCEPT ![a] =
                      [bidder |-> item.highest_bidder, price |-> OrZero(item.highest_bid),
                       bids |-> item.total_bids, sold |-> IsSale(item)]]
      /\ StraysArrived(extra)

\* The sends of the shares from the k-th on.
SharesFrom(paid, k) ==
  << SendShare(paid[1]) \o (SendShare(paid[2]) \o (SendShare(paid[3]) \o SendShare(paid[4]))),
     SendShare(paid[2]) \o (SendShare(paid[3]) \o SendShare(paid[4])),
     SendShare(paid[3]) \o SendShare(paid[4]),
     SendShare(paid[4]),
     << >> >>[k]

\* What the shares before the k-th have cost.
SpentBefore(paid, k) ==
  << 0,
     Outflow(paid[1]),
     Outflow(paid[1]) + Outflow(paid[2]),
     Outflow(paid[1]) + Outflow(paid[2]) + Outflow(paid[3]),
     Outflow(paid[1]) + Outflow(paid[2]) + Outflow(paid[3]) + Outflow(paid[4]) >>[k]

\* The shares before the k-th have been sent from this balance.
SharesSent(paid, k, balance) ==
  /\ tx.msgs = SharesFrom(paid, k)
  /\ \A j \in 1 .. k - 1 : paid[j] # 0 => Sendable(paid[j])
  /\ SpentBefore(paid, k) <= balance
  /\ draft_bank = balance - SpentBefore(paid, k)

\* The NFT has been handed over or is waiting, then come the rewards of a
\* sale, one after the other, and then the shares.
SaleProgress(item, paid, balance, balances, owners) ==
  LET to == NewOwner(item)
      reward == FullReward(item)
      sale == << MintMessage(item.creator, reward), MintMessage(to, reward) >>
              \o SharesFrom(paid, 1)
      once == Minted(balances, item.creator, reward)
  IN  \/ /\ tx.msgs = << TransferNft(item.nft, to) >> \o IF IsSale(item) THEN sale ELSE << >>
         /\ draft_nft_owner = owners /\ draft_sity = balances /\ draft_bank = balance
      \/ /\ owners[item.nft] = Market
         /\ draft_nft_owner = [owners EXCEPT ![item.nft] = to]
         /\ \/ /\ tx.msgs = IF IsSale(item) THEN sale ELSE << >>
               /\ draft_sity = balances /\ draft_bank = balance
            \/ /\ IsSale(item) /\ Cw20Accepts(reward)
               /\ \/ /\ tx.msgs = << MintMessage(to, reward) >> \o SharesFrom(paid, 1)
                     /\ draft_sity = once /\ draft_bank = balance
                  \/ /\ draft_sity = Minted(once, to, reward)
                     /\ \E k \in 1 .. 5 : SharesSent(paid, k, balance)

SettlementUnderWay ==
  \E a \in Auctions, extra \in Extras :
    LET item == items[a]
    IN  /\ SettlementDecided(a, extra)
        /\ SaleProgress(item, Payouts(item, RoyaltyOf(item.nft)),
                        bank + extra, sity, nft_owner)

\* execute_cancel_auction has run.
CancellationDecided(u, a, extra) ==
  LET item == items[a]
  IN  /\ OnlyTouched({"items", "bank", "stray"})
      /\ NotEnded(item)
      /\ item.creator = u
      /\ item.highest_bid # None => BankAccepts(CancellationFee(item)) /\ extra = 0
      /\ draft_items = [items EXCEPT ![a] = Cancelled(item)]
      /\ StraysArrived(extra)

\* The fee has been passed on from this balance, whole or half by half, or is
\* waiting.
FeeProgress(item, fee, balance) ==
  IF item.highest_bid = None
  THEN tx.msgs = << >> /\ draft_bank = balance
  ELSE IF item.highest_bidder = None
  THEN \/ tx.msgs = << BankSend(fee) >> /\ draft_bank = balance
       \/ /\ tx.msgs = << >>
          /\ Sendable(fee) /\ Outflow(fee) <= balance /\ draft_bank = balance - Outflow(fee)
  ELSE \/ tx.msgs = << BankSend(Half(fee)), BankSend(Half(fee)) >> /\ draft_bank = balance
       \/ /\ tx.msgs = << BankSend(Half(fee)) >>
          /\ Sendable(Half(fee)) /\ draft_bank = balance - Outflow(Half(fee))
       \/ /\ tx.msgs = << >>
          /\ Sendable(Half(fee)) /\ Outflow(Half(fee)) + Outflow(Half(fee)) <= balance
          /\ draft_bank = balance - (Outflow(Half(fee)) + Outflow(Half(fee)))

CancellationUnderWay ==
  \E u \in Users, a \in Auctions, extra \in Extras :
    LET item == items[a]
        fee == IF item.highest_bid = None THEN extra ELSE CancellationFee(item)
    IN  /\ CancellationDecided(u, a, extra)
        /\ FeeProgress(item, fee, bank + fee)

\* Before each step: the types of what is committed, and the point that the
\* transaction has reached.
StageInv ==
  /\ TypeOK
  /\ stray <= MaxStray
  /\ ~tx.open => Drafted = Committed
  /\ tx.open => \/ SettingUp \/ ListingUnderWay \/ RegistrationUnderWay \/ BidUnderWay
                \/ RoyaltyUnderWay \/ RetractionUnderWay \/ SettlementUnderWay
                \/ CancellationUnderWay

-----------------------------------------------------------------------------
(* The draft, and how the handlers read it. *)

\* The parts of the state.
LEMMA PartsAre ==
  /\ Drafted.counter_items = draft_counter_items /\ Committed.counter_items = counter_items
  /\ Drafted.items = draft_items /\ Committed.items = items
  /\ Drafted.bids = draft_bids /\ Committed.bids = bids
  /\ Drafted.histories = draft_histories /\ Committed.histories = histories
  /\ Drafted.histories_bidder = draft_histories_bidder
  /\ Committed.histories_bidder = histories_bidder
  /\ Drafted.royalty = draft_royalty /\ Committed.royalty = royalty
  /\ Drafted.bank = draft_bank /\ Committed.bank = bank
  /\ Drafted.stray = draft_stray /\ Committed.stray = stray
  /\ Drafted.sity = draft_sity /\ Committed.sity = sity
  /\ Drafted.nft_owner = draft_nft_owner /\ Committed.nft_owner = nft_owner
  /\ Drafted.outcome = draft_outcome /\ Committed.outcome = outcome
  BY DEF Drafted, Committed

\* A draft that is a copy.
LEMMA CopyIs ==
  Drafted = Committed =>
    /\ draft_counter_items = counter_items /\ draft_items = items /\ draft_bids = bids
    /\ draft_histories = histories /\ draft_histories_bidder = histories_bidder
    /\ draft_royalty = royalty /\ draft_bank = bank /\ draft_stray = stray
    /\ draft_sity = sity /\ draft_nft_owner = nft_owner /\ draft_outcome = outcome
  BY PartsAre, Zenon

\* Nothing of a transaction is committed while it goes on.
LEMMA GoesOn ==
  ASSUME WiringInv, tx.open, NEW msgs, Respond(msgs)
  PROVE  tx'.open /\ tx'.msgs = msgs \o Tail(tx.msgs)
  BY DEF Respond, WiringInv

\* When an auction is open, and what becomes of it.
LEMMA SameTimes ==
  ASSUME NEW item
  PROVE  /\ Draft!Started(item) = Started(item) /\ Draft!NotEnded(item) = NotEnded(item)
         /\ Draft!ExtendedEnd(item) = ExtendedEnd(item)
         /\ Draft!MaySettle(item) = MaySettle(item)
         /\ Draft!Cancelled(item) = Cancelled(item)
         /\ \A u, total, end : Draft!Led(item, u, total, end) = Led(item, u, total, end)
  BY DEF Draft!Started, Started, Draft!NotEnded, NotEnded, Draft!ExtendedEnd, ExtendedEnd,
         Draft!MaySettle, MaySettle, Draft!Ended, Ended, Draft!Cancelled, Cancelled,
         Draft!Led, Led

\* Amounts.
LEMMA SameAmounts ==
  /\ \A x : Draft!OrZero(x) = OrZero(x)
  /\ \A x, y : Draft!DecMul(x, y) = DecMul(x, y)
  /\ \A x : Draft!Half(x) = Half(x)
  /\ \A x : Draft!BankAccepts(x) = BankAccepts(x) /\ Draft!Cw20Accepts(x) = Cw20Accepts(x)
  BY DEF Draft!OrZero, OrZero, Draft!DecMul, DecMul, Draft!Half, Half,
         Draft!BankAccepts, BankAccepts, Draft!Cw20Accepts, Cw20Accepts

\* What it costs to send coins.
LEMMA SameTax ==
  ASSUME NEW x
  PROVE  Draft!Outflow(x) = Outflow(x) /\ Draft!Sendable(x) = Sendable(x)
<1>1. Draft!compute_tax(x) = compute_tax(x)
  BY SameAmounts DEF Draft!compute_tax, compute_tax, Draft!Lesser, Lesser,
                     Draft!MultiplyRatio, MultiplyRatio
<1>2. Draft!deduct_tax(x) = deduct_tax(x)
  BY <1>1 DEF Draft!deduct_tax, deduct_tax
<1> QED
  BY <1>2, SameAmounts DEF Draft!Outflow, Outflow, Draft!Sendable, Sendable,
                           Draft!ChainCost, ChainCost, Draft!Lesser, Lesser

\* Prices, fees, shares and rewards, and whom an auction goes to.
LEMMA SamePrices ==
  ASSUME NEW item
  PROVE  /\ Draft!MinBid(item) = MinBid(item)
         /\ Draft!SityRequired(item) = SityRequired(item)
         /\ Draft!CancellationFee(item) = CancellationFee(item)
         /\ Draft!FullReward(item) = FullReward(item)
         /\ Draft!NewOwner(item) = NewOwner(item)
         /\ Draft!IsSale(item) = IsSale(item)
         /\ \A u : Draft!IsWinner(u, item) = IsWinner(u, item)
         /\ \A fee : Draft!FeesFit(item, fee) = FeesFit(item, fee)
         /\ \A fee : Draft!Payouts(item, fee) = Payouts(item, fee)
<1>1. /\ Draft!MinBid(item) = MinBid(item)
      /\ Draft!SityRequired(item) = SityRequired(item)
      /\ Draft!CancellationFee(item) = CancellationFee(item)
      /\ Draft!FullReward(item) = FullReward(item)
  BY SameAmounts, Zenon
     DEF Draft!MinBid, MinBid, Draft!SityRequired, SityRequired,
         Draft!CancellationFee, CancellationFee, Draft!FullReward, FullReward
<1>2. /\ Draft!NewOwner(item) = NewOwner(item)
      /\ Draft!IsSale(item) = IsSale(item)
      /\ \A u : Draft!IsWinner(u, item) = IsWinner(u, item)
  BY SameAmounts DEF Draft!NewOwner, NewOwner, Draft!IsSale, IsSale,
                     Draft!IsWinner, IsWinner, Draft!ReserveMet, ReserveMet
<1>3. \A fee : Draft!FeesFit(item, fee) = FeesFit(item, fee)
  BY SameAmounts DEF Draft!FeesFit, FeesFit, Draft!LotaFee, LotaFee,
                     Draft!RoyaltyFee, RoyaltyFee
<1>4. \A fee : Draft!Payouts(item, fee) = Payouts(item, fee)
  BY SameAmounts DEF Draft!Payouts, Payouts, Draft!LotaFee, LotaFee,
                     Draft!RoyaltyFee, RoyaltyFee, Draft!CreatorShare, CreatorShare,
                     Draft!CharityShare, CharityShare, Draft!AfterFees, AfterFees
<1> QED
  BY <1>1, <1>2, <1>3, <1>4, Zenon

\* The handlers that look at the storage, on a draft that is a copy.
LEMMA SameStorage ==
  ASSUME Drafted = Committed
  PROVE  /\ \A n : Draft!RoyaltyOf(n) = RoyaltyOf(n)
         /\ \A u, a : /\ Draft!EarnsPartialReward(u, a) = EarnsPartialReward(u, a)
                      /\ Draft!PartialReward(u, a) = PartialReward(u, a)
                      /\ Draft!MayBid(u, a) = MayBid(u, a)
         /\ \A u, a, sent : Draft!BidTotal(u, a, sent) = BidTotal(u, a, sent)
<1>1. \A n : Draft!MinterOf(n) = MinterOf(n)
  BY DEF MinterOf, Draft!MinterOf
<1>2. \A n : Draft!RoyaltyOf(n) = RoyaltyOf(n)
  BY <1>1, CopyIs DEF RoyaltyOf, Draft!RoyaltyOf
<1>3. \A u, a : /\ Draft!EarnsPartialReward(u, a) = EarnsPartialReward(u, a)
               /\ Draft!PartialReward(u, a) = PartialReward(u, a)
  BY CopyIs, SameAmounts DEF EarnsPartialReward, Draft!EarnsPartialReward,
                             PartialReward, Draft!PartialReward
<1>4. /\ \A u, a, sent : Draft!BidTotal(u, a, sent) = BidTotal(u, a, sent)
      /\ \A u, a : Draft!MayBid(u, a) = MayBid(u, a)
  BY CopyIs DEF BidTotal, Draft!BidTotal, MayBid, Draft!MayBid
<1> QED
  BY <1>2, <1>3, <1>4

-----------------------------------------------------------------------------
(* Messages that are executed one after the other. *)

\* A list of messages that starts with m.
LEMMA FirstMessage ==
  ASSUME NEW m, NEW q, Quiet(q)
  PROVE  /\ << m >> \o q # << >>
         /\ Head(<< m >> \o q) = m
         /\ << >> \o Tail(<< m >> \o q) = q
<1>1. PICK S : q \in Seq(S)
  BY DEF Quiet
<1> DEFINE T == S \cup {m}
<1>2. << m >> \in Seq(T) /\ q \in Seq(T)
  BY <1>1
<1> HIDE DEF T
<1>3. Len(<< m >> \o q) = Len(q) + 1 /\ << m >> \o q \in Seq(T)
  BY <1>2
<1>4. << m >> \o q # << >>
  BY <1>2, <1>3
<1>5. Head(<< m >> \o q) = m
  BY <1>2, <1>3
<1>6. Tail(<< m >> \o q) = q
  BY <1>2, <1>3, <1>4
<1>7. << >> \o q = q
  BY <1>2
<1> QED
  BY <1>4, <1>5, <1>6, <1>7

\* The next message of a list that starts with m is m.
LEMMA Executing ==
  ASSUME WiringInv, tx.open, NEW m, NEW q, Quiet(q), tx.msgs = << m >> \o q
  PROVE  /\ Message = m
         /\ Respond(<< >>) => tx'.open /\ tx'.msgs = q
<1>1. Head(<< m >> \o q) = m /\ << >> \o Tail(<< m >> \o q) = q
  BY FirstMessage
<1> QED
  BY <1>1, GoesOn DEF Message

\* The types of the messages.
LEMMA MessageTypes ==
  /\ \A gross : BankSend(gross).type = "send" /\ BankSend(gross).amount = gross
  /\ \A u, amount : /\ MintMessage(u, amount).type = "mint"
                    /\ MintMessage(u, amount).recipient = u
                    /\ MintMessage(u, amount).amount = amount
  /\ \A n, u : /\ TransferNft(n, u).type = "transfer_nft"
               /\ TransferNft(n, u).nft = n /\ TransferNft(n, u).recipient = u
  BY DEF BankSend, MintMessage, TransferNft

\* Lists of such messages are quiet.
LEMMA ListsQuiet ==
  /\ Quiet(<< >>)
  /\ \A gross : Quiet(<< BankSend(gross) >>)
  /\ \A u, amount : Quiet(<< MintMessage(u, amount) >>)
  /\ \A share : Quiet(SendShare(share))
  /\ \A p, q : Quiet(p) /\ Quiet(q) => Quiet(p \o q)
<1>1. /\ \A gross : BankSend(gross).type \in QuietTypes
      /\ \A v, amount : MintMessage(v, amount).type \in QuietTypes
  BY DEF BankSend, MintMessage, QuietTypes
<1>2. \A m : m.type \in QuietTypes => Quiet(<< m >>)
  BY FewQuiet, Zenon
<1>3. \A gross : Quiet(<< BankSend(gross) >>)
  BY <1>1, <1>2
<1>4. \A share : Quiet(SendShare(share))
  BY <1>3, NoneQuiet, Zenon DEF SendShare
<1>5. \A p, q : Quiet(p) /\ Quiet(q) => Quiet(p \o q)
  BY ConcatQuiet, Zenon
<1> QED
  BY <1>1, <1>2, <1>3, <1>4, <1>5, NoneQuiet

\* The order of a token does not change with what is sent.
LEMMA SameMint ==
  UNCHANGED wiring => \A u, amount : MintMessage(u, amount)' = MintMessage(u, amount)
  BY DEF wiring, MintMessage

\* The refund is sent.
LEMMA RefundIsSent ==
  ASSUME WiringInv, tx.open, NEW u, NEW refund, NEW rewarded \in BOOLEAN, NEW reward,
         NEW balance, NEW balances,
         RefundProgress(u, refund, rewarded, reward, balance, balances), ExecuteSend
  PROVE  /\ RefundProgress(u, refund, rewarded, reward, balance, balances)'
         /\ Message.amount = refund
<1> DEFINE mint == IF rewarded THEN << MintMessage(u, reward) >> ELSE << >>
<1>1. Executes("send") /\ Respond(<< >>) /\ UNCHANGED << wiring, draft_sity >>
  BY DEF ExecuteSend
<1>2. Quiet(mint)
  BY ListsQuiet, Zenon
<1>3. tx.msgs # mint /\ tx.msgs # << >>
  BY <1>1, MessageTypes DEF Executes, Message
<1>4. tx.msgs = << BankSend(refund) >> \o mint /\ draft_bank = balance /\ draft_sity = balances
  BY <1>3 DEF RefundProgress
<1>5. MintMessage(u, reward)' = MintMessage(u, reward)
  BY <1>1, SameMint
<1> HIDE DEF mint
<1>6. Message = BankSend(refund) /\ tx'.msgs = mint
  BY <1>1, <1>2, <1>4, Executing
<1>7. Message.amount = refund
  BY <1>6, MessageTypes
<1>8. /\ Sendable(refund) /\ Outflow(refund) <= balance
      /\ draft_bank' = balance - Outflow(refund) /\ draft_sity' = balances
  BY <1>1, <1>4, <1>7 DEF ExecuteSend
<1>9. tx'.msgs = (IF rewarded THEN << MintMessage(u, reward)' >> ELSE << >>)
  BY <1>5, <1>6 DEF mint
<1> QED
  BY <1>7, <1>8, <1>9 DEF RefundProgress

\* The reward of a refund is minted.
LEMMA RewardIsMinted ==
  ASSUME WiringInv, tx.open, NEW u, NEW refund, NEW rewarded \in BOOLEAN, NEW reward,
         NEW balance, NEW balances,
         RefundProgress(u, refund, rewarded, reward, balance, balances), ExecuteMint
  PROVE  /\ RefundProgress(u, refund, rewarded, reward, balance, balances)'
         /\ Message.amount = reward /\ Message.recipient = u /\ rewarded
<1> DEFINE mint == IF rewarded THEN << MintMessage(u, reward) >> ELSE << >>
<1>1. Executes("mint") /\ Respond(<< >>) /\ UNCHANGED << wiring, draft_bank >>
  BY DEF ExecuteMint
<1>2. Quiet(mint)
  BY ListsQuiet, Zenon
<1>3. tx.msgs # << BankSend(refund) >> \o mint
  <2> HIDE DEF mint
  <2>1. CASE tx.msgs = << BankSend(refund) >> \o mint
    <3>1. Message = BankSend(refund)
      BY <1>2, <2>1, Executing
    <3> QED
      BY <1>1, <3>1, MessageTypes DEF Executes
  <2> QED
    BY <2>1
<1>4. /\ Sendable(refund) /\ Outflow(refund) <= balance
      /\ draft_bank = balance - Outflow(refund)
      /\ rewarded /\ tx.msgs = << MintMessage(u, reward) >> /\ draft_sity = balances
  BY <1>1, <1>3 DEF RefundProgress, Executes
<1>5. tx.msgs = << MintMessage(u, reward) >> \o << >>
  BY <1>4
<1>6. Message = MintMessage(u, reward) /\ tx'.msgs = << >>
  BY <1>1, <1>5, NoneQuiet, Executing
<1>7. Message.amount = reward /\ Message.recipient = u
  BY <1>6, MessageTypes
<1>8. Cw20Accepts(reward) /\ draft_sity' = Minted(balances, u, reward)
  BY <1>4, <1>7 DEF ExecuteMint
<1> QED
  BY <1>1, <1>4, <1>6, <1>7, <1>8 DEF RefundProgress

\* A sale sends the k-th share and then the others; the last one is the end.
LEMMA SharesUnfold ==
  ASSUME NEW paid, NEW k \in 1 .. 4, \A j \in 1 .. 4 : paid[j] \in Nat
  PROVE  /\ SharesFrom(paid, k) = SendShare(paid[k]) \o SharesFrom(paid, k + 1)
         /\ Quiet(SharesFrom(paid, k)) /\ Quiet(SharesFrom(paid, k + 1))
         /\ SpentBefore(paid, k) \in Nat
         /\ Outflow(paid[k]) \in Nat
         /\ SpentBefore(paid, k + 1) = SpentBefore(paid, k) + Outflow(paid[k])
<1>1. /\ SharesFrom(paid, 5) = << >>
      /\ SharesFrom(paid, 4) = SendShare(paid[4])
      /\ SharesFrom(paid, 3) = SendShare(paid[3]) \o SharesFrom(paid, 4)
      /\ SharesFrom(paid, 2) = SendShare(paid[2]) \o SharesFrom(paid, 3)
      /\ SharesFrom(paid, 1) = SendShare(paid[1]) \o SharesFrom(paid, 2)
  BY Zenon DEF SharesFrom
<1>2. \A share : SendShare(share) \o << >> = SendShare(share)
  BY DEF SendShare, BankSend
<1>3. /\ Quiet(SharesFrom(paid, 5)) /\ Quiet(SharesFrom(paid, 4)) /\ Quiet(SharesFrom(paid, 3))
      /\ Quiet(SharesFrom(paid, 2)) /\ Quiet(SharesFrom(paid, 1))
  BY <1>1, ListsQuiet
<1>4. \A j \in 1 .. 4 : Outflow(paid[j]) \in Nat
  BY OutflowCovered
<1>5. k = 1 \/ k = 2 \/ k = 3 \/ k = 4
  OBVIOUS
<1>6. SharesFrom(paid, k) = SendShare(paid[k]) \o SharesFrom(paid, k + 1)
  <2>1. CASE k = 4
    <3>1. SharesFrom(paid, 4) = SendShare(paid[4]) \o SharesFrom(paid, 5)
      BY <1>1, <1>2
    <3> QED
      BY <2>1, <3>1
  <2>2. CASE k = 3
    BY <1>1, <2>2
  <2>3. CASE k = 2
    BY <1>1, <2>3
  <2>4. CASE k = 1
    BY <1>1, <2>4
  <2> QED
    BY <1>5, <2>1, <2>2, <2>3, <2>4
<1>7. /\ SpentBefore(paid, k) \in Nat
      /\ SpentBefore(paid, k + 1) = SpentBefore(paid, k) + Outflow(paid[k])
  BY <1>4, <1>5 DEF SpentBefore
<1>8. Quiet(SharesFrom(paid, k)) /\ Quiet(SharesFrom(paid, k + 1))
  BY <1>3, <1>5
<1> QED
  BY <1>4, <1>6, <1>7, <1>8

\* A share of zero takes no message and no coins.
LEMMA ZeroShareSent ==
  ASSUME NEW paid, NEW k \in 1 .. 4, \A j \in 1 .. 4 : paid[j] \in Nat, paid[k] = 0,
         NEW balance \in Nat, SharesSent(paid, k, balance)
  PROVE  SharesSent(paid, k + 1, balance)
<1>1. SendShare(paid[k]) = << >>
  BY DEF SendShare
<1>2. SharesFrom(paid, k) = << >> \o SharesFrom(paid, k + 1) /\ Quiet(SharesFrom(paid, k + 1))
  BY <1>1, SharesUnfold
<1>3. SharesFrom(paid, k) = SharesFrom(paid, k + 1)
  BY <1>2 DEF Quiet
<1>4. Outflow(0) = 0
  BY OutflowCovered
<1>5. SpentBefore(paid, k + 1) = SpentBefore(paid, k)
  <2>1. /\ SpentBefore(paid, k) \in Nat
        /\ SpentBefore(paid, k + 1) = SpentBefore(paid, k) + Outflow(paid[k])
    BY SharesUnfold
  <2> QED
    BY <1>4, <2>1
<1>6. \A j \in 1 .. (k + 1) - 1 : j \in 1 .. k - 1 \/ j = k
  OBVIOUS
<1> QED
  BY <1>3, <1>5, <1>6 DEF SharesSent

\* Some share is the next one to send, unless all of them are.
LEMMA NextShare ==
  ASSUME NEW paid, \A j \in 1 .. 4 : paid[j] \in Nat,
         NEW balance \in Nat, \E k \in 1 .. 5 : SharesSent(paid, k, balance)
  PROVE  \/ \E k \in 1 .. 4 : SharesSent(paid, k, balance) /\ paid[k] # 0
         \/ SharesSent(paid, 5, balance)
<1> DEFINE Due(k) == SharesSent(paid, k, balance)
           Goal == (\E k \in 1 .. 4 : Due(k) /\ paid[k] # 0) \/ Due(5)
<1>1. \A k \in 1 .. 4 : Due(k) /\ paid[k] = 0 => Due(k + 1)
  BY ZeroShareSent
<1>2. Due(1) \/ Due(2) \/ Due(3) \/ Due(4) \/ Due(5)
  OBVIOUS
<1> HIDE DEF Due
<1>3. Due(4) => Goal
  BY <1>1
<1>4. Due(3) => Goal
  BY <1>1, <1>3
<1>5. Due(2) => Goal
  BY <1>1, <1>4
<1>6. Due(1) => Goal
  BY <1>1, <1>5
<1>7. Goal
  BY <1>2, <1>3, <1>4, <1>5, <1>6
<1> QED
  BY <1>7 DEF Due

\* A share is sent.
LEMMA ShareIsSent ==
  ASSUME WiringInv, tx.open, NEW paid, \A j \in 1 .. 4 : paid[j] \in Nat,
         NEW balance \in Nat, \E k \in 1 .. 5 : SharesSent(paid, k, balance), ExecuteSend
  PROVE  /\ (\E k \in 1 .. 5 : SharesSent(paid, k, balance))'
         /\ Message.amount \in Nat
<1>1. Executes("send") /\ Respond(<< >>)
  BY DEF ExecuteSend
<1>2. ~SharesSent(paid, 5, balance)
  BY <1>1, Zenon DEF SharesSent, SharesFrom, Executes
<1>3. PICK k \in 1 .. 4 : SharesSent(paid, k, balance) /\ paid[k] # 0
  BY <1>2, NextShare
<1>4. tx.msgs = << BankSend(paid[k]) >> \o SharesFrom(paid, k + 1)
  BY <1>3, SharesUnfold DEF SharesSent, SendShare
<1>5. Message = BankSend(paid[k]) /\ tx'.msgs = SharesFrom(paid, k + 1)
  BY <1>1, <1>4, SharesUnfold, Executing
<1>6. Message.amount = paid[k]
  BY <1>5, MessageTypes
<1>7. /\ Sendable(paid[k]) /\ Outflow(paid[k]) <= draft_bank
      /\ draft_bank' = draft_bank - Outflow(paid[k])
  BY <1>6 DEF ExecuteSend
<1>8. /\ SpentBefore(paid, k + 1) = SpentBefore(paid, k) + Outflow(paid[k])
      /\ SpentBefore(paid, k) \in Nat /\ Outflow(paid[k]) \in Nat
  BY SharesUnfold
<1>9. draft_bank = balance - SpentBefore(paid, k)
  BY <1>3 DEF SharesSent
<1>10. SpentBefore(paid, k + 1) <= balance /\ draft_bank' = balance - SpentBefore(paid, k + 1)
  BY <1>7, <1>8, <1>9
<1>11. \A j \in 1 .. (k + 1) - 1 : paid[j] # 0 => Sendable(paid[j])
  <2>1. \A j \in 1 .. (k + 1) - 1 : j \in 1 .. k - 1 \/ j = k
    OBVIOUS
  <2> QED
    BY <1>3, <1>7, <2>1 DEF SharesSent
<1>12. SharesSent(paid, k + 1, balance)'
  BY <1>5, <1>10, <1>11 DEF SharesSent
<1> QED
  BY <1>6, <1>12

\* Once there are only shares left, the next message sends one.
LEMMA SharesAreSends ==
  ASSUME WiringInv, tx.open, NEW paid, \A j \in 1 .. 4 : paid[j] \in Nat,
         NEW balance \in Nat, \E k \in 1 .. 5 : SharesSent(paid, k, balance)
  PROVE  tx.msgs = << >> \/ Message.type = "send"
<1>1. CASE SharesSent(paid, 5, balance)
  BY <1>1, Zenon DEF SharesSent, SharesFrom
<1>2. ASSUME NEW k \in 1 .. 4, SharesSent(paid, k, balance), paid[k] # 0
      PROVE  Message.type = "send"
  <2>1. tx.msgs = << BankSend(paid[k]) >> \o SharesFrom(paid, k + 1)
    BY <1>2, SharesUnfold DEF SharesSent, SendShare
  <2>2. Quiet(SharesFrom(paid, k + 1))
    BY SharesUnfold
  <2>3. Message = BankSend(paid[k])
    BY <2>1, <2>2, Executing
  <2> QED
    BY <2>3, MessageTypes
<1> QED
  BY <1>1, <1>2, NextShare

\* The elements of two lists that are joined.
LEMMA JoinedLength ==
  ASSUME NEW T, NEW q \in Seq(T), NEW r \in Seq(T)
  PROVE  /\ q \o r \in Seq(T) /\ Len(q \o r) = Len(q) + Len(r)
         /\ \A i \in 1 .. Len(q) + Len(r) :
              (q \o r)[i] = IF i <= Len(q) THEN q[i] ELSE r[i - Len(q)]
  OBVIOUS

\* Two lists of one element make one of two.
LEMMA OneAndOne ==
  ASSUME NEW T, NEW p \in Seq(T), NEW q \in Seq(T), NEW r \in Seq(T),
         Len(p) = 2, Len(q) = 1, Len(r) = 1, p[1] = q[1], p[2] = r[1]
  PROVE  p = q \o r
<1>1. q \o r \in Seq(T) /\ Len(q \o r) = Len(q) + Len(r)
  BY JoinedLength
<1>2. \A i \in 1 .. Len(q) + Len(r) : (q \o r)[i] = IF i <= Len(q) THEN q[i] ELSE r[i - Len(q)]
  BY JoinedLength
<1>3. (q \o r)[1] = q[1] /\ (q \o r)[2] = r[1]
  <2>1. /\ 1 \in 1 .. Len(q) + Len(r) /\ 2 \in 1 .. Len(q) + Len(r)
        /\ 1 <= Len(q) /\ ~(2 <= Len(q)) /\ 2 - Len(q) = 1
    OBVIOUS
  <2> QED
    BY <1>2, <2>1, Zenon
<1> QED
  BY <1>1, <1>3

\* A list of two messages is the one followed by the other.
LEMMA TwoMessages ==
  ASSUME NEW m, NEW n
  PROVE  << m, n >> = << m >> \o << n >>
<1>1. /\ << m, n >> \in Seq({m, n}) /\ << m >> \in Seq({m, n}) /\ << n >> \in Seq({m, n})
      /\ Len(<< m, n >>) = 2 /\ Len(<< m >>) = 1 /\ Len(<< n >>) = 1
      /\ << m, n >>[1] = << m >>[1] /\ << m, n >>[2] = << n >>[1]
  OBVIOUS
<1> QED
  BY <1>1, OneAndOne, Zenon

\* The messages of a settlement that are left, from the first on.
LEMMA SaleMessages ==
  ASSUME NEW paid, \A j \in 1 .. 4 : paid[j] \in Nat, NEW m, NEW n
  PROVE  /\ << m, n >> \o SharesFrom(paid, 1) = << m >> \o (<< n >> \o SharesFrom(paid, 1))
         /\ Quiet(SharesFrom(paid, 1))
<1>1. Quiet(SharesFrom(paid, 1))
  BY SharesUnfold
<1>2. PICK S : SharesFrom(paid, 1) \in Seq(S)
  BY <1>1 DEF Quiet
<1> DEFINE T == S \cup {m, n}
<1>3. << m >> \in Seq(T) /\ << n >> \in Seq(T) /\ SharesFrom(paid, 1) \in Seq(T)
  BY <1>2
<1>4. << m, n >> = << m >> \o << n >>
  BY TwoMessages
<1> HIDE DEF T
<1>5. (<< m >> \o << n >>) \o SharesFrom(paid, 1) = << m >> \o (<< n >> \o SharesFrom(paid, 1))
  BY <1>3
<1> QED
  BY <1>1, <1>4, <1>5

\* The NFT of a settlement is handed over.
LEMMA NftIsHandedOver ==
  ASSUME WiringInv, tx.open, NEW item, NEW paid, \A j \in 1 .. 4 : paid[j] \in Nat,
         NEW balance \in Nat, NEW balances, NEW owners,
         SaleProgress(item, paid, balance, balances, owners), ExecuteTransferNft
  PROVE  /\ SaleProgress(item, paid, balance, balances, owners)'
         /\ Message.nft = item.nft /\ Message.recipient = NewOwner(item)
<1> DEFINE to == NewOwner(item)
           reward == FullReward(item)
           sale == << MintMessage(item.creator, reward), MintMessage(to, reward) >>
                   \o SharesFrom(paid, 1)
           left == IF IsSale(item) THEN sale ELSE << >>
<1>1. Executes("transfer_nft") /\ Respond(<< >>) /\ UNCHANGED << wiring, draft_sity, draft_bank >>
  BY DEF ExecuteTransferNft
<1>2. /\ Quiet(SharesFrom(paid, 1)) /\ Quiet(<< MintMessage(to, reward) >> \o SharesFrom(paid, 1))
      /\ sale = << MintMessage(item.creator, reward) >>
                \o (<< MintMessage(to, reward) >> \o SharesFrom(paid, 1))
  BY SaleMessages, ListsQuiet
<1>3. Quiet(sale) /\ Quiet(left)
  BY <1>2, ListsQuiet
<1>4. \A m, q : Quiet(q) /\ tx.msgs = << m >> \o q => m.type = "transfer_nft"
  BY <1>1, Executing DEF Executes
<1>5. /\ tx.msgs # << >>
      /\ tx.msgs # << MintMessage(to, reward) >> \o SharesFrom(paid, 1)
      /\ tx.msgs # sale
  <2>1. \A v, q : Quiet(q) => tx.msgs # << MintMessage(v, reward) >> \o q
    BY <1>4, MessageTypes
  <2> QED
    BY <1>1, <1>2, <2>1 DEF Executes
<1>6. ~\E k \in 1 .. 5 : SharesSent(paid, k, balance)
  BY <1>1, SharesAreSends DEF Executes
<1>7. tx.msgs = << TransferNft(item.nft, to) >> \o left
      /\ draft_nft_owner = owners /\ draft_sity = balances /\ draft_bank = balance
  BY <1>5, <1>6 DEF SaleProgress
<1>8. /\ MintMessage(item.creator, reward)' = MintMessage(item.creator, reward)
      /\ MintMessage(to, reward)' = MintMessage(to, reward)
  BY <1>1, SameMint
<1> HIDE DEF left
<1>9. Message = TransferNft(item.nft, to) /\ tx'.msgs = left
  BY <1>1, <1>3, <1>7, Executing
<1>10. Message.nft = item.nft /\ Message.recipient = to
  BY <1>9, MessageTypes
<1>11. owners[item.nft] = Market /\ draft_nft_owner' = [owners EXCEPT ![item.nft] = to]
  BY <1>7, <1>10 DEF ExecuteTransferNft
<1>12. tx'.msgs = left'
  BY <1>8, <1>9 DEF left
<1> QED
  BY <1>1, <1>7, <1>10, <1>11, <1>12 DEF SaleProgress, left

\* One of the two rewards of a sale is minted.
LEMMA SaleRewardIsMinted ==
  ASSUME WiringInv, tx.open, NEW item, NEW paid, \A j \in 1 .. 4 : paid[j] \in Nat,
         NEW balance \in Nat, NEW balances, NEW owners,
         SaleProgress(item, paid, balance, balances, owners), ExecuteMint
  PROVE  /\ SaleProgress(item, paid, balance, balances, owners)'
         /\ Message.amount = FullReward(item)
         /\ Message.recipient \in {item.creator, NewOwner(item)}
<1> DEFINE to == NewOwner(item)
           reward == FullReward(item)
           last == << MintMessage(to, reward) >> \o SharesFrom(paid, 1)
           sale == << MintMessage(item.creator, reward), MintMessage(to, reward) >>
                   \o SharesFrom(paid, 1)
           left == IF IsSale(item) THEN sale ELSE << >>
           once == Minted(balances, item.creator, reward)
<1>1. Executes("mint") /\ Respond(<< >>) /\ UNCHANGED << wiring, draft_nft_owner, draft_bank >>
  BY DEF ExecuteMint
<1>2. /\ Quiet(SharesFrom(paid, 1)) /\ Quiet(last)
      /\ sale = << MintMessage(item.creator, reward) >> \o last
  BY SaleMessages, ListsQuiet
<1>3. Quiet(left)
  BY <1>2, ListsQuiet
<1>4. tx.msgs # << TransferNft(item.nft, to) >> \o left
  <2> HIDE DEF left
  <2> QED
    BY <1>1, <1>3, Executing, MessageTypes DEF Executes
<1>5. tx.msgs # << >> /\ ~\E k \in 1 .. 5 : SharesSent(paid, k, balance)
  BY <1>1, SharesAreSends DEF Executes
<1>6. /\ owners[item.nft] = Market
      /\ draft_nft_owner = [owners EXCEPT ![item.nft] = to]
      /\ IsSale(item) /\ draft_bank = balance
      /\ \/ tx.msgs = sale /\ draft_sity = balances
         \/ tx.msgs = last /\ Cw20Accepts(reward) /\ draft_sity = once
  BY <1>4, <1>5 DEF SaleProgress
<1>7. /\ MintMessage(item.creator, reward)' = MintMessage(item.creator, reward)
      /\ MintMessage(to, reward)' = MintMessage(to, reward)
  BY <1>1, SameMint
<1>8. CASE tx.msgs = sale /\ draft_sity = balances
  <2> HIDE DEF last
  <2>1. Message = MintMessage(item.creator, reward) /\ tx'.msgs = last
    BY <1>1, <1>2, <1>8, Executing
  <2>2. Message.amount = reward /\ Message.recipient = item.creator
    BY <2>1, MessageTypes
  <2>3. Cw20Accepts(reward) /\ draft_sity' = once
    BY <1>8, <2>2 DEF ExecuteMint
  <2>4. tx'.msgs = last'
    BY <1>7, <2>1 DEF last
  <2> QED
    BY <1>1, <1>6, <2>2, <2>3, <2>4 DEF SaleProgress, last
<1>9. CASE tx.msgs = last /\ Cw20Accepts(reward) /\ draft_sity = once
  <2>1. Message = MintMessage(to, reward) /\ tx'.msgs = SharesFrom(paid, 1)
    BY <1>1, <1>2, <1>9, Executing
  <2>2. Message.amount = reward /\ Message.recipient = to
    BY <2>1, MessageTypes
  <2>3. draft_sity' = Minted(once, to, reward)
    BY <1>9, <2>2 DEF ExecuteMint
  <2>4. SpentBefore(paid, 1) = 0 /\ draft_bank' = balance
    BY <1>1, <1>6, Zenon DEF SpentBefore
  <2>5. SharesSent(paid, 1, balance)'
    BY <2>1, <2>4 DEF SharesSent
  <2> QED
    BY <1>1, <1>6, <1>9, <2>2, <2>3, <2>5 DEF SaleProgress
<1> QED
  BY <1>6, <1>8, <1>9

\* A share of a sale is sent.
LEMMA SaleShareIsSent ==
  ASSUME WiringInv, tx.open, NEW item, NEW paid, \A j \in 1 .. 4 : paid[j] \in Nat,
         NEW balance \in Nat, NEW balances, NEW owners,
         SaleProgress(item, paid, balance, balances, owners), ExecuteSend
  PROVE  /\ SaleProgress(item, paid, balance, balances, owners)'
         /\ Message.amount \in Nat
<1> DEFINE to == NewOwner(item)
           reward == FullReward(item)
           last == << MintMessage(to, reward) >> \o SharesFrom(paid, 1)
           sale == << MintMessage(item.creator, reward), MintMessage(to, reward) >>
                   \o SharesFrom(paid, 1)
           left == IF IsSale(item) THEN sale ELSE << >>
           once == Minted(balances, item.creator, reward)
<1>1. Executes("send") /\ Respond(<< >>) /\ UNCHANGED << wiring, draft_nft_owner, draft_sity >>
  BY DEF ExecuteSend
<1>2. /\ Quiet(SharesFrom(paid, 1)) /\ Quiet(last)
      /\ sale = << MintMessage(item.creator, reward) >> \o last
  BY SaleMessages, ListsQuiet
<1>3. Quiet(left)
  BY <1>2, ListsQuiet
<1>4. \A m, q : Quiet(q) /\ tx.msgs = << m >> \o q => m.type = "send"
  BY <1>1, Executing DEF Executes
<1>5. tx.msgs # << TransferNft(item.nft, to) >> \o left
  <2> HIDE DEF left
  <2> QED
    BY <1>3, <1>4, MessageTypes
<1>6. tx.msgs # << >> /\ tx.msgs # last /\ tx.msgs # sale
  <2>1. \A v, q : Quiet(q) => tx.msgs # << MintMessage(v, reward) >> \o q
    BY <1>4, MessageTypes
  <2> QED
    BY <1>1, <1>2, <2>1 DEF Executes
<1>7. /\ owners[item.nft] = Market
      /\ draft_nft_owner = [owners EXCEPT ![item.nft] = to]
      /\ IsSale(item) /\ Cw20Accepts(reward) /\ draft_sity = Minted(once, to, reward)
      /\ \E k \in 1 .. 5 : SharesSent(paid, k, balance)
  BY <1>5, <1>6 DEF SaleProgress
<1>8. (\E k \in 1 .. 5 : SharesSent(paid, k, balance))' /\ Message.amount \in Nat
  BY <1>7, ShareIsSent
<1> QED
  BY <1>1, <1>7, <1>8 DEF SaleProgress

\* The fee of a cancellation is passed on, whole or half by half.
LEMMA FeeIsSent ==
  ASSUME WiringInv, tx.open, NEW item, NEW fee \in Nat, NEW balance \in Nat,
         FeeProgress(item, fee, balance), ExecuteSend
  PROVE  FeeProgress(item, fee, balance)' /\ Message.amount \in Nat
<1> DEFINE half == Half(fee)
<1>1. Executes("send") /\ Respond(<< >>)
  BY DEF ExecuteSend
<1>2. Half(fee) \in Nat /\ Outflow(half) \in Nat /\ Outflow(fee) \in Nat
  BY OutflowCovered DEF Half
<1>3. tx.msgs # << >> /\ item.highest_bid # None
  BY <1>1 DEF FeeProgress, Executes
<1>4. \A gross, q : Quiet(q) /\ tx.msgs = << BankSend(gross) >> \o q =>
        /\ Message.amount = gross /\ tx'.msgs = q
        /\ Sendable(gross) /\ Outflow(gross) <= draft_bank
        /\ draft_bank' = draft_bank - Outflow(gross)
  <2> SUFFICES ASSUME NEW gross, NEW q, Quiet(q), tx.msgs = << BankSend(gross) >> \o q
               PROVE  /\ Message.amount = gross /\ tx'.msgs = q
                      /\ Sendable(gross) /\ Outflow(gross) <= draft_bank
                      /\ draft_bank' = draft_bank - Outflow(gross)
    OBVIOUS
  <2>1. Message = BankSend(gross) /\ tx'.msgs = q
    BY <1>1, Executing
  <2>2. Message.amount = gross
    BY <2>1, MessageTypes
  <2> QED
    BY <2>1, <2>2 DEF ExecuteSend
<1>5. \A gross : << BankSend(gross) >> = << BankSend(gross) >> \o << >>
  OBVIOUS
<1>6. CASE item.highest_bidder = None
  <2>1. tx.msgs = << BankSend(fee) >> /\ draft_bank = balance
    BY <1>3, <1>6 DEF FeeProgress
  <2>2. /\ Message.amount = fee /\ tx'.msgs = << >>
        /\ Sendable(fee) /\ Outflow(fee) <= balance /\ draft_bank' = balance - Outflow(fee)
    BY <1>4, <1>5, <2>1, NoneQuiet
  <2> QED
    BY <1>3, <1>6, <2>2 DEF FeeProgress
<1>7. CASE item.highest_bidder # None /\ tx.msgs = << BankSend(half), BankSend(half) >>
  <2>1. tx.msgs = << BankSend(half) >> \o << BankSend(half) >> /\ Quiet(<< BankSend(half) >>)
    BY <1>7, ListsQuiet
  <2>2. draft_bank = balance
    BY <1>3, <1>7 DEF FeeProgress
  <2>3. /\ Message.amount = half /\ tx'.msgs = << BankSend(half) >>
        /\ Sendable(half) /\ draft_bank' = balance - Outflow(half)
    BY <1>4, <2>1, <2>2
  <2> QED
    BY <1>2, <1>3, <1>7, <2>3 DEF FeeProgress, BankSend
<1>8. CASE item.highest_bidder # None /\ tx.msgs = << BankSend(half) >>
  <2>1. Sendable(half) /\ draft_bank = balance - Outflow(half)
    BY <1>3, <1>8 DEF FeeProgress
  <2>2. /\ Message.amount = half /\ tx'.msgs = << >>
        /\ Outflow(half) <= draft_bank /\ draft_bank' = draft_bank - Outflow(half)
    BY <1>4, <1>5, <1>8, NoneQuiet
  <2>3. /\ Outflow(half) + Outflow(half) <= balance
        /\ draft_bank' = balance - (Outflow(half) + Outflow(half))
    BY <1>2, <2>1, <2>2
  <2> QED
    BY <1>2, <1>3, <1>8, <2>1, <2>2, <2>3 DEF FeeProgress
<1> QED
  BY <1>3, <1>6, <1>7, <1>8 DEF FeeProgress

-----------------------------------------------------------------------------
(* The decisions of the handlers. *)

\* The types of what is committed.
LEMMA CommittedTypes ==
  ASSUME TypeOK
  PROVE  /\ bank \in Nat /\ stray \in Nat
         /\ \A a \in Auctions : items[a] \in ItemInfo
         /\ \A a \in Auctions, u \in Users : bids[a][u] \in Option(BidInfo)
         /\ \A n \in Nfts : RoyaltyOf(n) \in Decimal
  BY RoyaltyOfDecimal DEF TypeOK

\* The shares of a settlement that was accepted are amounts.
LEMMA SharesAreAmounts ==
  ASSUME TypeOK, NEW a \in Auctions, NEW extra, SettlementDecided(a, extra)
  PROVE  LET item == items[a]
         IN  \A j \in 1 .. 4 : Payouts(item, RoyaltyOf(item.nft))[j] \in Nat
<1>1. items[a] \in ItemInfo
  BY CommittedTypes
<1>2. RoyaltyOf(items[a].nft) \in Decimal
  BY <1>1, CommittedTypes DEF ItemInfo
<1> QED
  BY <1>1, <1>2, SharesOfThePrice DEF SettlementDecided

\* What a handler decided stands while its messages are executed.
LEMMA DecisionsStand ==
  ASSUME UNCHANGED << vars, storage, draft_stray >>, NEW u, NEW a, NEW extra
  PROVE  /\ RetractionDecided(u, a, extra) /\ draft_nft_owner' = draft_nft_owner =>
              RetractionDecided(u, a, extra)'
         /\ SettlementDecided(a, extra) => SettlementDecided(a, extra)'
         /\ /\ CancellationDecided(u, a, extra)
            /\ draft_nft_owner' = draft_nft_owner /\ draft_sity' = draft_sity
            => CancellationDecided(u, a, extra)'
         /\ Auctions' = Auctions
         /\ \A n : RoyaltyOf(n)' = RoyaltyOf(n)
         /\ EarnsPartialReward(u, a)' = EarnsPartialReward(u, a)
         /\ PartialReward(u, a)' = PartialReward(u, a)
<1>1. /\ Auctions' = Auctions
      /\ \A n : RoyaltyOf(n)' = RoyaltyOf(n)
      /\ EarnsPartialReward(u, a)' = EarnsPartialReward(u, a)
      /\ PartialReward(u, a)' = PartialReward(u, a)
  BY DEF Auctions, RoyaltyOf, EarnsPartialReward, PartialReward, vars
<1>2. \A parts : OnlyTouched(parts)
                 /\ (draft_nft_owner' = draft_nft_owner \/ "nft_owner" \in parts)
                 /\ (draft_sity' = draft_sity \/ "sity" \in parts) /\ "bank" \in parts
                 => OnlyTouched(parts)'
  BY PartsAre DEF OnlyTouched, Parts, Drafted, Committed, storage, vars
<1>3. RetractionDecided(u, a, extra) /\ draft_nft_owner' = draft_nft_owner =>
        RetractionDecided(u, a, extra)'
  BY <1>2 DEF RetractionDecided, storage, vars, StraysArrived
<1>4. SettlementDecided(a, extra) => SettlementDecided(a, extra)'
  BY <1>1, <1>2 DEF SettlementDecided, storage, vars, StraysArrived, MaySettle, Ended
<1>5. /\ CancellationDecided(u, a, extra)
      /\ draft_nft_owner' = draft_nft_owner /\ draft_sity' = draft_sity
      => CancellationDecided(u, a, extra)'
  BY <1>2 DEF CancellationDecided, storage, vars, StraysArrived, NotEnded, Cancelled
<1> QED
  BY <1>1, <1>3, <1>4, <1>5

-----------------------------------------------------------------------------
(* Which transaction a message belongs to. *)

\* A refund sends and mints.
LEMMA RefundTypes ==
  ASSUME WiringInv, tx.open, NEW u, NEW refund, NEW rewarded \in BOOLEAN, NEW reward,
         NEW balance, NEW balances,
         RefundProgress(u, refund, rewarded, reward, balance, balances), tx.msgs # << >>
  PROVE  Message.type \in {"send", "mint"}
<1> DEFINE mint == IF rewarded THEN << MintMessage(u, reward) >> ELSE << >>
<1>1. Quiet(mint)
  BY ListsQuiet, Zenon
<1>2. CASE tx.msgs = mint
  <2>1. Message = MintMessage(u, reward)
    BY <1>2 DEF Message
  <2> QED
    BY <2>1, MessageTypes
<1>3. CASE tx.msgs = << BankSend(refund) >> \o mint
  <2> HIDE DEF mint
  <2>1. Message = BankSend(refund)
    BY <1>1, <1>3, Executing
  <2> QED
    BY <2>1, MessageTypes
<1> QED
  BY <1>2, <1>3 DEF RefundProgress

\* A settlement hands over the NFT, mints and sends.
LEMMA SaleTypes ==
  ASSUME WiringInv, tx.open, NEW item, NEW paid, \A j \in 1 .. 4 : paid[j] \in Nat,
         NEW balance \in Nat, NEW balances, NEW owners,
         SaleProgress(item, paid, balance, balances, owners), tx.msgs # << >>
  PROVE  Message.type \in {"transfer_nft", "mint", "send"}
<1> DEFINE to == NewOwner(item)
           reward == FullReward(item)
           last == << MintMessage(to, reward) >> \o SharesFrom(paid, 1)
           sale == << MintMessage(item.creator, reward), MintMessage(to, reward) >>
                   \o SharesFrom(paid, 1)
           left == IF IsSale(item) THEN sale ELSE << >>
<1>1. /\ Quiet(SharesFrom(paid, 1)) /\ Quiet(last)
      /\ sale = << MintMessage(item.creator, reward) >> \o last
  BY SaleMessages, ListsQuiet
<1>2. Quiet(left)
  BY <1>1, ListsQuiet
<1>3. \A m, q : Quiet(q) /\ tx.msgs = << m >> \o q => Message = m
  BY Executing
<1>4. tx.msgs = << TransferNft(item.nft, to) >> \o left => Message.type = "transfer_nft"
  <2> HIDE DEF left
  <2>1. tx.msgs = << TransferNft(item.nft, to) >> \o left => Message = TransferNft(item.nft, to)
    BY <1>2, <1>3
  <2> QED
    BY <2>1, MessageTypes
<1>5. tx.msgs = sale \/ tx.msgs = last => Message.type = "mint"
  <2>1. \A v, q : Quiet(q) /\ tx.msgs = << MintMessage(v, reward) >> \o q =>
          Message.type = "mint"
    BY <1>3, MessageTypes
  <2> QED
    BY <1>1, <2>1
<1>6. (\E k \in 1 .. 5 : SharesSent(paid, k, balance)) => Message.type = "send"
  BY SharesAreSends
<1> QED
  BY <1>4, <1>5, <1>6 DEF SaleProgress

\* A cancellation sends.
LEMMA FeeTypes ==
  ASSUME NEW item, NEW fee, NEW balance, FeeProgress(item, fee, balance), tx.msgs # << >>
  PROVE  Message.type = "send"
<1>1. \A m : (tx.msgs = << m >> \/ tx.msgs = << m, m >>) => Message = m
  BY DEF Message
<1>2. \A gross : (tx.msgs = << BankSend(gross) >>
                  \/ tx.msgs = << BankSend(gross), BankSend(gross) >>) => Message.type = "send"
  BY <1>1, MessageTypes
<1> QED
  BY <1>2 DEF FeeProgress

\* The balance and the fees of what is under way are amounts.
LEMMA UnderWayTypes ==
  ASSUME TypeOK, NEW extra \in Extras
  PROVE  /\ bank + extra \in Nat
         /\ \A u, a : EarnsPartialReward(u, a) \in BOOLEAN
         /\ \A u \in Users, a \in Auctions :
              /\ bids[a][u] # None => bids[a][u].total_bid \in Nat
              /\ bids[a][u] # None => PartialReward(u, a) \in Nat
         /\ \A a \in Auctions :
              LET item == items[a]
                  fee == IF item.highest_bid = None THEN extra ELSE CancellationFee(item)
              IN  fee \in Nat /\ bank + fee \in Nat
<1>1. extra \in Nat /\ bank \in Nat
  BY InputAssumption, CommittedTypes
<1>2. \A u, a : EarnsPartialReward(u, a) \in BOOLEAN
  BY DEF EarnsPartialReward
<1>3. ASSUME NEW u \in Users, NEW a \in Auctions, bids[a][u] # None
      PROVE  bids[a][u].total_bid \in Nat /\ PartialReward(u, a) \in Nat
  <2>1. bids[a][u] \in BidInfo
    BY <1>3, CommittedTypes DEF Option
  <2>2. bids[a][u].total_bid \in Nat
    BY <2>1 DEF BidInfo
  <2>3. DecMul(bids[a][u].total_bid, Config.sity_partial_rewards) \in Nat
    BY <2>2, DecMulNat, ConfigAssumption DEF ConfigType
  <2> QED
    BY <2>2, <2>3, SameAmounts DEF PartialReward
<1>4. ASSUME NEW a \in Auctions, items[a].highest_bid # None
      PROVE  CancellationFee(items[a]) \in Nat
  <2>1. items[a].highest_bid \in Nat
    BY <1>4, CommittedTypes DEF ItemInfo, Option
  <2> QED
    BY <2>1, DecMulNat, ConfigAssumption DEF CancellationFee, ConfigType
<1> QED
  BY <1>1, <1>2, <1>3, <1>4

\* The type of the next message tells which transactions it can belong to.
LEMMA StagesOfMessages ==
  ASSUME WiringInv, StageInv, tx.open, tx.msgs # << >>
  PROVE  \/ SettingUp /\ Message.type \in {"instantiate_cw20", "reply"}
         \/ ListingUnderWay /\ Message.type = "receive_nft"
         \/ RegistrationUnderWay /\ Message.type \in {"receive", "burn"}
         \/ RetractionUnderWay /\ Message.type \in {"send", "mint"}
         \/ SettlementUnderWay /\ Message.type \in {"transfer_nft", "mint", "send"}
         \/ CancellationUnderWay /\ Message.type = "send"
<1>1. SettingUp => Message.type \in {"instantiate_cw20", "reply"}
  BY DEF SettingUp
<1>2. ListingUnderWay => Message.type = "receive_nft"
  BY DEF ListingUnderWay, NftArrived, Created, Message
<1>3. RegistrationUnderWay => Message.type \in {"receive", "burn"}
  BY DEF RegistrationUnderWay, TokensArrived, Registered, Message, BurnMessage
<1>4. ~BidUnderWay /\ ~RoyaltyUnderWay
  BY DEF BidUnderWay, RoyaltyUnderWay
<1>5. RetractionUnderWay => Message.type \in {"send", "mint"}
  <2> SUFFICES ASSUME RetractionUnderWay PROVE Message.type \in {"send", "mint"}
    OBVIOUS
  <2>1. PICK u \in Users, a \in Auctions, extra \in Extras :
          RefundProgress(u, bids[a][u].total_bid, EarnsPartialReward(u, a),
                         PartialReward(u, a), bank + extra, sity)
    BY Zenon DEF RetractionUnderWay
  <2>2. EarnsPartialReward(u, a) \in BOOLEAN
    BY UnderWayTypes DEF StageInv
  <2> QED
    BY <2>1, <2>2, RefundTypes, Zenon
<1>6. SettlementUnderWay => Message.type \in {"transfer_nft", "mint", "send"}
  <2> SUFFICES ASSUME SettlementUnderWay PROVE Message.type \in {"transfer_nft", "mint", "send"}
    OBVIOUS
  <2>1. PICK a \in Auctions, extra \in Extras :
          LET item == items[a]
          IN  /\ SettlementDecided(a, extra)
              /\ SaleProgress(item, Payouts(item, RoyaltyOf(item.nft)),
                              bank + extra, sity, nft_owner)
    BY Zenon DEF SettlementUnderWay
  <2> DEFINE item == items[a]
             paid == Payouts(item, RoyaltyOf(item.nft))
             balance == bank + extra
  <2>2. /\ \A j \in 1 .. 4 : paid[j] \in Nat
        /\ balance \in Nat
    BY <2>1, SharesAreAmounts, UnderWayTypes DEF StageInv
  <2>3. SaleProgress(item, paid, balance, sity, nft_owner)
    BY <2>1
  <2> HIDE DEF item, paid, balance
  <2> QED
    BY <2>2, <2>3, SaleTypes
<1>7. CancellationUnderWay => Message.type = "send"
  BY FeeTypes, Zenon DEF CancellationUnderWay
<1> QED
  BY <1>1, <1>2, <1>3, <1>4, <1>5, <1>6, <1>7 DEF StageInv

-----------------------------------------------------------------------------
(* The messages of a transaction are executed. *)

\* What is committed stays the same.
LEMMA CommittedStays ==
  ASSUME TypeOK, stray <= MaxStray, UNCHANGED vars
  PROVE  TypeOK' /\ stray' <= MaxStray
  BY DEF TypeOK, Auctions, vars

\* A refund goes on.
LEMMA RefundGoesOn ==
  ASSUME WiringInv, StageInv, tx.open, RetractionUnderWay,
         ExecuteSend \/ ExecuteMint
  PROVE  RetractionUnderWay'
<1>1. PICK u \in Users, a \in Auctions, extra \in Extras :
        /\ RetractionDecided(u, a, extra)
        /\ RefundProgress(u, bids[a][u].total_bid, EarnsPartialReward(u, a),
                          PartialReward(u, a), bank + extra, sity)
  BY Zenon DEF RetractionUnderWay
<1>2. PICK refund, rewarded, reward, balance, balances :
        /\ refund = bids[a][u].total_bid
        /\ rewarded = EarnsPartialReward(u, a)
        /\ reward = PartialReward(u, a)
        /\ balance = bank + extra
        /\ balances = sity
  BY Zenon
<1>3. /\ RefundProgress(u, refund, rewarded, reward, balance, balances)
      /\ rewarded \in BOOLEAN /\ refund \in Nat /\ reward \in Nat
  BY <1>1, <1>2, UnderWayTypes DEF StageInv, RetractionDecided
<1>4. RefundProgress(u, refund, rewarded, reward, balance, balances)'
  <2>1. CASE ExecuteSend
    <3>1. ~ExecuteMint
      BY <2>1 DEF ExecuteSend, ExecuteMint, Executes
    <3> QED
      BY <1>3, <2>1, <3>1, RefundIsSent
  <2>2. CASE ExecuteMint
    BY <1>3, <2>2, RewardIsMinted
  <2> QED
    BY <2>1, <2>2
<1>5. UNCHANGED << vars, storage, draft_stray, draft_nft_owner >>
  BY DEF ExecuteSend, ExecuteMint
<1>6. /\ RetractionDecided(u, a, extra)'
      /\ Auctions' = Auctions
      /\ EarnsPartialReward(u, a)' = EarnsPartialReward(u, a)
      /\ PartialReward(u, a)' = PartialReward(u, a)
  BY <1>1, <1>5, DecisionsStand
<1>7. /\ refund = bids'[a][u].total_bid
      /\ rewarded = EarnsPartialReward(u, a)' /\ reward = PartialReward(u, a)'
      /\ balance = bank' + extra /\ balances = sity'
  BY <1>2, <1>5, <1>6 DEF vars
<1> QED
  BY <1>4, <1>6, <1>7 DEF RetractionUnderWay

\* A settlement goes on.
LEMMA SaleGoesOn ==
  ASSUME WiringInv, StageInv, tx.open, SettlementUnderWay,
         ExecuteSend \/ ExecuteMint \/ ExecuteTransferNft
  PROVE  SettlementUnderWay'
<1>1. PICK a \in Auctions, extra \in Extras :
        LET item == items[a]
        IN  /\ SettlementDecided(a, extra)
            /\ SaleProgress(item, Payouts(item, RoyaltyOf(item.nft)), bank + extra, sity,
                            nft_owner)
  BY Zenon DEF SettlementUnderWay
<1>2. PICK item, paid, balance, balances, owners :
        /\ item = items[a]
        /\ paid = Payouts(item, RoyaltyOf(item.nft))
        /\ balance = bank + extra
        /\ balances = sity
        /\ owners = nft_owner
  BY Zenon
<1>3. /\ SaleProgress(item, paid, balance, balances, owners)
      /\ \A j \in 1 .. 4 : paid[j] \in Nat
      /\ balance \in Nat
  BY <1>1, <1>2, UnderWayTypes, SharesAreAmounts DEF StageInv
<1>4. SaleProgress(item, paid, balance, balances, owners)'
  <2>1. CASE ExecuteSend
    BY <1>3, <2>1, SaleShareIsSent
  <2>2. CASE ExecuteMint
    BY <1>3, <2>2, SaleRewardIsMinted
  <2>3. CASE ExecuteTransferNft
    BY <1>3, <2>3, NftIsHandedOver
  <2> QED
    BY <2>1, <2>2, <2>3
<1>5. UNCHANGED << vars, storage, draft_stray >>
  BY DEF ExecuteSend, ExecuteMint, ExecuteTransferNft
<1>6. /\ SettlementDecided(a, extra)'
      /\ Auctions' = Auctions
      /\ RoyaltyOf(item.nft)' = RoyaltyOf(item.nft)
  BY <1>1, <1>5, DecisionsStand
<1>7. /\ item = items'[a] /\ owners = nft_owner'
      /\ paid = Payouts(item, RoyaltyOf(item.nft)')
      /\ balance = bank' + extra /\ balances = sity'
  BY <1>2, <1>5, <1>6 DEF vars
<1> QED
  BY <1>4, <1>6, <1>7 DEF SettlementUnderWay

\* A cancellation goes on.
LEMMA FeeGoesOn ==
  ASSUME WiringInv, StageInv, tx.open, CancellationUnderWay, ExecuteSend
  PROVE  CancellationUnderWay'
<1>1. PICK u \in Users, a \in Auctions, extra \in Extras :
        LET item == items[a]
            fee == IF item.highest_bid = None THEN extra ELSE CancellationFee(item)
        IN  /\ CancellationDecided(u, a, extra)
            /\ FeeProgress(item, fee, bank + fee)
  BY Zenon DEF CancellationUnderWay
<1>2. PICK item, fee, balance :
        /\ item = items[a]
        /\ fee = IF item.highest_bid = None THEN extra ELSE CancellationFee(item)
        /\ balance = bank + fee
  BY Zenon
<1>3. FeeProgress(item, fee, balance) /\ fee \in Nat /\ balance \in Nat
  BY <1>1, <1>2, UnderWayTypes DEF StageInv
<1>4. FeeProgress(item, fee, balance)'
  BY <1>3, FeeIsSent
<1>5. UNCHANGED << vars, storage, draft_stray, draft_sity, draft_nft_owner >>
  BY DEF ExecuteSend
<1>6. CancellationDecided(u, a, extra)' /\ Auctions' = Auctions
  BY <1>1, <1>5, DecisionsStand
<1>7. /\ item = items'[a]
      /\ balance = bank' + fee
  BY <1>2, <1>5 DEF vars
<1> QED
  BY <1>2, <1>4, <1>6, <1>7 DEF CancellationUnderWay

\* Coins, SITY and NFTs that a handler of the marketplace sends.
LEMMA TransfersGoOn ==
  ASSUME WiringInv, StageInv, ExecuteSend \/ ExecuteMint \/ ExecuteTransferNft
  PROVE  StageInv'
<1>1. /\ tx.open /\ tx.msgs # << >> /\ Respond(<< >>)
      /\ Message.type \in {"send", "mint", "transfer_nft"}
      /\ UNCHANGED vars
  BY DEF ExecuteSend, ExecuteMint, ExecuteTransferNft, Executes
<1>2. tx'.open
  BY <1>1, GoesOn
<1>3. RetractionUnderWay' \/ SettlementUnderWay' \/ CancellationUnderWay'
  <2>1. CASE RetractionUnderWay /\ Message.type \in {"send", "mint"}
    <3>1. ~ExecuteTransferNft
      BY <2>1 DEF ExecuteTransferNft, Executes
    <3> QED
      BY <1>1, <2>1, <3>1, RefundGoesOn
  <2>2. CASE SettlementUnderWay /\ Message.type \in {"transfer_nft", "mint", "send"}
    BY <1>1, <2>2, SaleGoesOn
  <2>3. CASE CancellationUnderWay /\ Message.type = "send"
    <3>1. ~ExecuteMint /\ ~ExecuteTransferNft
      BY <2>3 DEF ExecuteMint, ExecuteTransferNft, Executes
    <3> QED
      BY <1>1, <2>3, <3>1, FeeGoesOn
  <2> QED
    BY <1>1, <2>1, <2>2, <2>3, StagesOfMessages
<1>4. TypeOK' /\ stray' <= MaxStray
  BY <1>1, CommittedStays DEF StageInv
<1> QED
  BY <1>2, <1>3, <1>4 DEF StageInv

\* The SITY contract comes into being, and the marketplace learns its address.
LEMMA SetUpGoesOn ==
  ASSUME WiringInv, StageInv, InstantiateCw20 \/ Reply
  PROVE  StageInv'
<1>1. /\ tx.open /\ tx.msgs # << >>
      /\ Message.type \in {"instantiate_cw20", "reply"}
      /\ UNCHANGED << vars, draft >>
  BY DEF InstantiateCw20, Reply, Executes
<1>2. SettingUp
  BY <1>1, StagesOfMessages
<1>3. tx.msgs = << Message >>
  BY <1>1, <1>2 DEF SettingUp
<1>4. /\ tx'.open
      /\ tx'.msgs = << >>
         \/ tx'.msgs = << [type |-> "reply", contract_address |-> Sity] >>
  <2>1. CASE InstantiateCw20
    BY <1>1, <1>3, <2>1, GoesOn, OnlyMessage DEF InstantiateCw20
  <2>2. CASE Reply
    BY <1>1, <1>3, <2>2, GoesOn, OnlyMessage DEF Reply
  <2> QED
    BY <1>1, <2>1, <2>2
<1>5. \/ tx'.msgs = << >>
      \/ tx'.msgs = << Message' >> /\ Message'.type \in {"instantiate_cw20", "reply"}
  BY <1>4 DEF Message
<1>6. OnlyTouched({})'
  BY <1>1, <1>2 DEF SettingUp, OnlyTouched, Parts, Drafted, Committed, vars, draft, storage
<1>7. TypeOK' /\ stray' <= MaxStray
  BY <1>1, CommittedStays DEF StageInv
<1> QED
  BY <1>4, <1>5, <1>6, <1>7 DEF StageInv, SettingUp

\* An NFT arrives, and execute_create_auction runs.
LEMMA ListingGoesOn ==
  ASSUME WiringInv, StageInv, ReceiveNft
  PROVE  StageInv'
<1>1. /\ tx.open /\ tx.msgs # << >> /\ Respond(<< >>)
      /\ Message.type = "receive_nft"
      /\ UNCHANGED << vars, draft_bank, draft_stray, draft_sity, draft_nft_owner, wiring >>
  BY DEF ReceiveNft, Executes
<1>2. tx'.open
  BY <1>1, GoesOn
<1>3. ListingUnderWay
  BY <1>1, StagesOfMessages
<1>4. PICK u \in Users, n \in Nfts, l \in Listings :
        /\ nft_owner[n] = u
        /\ draft_nft_owner = [nft_owner EXCEPT ![n] = Market]
        /\ NftArrived(u, n, l)
  <2>1. \A u, n, l : ~Created(u, n, l)
    BY <1>1 DEF Created
  <2> QED
    BY <1>3, <2>1, Zenon DEF ListingUnderWay
<1>5. Message.sender = u /\ Message.nft = n /\ Message.listing = l
  BY <1>4 DEF NftArrived, Message
<1>6. Draft!ExecuteCreateAuction(u, n, l)
  BY <1>5 DEF ReceiveNft
<1>7. tx'.msgs = << >>
  BY <1>1, <1>4, GoesOn, OnlyMessage DEF NftArrived
<1>8. /\ draft_counter_items = counter_items /\ draft_items = items
      /\ draft_bids = bids /\ draft_histories = histories
      /\ draft_histories_bidder = histories_bidder /\ draft_royalty = royalty
      /\ draft_bank = bank /\ draft_stray = stray /\ draft_sity = sity
      /\ draft_outcome = outcome
  BY <1>4, PartsAre DEF NftArrived, OnlyTouched, Parts
<1>9. OnlyTouched({"nft_owner", "counter_items", "items", "bids", "histories",
                   "histories_bidder", "outcome"})'
  BY <1>1, <1>6, <1>8
     DEF OnlyTouched, Parts, Draft!ExecuteCreateAuction, Drafted, Committed, vars
<1>10. /\ \A m, v : Draft!NewEntry(m, v) = NewEntry(m, v)
       /\ \A m, v : NewEntry(m, v)' = NewEntry(m, v)
  BY <1>1, <1>8 DEF NewEntry, Draft!NewEntry, vars
<1>11. /\ Draft!NewItem(u, n, l) = NewItem(u, n, l)
       /\ Draft!ValidTimes(l) = ValidTimes(l)
       /\ Draft!ValidPrices(l) = ValidPrices(l)
       /\ Draft!ValidCharity(l) = ValidCharity(l)
  BY DEF NewItem, Draft!NewItem, StartOf, Draft!StartOf, ValidTimes, Draft!ValidTimes,
         ValidPrices, Draft!ValidPrices, ValidCharity, Draft!ValidCharity
<1>12. /\ NewItem(u, n, l)' = NewItem(u, n, l)
       /\ ValidTimes(l)' = ValidTimes(l)
  BY <1>1 DEF NewItem, StartOf, ValidTimes, vars
<1>13. /\ counter_items < MaxAuctions
       /\ ValidTimes(l) /\ ValidPrices(l) /\ ValidCharity(l)
       /\ draft_items' = NewEntry(items, NewItem(u, n, l))
       /\ draft_bids' = NewEntry(bids, [v \in Users |-> None])
       /\ draft_histories' = NewEntry(histories, << >>)
       /\ draft_histories_bidder' = NewEntry(histories_bidder, [v \in Users |-> << >>])
       /\ draft_outcome' = NewEntry(outcome, None)
       /\ draft_counter_items' = counter_items + 1
  BY <1>6, <1>8, <1>10, <1>11, Zenon DEF Draft!ExecuteCreateAuction
<1>14. Created(u, n, l)'
  BY <1>1, <1>7, <1>9, <1>10, <1>12, <1>13 DEF Created, vars
<1>15. ListingUnderWay'
  BY <1>1, <1>4, <1>14 DEF ListingUnderWay, vars
<1>16. TypeOK' /\ stray' <= MaxStray
  BY <1>1, CommittedStays DEF StageInv
<1> QED
  BY <1>2, <1>15, <1>16 DEF StageInv

\* SITY arrives, and execute_register_private_sale runs.
LEMMA RegistrationGoesOn ==
  ASSUME WiringInv, StageInv, Receive
  PROVE  StageInv'
<1>1. /\ tx.open /\ tx.msgs # << >> /\ Executes("receive")
      /\ Message.type = "receive"
      /\ UNCHANGED << vars, draft_bank, draft_stray, draft_sity, draft_nft_owner, wiring >>
  BY DEF Receive, Executes
<1>2. RegistrationUnderWay
  BY <1>1, StagesOfMessages
<1>3. PICK token \in {Sity, ForeignCw20}, u \in Users, a \in Auctions,
           amount \in Cw20Amounts :
        /\ Cw20Accepts(amount)
        /\ IF token = Sity
           THEN /\ amount <= sity[u]
                /\ draft_sity = [sity EXCEPT ![u] = @ - amount]
           ELSE draft_sity = sity
        /\ TokensArrived(token, u, a, amount)
  <2>1. \A u, a, amount : ~Registered(u, a, amount)
    BY <1>1 DEF Registered, BurnMessage, Message
  <2> QED
    BY <1>2, <2>1, Zenon DEF RegistrationUnderWay
<1>4. /\ Message.token = token /\ Message.sender = u /\ Message.auction = a
      /\ Message.amount = amount
  BY <1>3 DEF TokensArrived, Message
<1>5. token = Sity
  BY <1>1, <1>4, StageOfMessage DEF Receive, Receiving
<1>6. Draft!ExecuteRegisterPrivateSale(u, a, amount) /\ Respond(<< BurnMessage(amount) >>)
  BY <1>4 DEF Receive, RegisterMessages
<1>7. tx'.open
  BY <1>1, <1>6, GoesOn
<1>8. tx'.msgs = << BurnMessage(amount)' >>
  <2>1. tx'.msgs = << BurnMessage(amount) >>
    BY <1>1, <1>3, <1>6, GoesOn, OnlyMessage DEF TokensArrived
  <2> QED
    BY <1>1, <2>1 DEF BurnMessage, wiring
<1>9. /\ draft_counter_items = counter_items /\ draft_items = items
      /\ draft_bids = bids /\ draft_histories = histories
      /\ draft_histories_bidder = histories_bidder /\ draft_royalty = royalty
      /\ draft_bank = bank /\ draft_stray = stray
      /\ draft_nft_owner = nft_owner /\ draft_outcome = outcome
  BY <1>3, PartsAre DEF TokensArrived, OnlyTouched, Parts
<1>10. OnlyTouched({"sity", "bids"})'
  BY <1>1, <1>6, <1>9
     DEF OnlyTouched, Parts, Draft!ExecuteRegisterPrivateSale, Drafted, Committed, vars
<1>11. /\ \A item : NotEnded(item)' = NotEnded(item) /\ Started(item)' = Started(item)
       /\ Auctions' = Auctions
  BY <1>1 DEF NotEnded, Started, Auctions, vars
<1>12. /\ NotEnded(items[a]) /\ Started(items[a])
       /\ items[a].creator # u
       /\ items[a].private_sale
       /\ amount = SityRequired(items[a])
       /\ bids[a][u] = None
       /\ draft_bids' = [bids EXCEPT ![a][u] =
            [bid_counter |-> 0, total_bid |-> 0, sity_used |-> amount, resolved |-> FALSE]]
  BY <1>6, <1>9, SameTimes, SamePrices DEF Draft!ExecuteRegisterPrivateSale
<1>13. Registered(u, a, amount)'
  BY <1>1, <1>8, <1>10, <1>11, <1>12 DEF Registered, vars
<1>14. RegistrationUnderWay'
  BY <1>1, <1>3, <1>5, <1>11, <1>13 DEF RegistrationUnderWay, vars
<1>15. TypeOK' /\ stray' <= MaxStray
  BY <1>1, CommittedStays DEF StageInv
<1> QED
  BY <1>7, <1>14, <1>15 DEF StageInv

\* The SITY of a registration is burnt.
LEMMA BurnGoesOn ==
  ASSUME WiringInv, StageInv, ExecuteBurn
  PROVE  StageInv'
<1>1. /\ tx.open /\ tx.msgs # << >> /\ Respond(<< >>)
      /\ Message.type = "burn"
      /\ UNCHANGED << vars, draft, cw20_address >>
  BY DEF ExecuteBurn, Executes
<1>2. RegistrationUnderWay
  BY <1>1, StagesOfMessages
<1>3. PICK u \in Users, a \in Auctions, amount \in Cw20Amounts :
        /\ Cw20Accepts(amount)
        /\ amount <= sity[u]
        /\ draft_sity = [sity EXCEPT ![u] = @ - amount]
        /\ Registered(u, a, amount)
  <2>1. \A token, u, a, amount : ~TokensArrived(token, u, a, amount)
    BY <1>1 DEF TokensArrived, Message
  <2> QED
    BY <1>2, <2>1, Zenon DEF RegistrationUnderWay
<1>4. tx.msgs = << BurnMessage(amount) >>
  BY <1>1, <1>3 DEF Registered
<1>5. tx'.open /\ tx'.msgs = << >>
  BY <1>1, <1>4, GoesOn, OnlyMessage
<1>6. OnlyTouched({"sity", "bids"})' /\ Auctions' = Auctions
  BY <1>1, <1>3
     DEF Registered, OnlyTouched, Parts, Drafted, Committed, vars, draft, storage, Auctions
<1>7. Registered(u, a, amount)'
  BY <1>1, <1>3, <1>5, <1>6 DEF Registered, vars, draft, storage, NotEnded, Started
<1>8. RegistrationUnderWay'
  BY <1>1, <1>3, <1>6, <1>7 DEF RegistrationUnderWay, vars, draft
<1>9. TypeOK' /\ stray' <= MaxStray
  BY <1>1, CommittedStays DEF StageInv
<1> QED
  BY <1>5, <1>8, <1>9 DEF StageInv

-----------------------------------------------------------------------------
(* The calls that begin a transaction. *)

\* A call commits nothing yet.
LEMMA CallBegins ==
  ASSUME StageInv, NEW msgs, Begin(msgs), UNCHANGED vars
  PROVE  /\ ~tx.open /\ tx'.open /\ tx'.msgs = msgs
         /\ Drafted = Committed
         /\ Auctions' = Auctions
         /\ TypeOK' /\ stray' <= MaxStray
<1>1. ~tx.open /\ tx'.open /\ tx'.msgs = msgs
  BY DEF Begin
<1>2. Auctions' = Auctions
  BY DEF Auctions, vars
<1> QED
  BY <1>1, <1>2, CommittedStays DEF StageInv

\* A part of a copy that the call leaves alone is still one.
LEMMA CopyTouched ==
  ASSUME Drafted = Committed, UNCHANGED vars, NEW parts,
         \A p \in Parts \ parts : Drafted'[p] = Drafted[p]
  PROVE  OnlyTouched(parts)'
<1>1. Committed' = Committed
  BY DEF Committed, vars
<1> QED
  BY <1>1 DEF OnlyTouched, Parts

\* instantiate.
LEMMA InstantiateBegins ==
  ASSUME StageInv, Instantiate
  PROVE  StageInv'
<1> DEFINE msg == [type |-> "instantiate_cw20", minter |-> Market]
<1>1. Begin(<< msg >>) /\ UNCHANGED << vars, draft >>
  BY DEF Instantiate
<1>2. /\ tx'.open /\ tx'.msgs = << msg >>
      /\ Drafted = Committed
      /\ TypeOK' /\ stray' <= MaxStray
  BY <1>1, CallBegins
<1>3. Message' = msg
  BY <1>2 DEF Message
<1>4. OnlyTouched({})'
  BY <1>1, <1>2, CopyTouched DEF Parts, Drafted, draft, storage
<1> QED
  BY <1>2, <1>3, <1>4 DEF StageInv, SettingUp

\* SendNft of a cw721 contract.
LEMMA SendNftBegins ==
  ASSUME StageInv, NEW u \in Users, NEW n \in Nfts, NEW l \in Listings,
         SendNft(u, n, l)
  PROVE  StageInv'
<1> DEFINE msg == [type |-> "receive_nft", sender |-> u, nft |-> n, listing |-> l]
<1>1. /\ Begin(<< msg >>) /\ UNCHANGED << vars, storage, draft_bank, draft_stray, draft_sity >>
      /\ draft_nft_owner[n] = u
      /\ draft_nft_owner' = [draft_nft_owner EXCEPT ![n] = Market]
  BY DEF SendNft, Call
<1>2. /\ tx'.open /\ tx'.msgs = << msg >>
      /\ Drafted = Committed
      /\ TypeOK' /\ stray' <= MaxStray
  BY <1>1, CallBegins
<1>3. OnlyTouched({"nft_owner"})'
  BY <1>1, <1>2, CopyTouched DEF Parts, Drafted, storage
<1>4. NftArrived(u, n, l)'
  BY <1>2, <1>3 DEF NftArrived
<1>5. nft_owner[n] = u /\ draft_nft_owner' = [nft_owner EXCEPT ![n] = Market]
  BY <1>1, <1>2, CopyIs
<1>6. ListingUnderWay'
  BY <1>1, <1>4, <1>5 DEF ListingUnderWay, vars
<1> QED
  BY <1>2, <1>6 DEF StageInv

\* Send of a cw20 contract.
LEMMA SendCw20Begins ==
  ASSUME StageInv, NEW token \in {Sity, ForeignCw20}, NEW u \in Users,
         NEW a \in Auctions, NEW amount \in Cw20Amounts, SendCw20(token, u, a, amount)
  PROVE  StageInv'
<1> DEFINE msg == [type |-> "receive", token |-> token, sender |-> u, auction |-> a,
                   amount |-> amount]
<1>1. /\ Begin(<< msg >>)
      /\ UNCHANGED << vars, storage, draft_bank, draft_stray, draft_nft_owner >>
      /\ Cw20Accepts(amount)
      /\ IF token = Sity
         THEN /\ amount <= draft_sity[u]
              /\ draft_sity' = [draft_sity EXCEPT ![u] = @ - amount]
         ELSE draft_sity' = draft_sity
  BY DEF SendCw20, Call
<1>2. /\ tx'.open /\ tx'.msgs = << msg >>
      /\ Drafted = Committed
      /\ Auctions' = Auctions
      /\ TypeOK' /\ stray' <= MaxStray
  BY <1>1, CallBegins
<1>3. OnlyTouched({"sity"})'
  BY <1>1, <1>2, CopyTouched DEF Parts, Drafted, storage
<1>4. TokensArrived(token, u, a, amount)'
  BY <1>2, <1>3 DEF TokensArrived
<1>5. draft_sity = sity /\ sity' = sity
  BY <1>1, <1>2, CopyIs DEF vars
<1>6. RegistrationUnderWay'
  BY <1>1, <1>2, <1>4, <1>5 DEF RegistrationUnderWay
<1> QED
  BY <1>2, <1>6 DEF StageInv

\* PlaceBid and InstantBuy.
LEMMA BidBegins ==
  ASSUME StageInv, NEW u \in Users, NEW a \in Auctions, NEW sent \in Amounts,
         CallBid(u, a, sent)
  PROVE  StageInv'
<1>1. /\ Begin(<< >>) /\ UNCHANGED vars
      /\ Draft!PlaceBid(u, a, sent) \/ Draft!InstantBuy(u, a, sent)
  BY DEF CallBid, Call
<1>2. /\ tx'.open /\ tx'.msgs = << >>
      /\ Drafted = Committed
      /\ Auctions' = Auctions
      /\ TypeOK' /\ stray' <= MaxStray
  BY <1>1, CallBegins
<1>3. /\ draft_items = items /\ draft_bids = bids
      /\ draft_histories = histories /\ draft_histories_bidder = histories_bidder
      /\ draft_bank = bank
  BY <1>2, CopyIs
<1>4. /\ Draft!BidTotal(u, a, sent) = BidTotal(u, a, sent)
      /\ Draft!MayBid(u, a) = MayBid(u, a)
      /\ \A bid : Draft!AddedBid(bid, sent) = AddedBid(bid, sent)
      /\ \A amount, instant :
           Draft!HistoryEntry(u, amount, instant) = HistoryEntry(u, amount, instant)
  BY <1>2, SameStorage DEF AddedBid, Draft!AddedBid, HistoryEntry, Draft!HistoryEntry
<1>5. OnlyTouched({"items", "bids", "histories", "histories_bidder", "bank"})'
  <2>1. UNCHANGED << draft_counter_items, draft_royalty, draft_stray, draft_sity,
                     draft_nft_owner, draft_outcome >>
    BY <1>1 DEF Draft!PlaceBid, Draft!InstantBuy
  <2> QED
    BY <1>1, <1>2, <2>1, CopyTouched DEF Parts, Drafted
<1>6. /\ BidTotal(u, a, sent)' = BidTotal(u, a, sent)
      /\ MayBid(u, a)' = MayBid(u, a)
      /\ \A item : /\ NotEnded(item)' = NotEnded(item) /\ Started(item)' = Started(item)
                   /\ ExtendedEnd(item)' = ExtendedEnd(item)
  BY <1>1 DEF BidTotal, MayBid, NotEnded, Started, ExtendedEnd, vars
<1>7. PICK item, total : item = items[a] /\ total = BidTotal(u, a, sent)
  BY Zenon
<1>8. CASE Draft!PlaceBid(u, a, sent)
  <2>1. /\ item.total_bids < MaxBids
        /\ NotEnded(item) /\ Started(item)
        /\ MayBid(u, a)
        /\ total >= MinBid(item)
        /\ item.instant_buy # None => total < item.instant_buy
        /\ draft_items' = [items EXCEPT ![a] = Led(item, u, total, ExtendedEnd(item))]
        /\ draft_bids' = [bids EXCEPT ![a][u] = AddedBid(bids[a][u], sent)]
        /\ draft_bank' = bank + sent
    BY <1>3, <1>4, <1>7, <1>8, SameTimes, SamePrices DEF Draft!PlaceBid, Draft!RecordBid
  <2>2. PICK entry : entry = HistoryEntry(u, total, FALSE)
    OBVIOUS
  <2>3. /\ draft_histories_bidder' = [histories_bidder EXCEPT ![a][u] = Append(@, entry)]
        /\ draft_histories' = [histories EXCEPT ![a] = Append(@, entry)]
    BY <1>3, <1>4, <1>7, <1>8, <2>2 DEF Draft!PlaceBid
  <2>4. BidPlaced(u, a, sent)'
    BY <1>1, <1>5, <1>6, <1>7, <2>1, <2>2, <2>3 DEF BidPlaced, BidRecorded, vars
  <2> QED
    BY <1>2, <2>4 DEF StageInv, BidUnderWay
<1>9. CASE Draft!InstantBuy(u, a, sent)
  <2>1. /\ item.total_bids < MaxBids
        /\ NotEnded(item)
        /\ MayBid(u, a)
        /\ item.instant_buy # None
        /\ item.instant_buy = total
        /\ draft_items' = [items EXCEPT ![a] = Led(item, u, total, now - MIN_TIME_AUCTION)]
        /\ draft_bids' = [bids EXCEPT ![a][u] = AddedBid(bids[a][u], sent)]
        /\ draft_bank' = bank + sent
    <3>1. /\ item.total_bids < MaxBids
          /\ NotEnded(item)
          /\ MayBid(u, a)
          /\ item.instant_buy # None
          /\ item.instant_buy = total
          /\ draft_bank' = bank + sent
      BY <1>3, <1>4, <1>7, <1>9, SameTimes DEF Draft!InstantBuy
    <3>2. draft_items' = [items EXCEPT ![a] = Led(item, u, total, now - MIN_TIME_AUCTION)]
      <4>1. draft_items' =
              [items EXCEPT ![a] = Draft!Led(item, u, total, now - MIN_TIME_AUCTION)]
        BY <1>3, <1>4, <1>7, <1>9, Zenon DEF Draft!InstantBuy
      <4> QED
        BY <4>1, SameTimes, Zenon
    <3>3. draft_bids' = [bids EXCEPT ![a][u] = AddedBid(bids[a][u], sent)]
      BY <1>3, <1>4, <1>9, Zenon DEF Draft!InstantBuy, Draft!RecordBid
    <3> QED
      BY <3>1, <3>2, <3>3
  <2>2. PICK mine, entry :
          /\ mine = HistoryEntry(u, total, TRUE)
          /\ entry = HistoryEntry(u, IF histories[a] = << >> THEN sent ELSE total, TRUE)
    OBVIOUS
  <2>3. /\ draft_histories_bidder' = [histories_bidder EXCEPT ![a][u] = Append(@, mine)]
        /\ draft_histories' = [histories EXCEPT ![a] = Append(@, entry)]
    BY <1>3, <1>4, <1>7, <1>9, <2>2 DEF Draft!InstantBuy
  <2>4. Bought(u, a, sent)'
    BY <1>1, <1>5, <1>6, <1>7, <2>1, <2>2, <2>3 DEF Bought, BidRecorded, vars
  <2> QED
    BY <1>2, <2>4 DEF StageInv, BidUnderWay
<1> QED
  BY <1>1, <1>8, <1>9

\* UpdateRoyalty.
LEMMA RoyaltyBegins ==
  ASSUME StageInv, NEW u \in Users, NEW fee \in RoyaltyFees,
         NEW recipient \in Option(Users), NEW extra \in Extras,
         CallUpdateRoyalty(u, fee, recipient, extra)
  PROVE  StageInv'
<1>1. Begin(<< >>) /\ UNCHANGED vars /\ Draft!UpdateRoyalty(u, fee, recipient, extra)
  BY DEF CallUpdateRoyalty, Call
<1>2. /\ tx'.open /\ tx'.msgs = << >>
      /\ Drafted = Committed
      /\ TypeOK' /\ stray' <= MaxStray
  BY <1>1, CallBegins
<1>3. draft_royalty = royalty /\ draft_bank = bank /\ draft_stray = stray
  BY <1>2, CopyIs
<1>4. OnlyTouched({"royalty", "bank", "stray"})'
  BY <1>1, <1>2, CopyTouched DEF Parts, Drafted, Draft!UpdateRoyalty
<1>5. RoyaltyUnderWay'
  BY <1>1, <1>2, <1>3, <1>4
     DEF RoyaltyUnderWay, Draft!UpdateRoyalty, Draft!Strays, StraysArrived, vars
<1> QED
  BY <1>2, <1>5 DEF StageInv

\* A handler that asks for a refund, a settlement or a cancellation has run.
LEMMA DirectCallBegins ==
  ASSUME StageInv, NEW msgs, Begin(msgs), UNCHANGED vars
  PROVE  /\ tx'.open /\ tx'.msgs = msgs
         /\ Drafted = Committed
         /\ draft_items = items /\ draft_bids = bids
         /\ draft_bank = bank /\ draft_stray = stray
         /\ draft_sity = sity /\ draft_nft_owner = nft_owner
         /\ draft_outcome = outcome
         /\ Auctions' = Auctions
         /\ TypeOK' /\ stray' <= MaxStray
         /\ \A n : /\ Draft!RoyaltyOf(n) = RoyaltyOf(n)
                   /\ RoyaltyOf(n)' = RoyaltyOf(n)
         /\ \A u, a : /\ Draft!EarnsPartialReward(u, a) = EarnsPartialReward(u, a)
                      /\ EarnsPartialReward(u, a)' = EarnsPartialReward(u, a)
                      /\ Draft!PartialReward(u, a) = PartialReward(u, a)
                      /\ PartialReward(u, a)' = PartialReward(u, a)
<1>1. /\ tx'.open /\ tx'.msgs = msgs
      /\ Drafted = Committed
      /\ Auctions' = Auctions
      /\ TypeOK' /\ stray' <= MaxStray
  BY CallBegins
<1>2. /\ \A n : RoyaltyOf(n)' = RoyaltyOf(n)
      /\ \A u, a : /\ EarnsPartialReward(u, a)' = EarnsPartialReward(u, a)
                   /\ PartialReward(u, a)' = PartialReward(u, a)
  BY DEF RoyaltyOf, EarnsPartialReward, PartialReward, vars
<1> QED
  BY <1>1, <1>2, CopyIs, SameStorage

\* RetractBids.
LEMMA RetractionBegins ==
  ASSUME StageInv, NEW u \in Users, NEW a \in Auctions, NEW extra \in Extras,
         CallRetractBids(u, a, extra)
  PROVE  StageInv'
<1>1. /\ Begin(RetractMessages(u, a)) /\ UNCHANGED << vars, wiring >>
      /\ Draft!ExecuteRetractBids(u, a)
      /\ draft_bank' = draft_bank + extra /\ Draft!Strays(extra)
      /\ UNCHANGED << draft_sity, draft_nft_owner >>
  BY DEF CallRetractBids, Call
<1>2. /\ tx'.open /\ tx'.msgs = RetractMessages(u, a)
      /\ Drafted = Committed
      /\ Auctions' = Auctions
      /\ TypeOK' /\ stray' <= MaxStray
      /\ draft_items = items /\ draft_bids = bids
      /\ draft_bank = bank /\ draft_stray = stray
      /\ draft_sity = sity
      /\ Draft!EarnsPartialReward(u, a) = EarnsPartialReward(u, a)
      /\ EarnsPartialReward(u, a)' = EarnsPartialReward(u, a)
      /\ Draft!PartialReward(u, a) = PartialReward(u, a)
      /\ PartialReward(u, a)' = PartialReward(u, a)
  BY <1>1, DirectCallBegins
<1>3. OnlyTouched({"bids", "bank", "stray", "sity"})'
  BY <1>1, <1>2, CopyTouched DEF Parts, Drafted, Draft!ExecuteRetractBids
<1>4. RetractionDecided(u, a, extra)'
  BY <1>1, <1>2, <1>3, SamePrices
     DEF RetractionDecided, Draft!ExecuteRetractBids, Draft!Strays, StraysArrived, vars,
         IsWinner, ReserveMet
<1>5. RefundProgress(u, bids[a][u].total_bid, EarnsPartialReward(u, a),
                     PartialReward(u, a), bank + extra, sity)'
  BY <1>1, <1>2 DEF RefundProgress, RetractMessages, MintMessage, wiring, vars
<1> QED
  BY <1>2, <1>4, <1>5 DEF StageInv, RetractionUnderWay

\* The messages of a sale that come after the transfer of the NFT.
LEMMA SaleInOneList ==
  ASSUME NEW m, NEW n, m.type \in QuietTypes, n.type \in QuietTypes, NEW paid
  PROVE  << m, n >> \o SendShare(paid[1]) \o SendShare(paid[2]) \o SendShare(paid[3])
           \o SendShare(paid[4]) = << m, n >> \o SharesFrom(paid, 1)
<1> DEFINE q == << m, n >>
           s == SendShare(paid[1])
           t == SendShare(paid[2])
           v == SendShare(paid[3])
           w == SendShare(paid[4])
           p == q \o s
           r == v \o w
           pt == p \o t
           tr == t \o r
<1>1. SharesFrom(paid, 1) = s \o tr
  BY Zenon DEF SharesFrom
<1>2. PICK T : q \in Seq(T) /\ s \in Seq(T) /\ t \in Seq(T) /\ v \in Seq(T) /\ w \in Seq(T)
  <2> DEFINE S == {m, n, BankSend(paid[1]), BankSend(paid[2]), BankSend(paid[3]),
                   BankSend(paid[4])}
  <2>1. q \in Seq(S)
    OBVIOUS
  <2>2. /\ BankSend(paid[1]) \in S /\ BankSend(paid[2]) \in S
        /\ BankSend(paid[3]) \in S /\ BankSend(paid[4]) \in S
    OBVIOUS
  <2> HIDE DEF S
  <2>3. ASSUME NEW share, BankSend(share) \in S PROVE SendShare(share) \in Seq(S)
    <3>1. << >> \in Seq(S) /\ << BankSend(share) >> \in Seq(S)
      BY <2>3
    <3> QED
      BY <3>1, Zenon DEF SendShare
  <2>4. s \in Seq(S) /\ t \in Seq(S) /\ v \in Seq(S) /\ w \in Seq(S)
    BY <2>2, <2>3
  <2> QED
    BY <2>1, <2>4
<1> HIDE DEF q, s, t, v, w
<1>3. p \in Seq(T) /\ r \in Seq(T)
  BY <1>2
<1> HIDE DEF p, r
<1>4. pt \in Seq(T) /\ tr \in Seq(T)
  BY <1>2, <1>3
<1> HIDE DEF pt, tr
<1>5. (p \o t) \o r = p \o (t \o r)
  BY <1>2, <1>3
<1>6. (pt \o v) \o w = pt \o (v \o w)
  BY <1>2, <1>4
<1>7. (q \o s) \o tr = q \o (s \o tr)
  <2>1. q \in Seq(T) /\ s \in Seq(T) /\ tr \in Seq(T)
    BY <1>2, <1>4
  <2> QED
    BY <2>1
<1> QED
  BY <1>1, <1>5, <1>6, <1>7 DEF q, s, t, v, w, p, r, pt, tr

\* WithdrawNft.
LEMMA SettlementBegins ==
  ASSUME StageInv, NEW a \in Auctions, NEW extra \in Extras,
         CallWithdrawNft(a, extra)
  PROVE  StageInv'
<1>1. /\ Begin(WithdrawMessages(a)) /\ UNCHANGED << vars, wiring >>
      /\ Draft!ExecuteWithdrawNft(a)
      /\ draft_bank' = draft_bank + extra /\ Draft!Strays(extra)
      /\ UNCHANGED << draft_sity, draft_nft_owner >>
  BY DEF CallWithdrawNft, Call
<1>2. /\ tx'.open /\ tx'.msgs = WithdrawMessages(a)
      /\ Drafted = Committed
      /\ Auctions' = Auctions
      /\ TypeOK' /\ stray' <= MaxStray
      /\ draft_items = items
      /\ draft_bank = bank /\ draft_stray = stray
      /\ draft_sity = sity /\ draft_nft_owner = nft_owner
      /\ draft_outcome = outcome
      /\ \A n : Draft!RoyaltyOf(n) = RoyaltyOf(n) /\ RoyaltyOf(n)' = RoyaltyOf(n)
  BY <1>1, DirectCallBegins
<1>3. OnlyTouched({"items", "outcome", "bank", "stray", "sity", "nft_owner"})'
  BY <1>1, <1>2, CopyTouched DEF Parts, Drafted, Draft!ExecuteWithdrawNft
<1>4. PICK item, paid, balance, balances, owners :
        /\ item = items[a]
        /\ paid = Payouts(item, RoyaltyOf(item.nft))
        /\ balance = bank + extra /\ balances = sity /\ owners = nft_owner
  BY Zenon
<1>5. /\ MaySettle(item) /\ FeesFit(item, RoyaltyOf(item.nft))
      /\ draft_items' = [items EXCEPT ![a] = [item EXCEPT !.resolved = TRUE]]
      /\ draft_outcome' = [outcome EXCEPT ![a] =
                      [bidder |-> item.highest_bidder, price |-> OrZero(item.highest_bid),
                       bids |-> item.total_bids, sold |-> IsSale(item)]]
  BY <1>1, <1>2, <1>4, SameTimes, SamePrices, SameAmounts DEF Draft!ExecuteWithdrawNft
<1>6. SettlementDecided(a, extra)'
  BY <1>1, <1>2, <1>3, <1>4, <1>5
     DEF SettlementDecided, Draft!Strays, StraysArrived, MaySettle, Ended, vars
<1>7. SaleProgress(item, paid, balance, balances, owners)'
  <2> DEFINE m == MintMessage(item.creator, FullReward(item))
             n == MintMessage(NewOwner(item), FullReward(item))
             flat == << m, n >> \o SendShare(paid[1]) \o SendShare(paid[2])
                     \o SendShare(paid[3]) \o SendShare(paid[4])
             sale == << m, n >> \o SharesFrom(paid, 1)
  <2>1. /\ m.type \in QuietTypes /\ n.type \in QuietTypes
    BY DEF MintMessage, QuietTypes
  <2>2. flat = sale
    <3> HIDE DEF m, n
    <3> QED
      BY <2>1, SaleInOneList
  <2>3. item = draft_items[a] /\ paid = Payouts(item, Draft!RoyaltyOf(item.nft))
    BY <1>2, <1>4
  <2>4. WithdrawMessages(a) =
          << TransferNft(item.nft, NewOwner(item)) >> \o IF IsSale(item) THEN flat ELSE << >>
    BY <2>3, Zenon DEF WithdrawMessages
  <2>5. m' = m /\ n' = n
    BY <1>1, SameMint
  <2> HIDE DEF flat
  <2>6. tx'.msgs = << TransferNft(item.nft, NewOwner(item)) >>
                   \o IF IsSale(item) THEN << m', n' >> \o SharesFrom(paid, 1) ELSE << >>
    BY <1>2, <2>2, <2>4, <2>5
  <2> QED
    BY <1>1, <1>2, <1>4, <2>6 DEF SaleProgress
<1>8. SettlementUnderWay'
  BY <1>1, <1>2, <1>4, <1>6, <1>7 DEF SettlementUnderWay, vars
<1> QED
  BY <1>2, <1>8 DEF StageInv

\* CancelAuction: the coins that come along are the fee, where there is one.
LEMMA CancellationBegins ==
  ASSUME StageInv, NEW u \in Users, NEW a \in Auctions, NEW sent \in CancelCoins(a),
         CallCancelAuction(u, a, sent)
  PROVE  StageInv'
<1> DEFINE charged == items[a].highest_bid # None
<1>1. /\ Begin(CancelMessages(a)) /\ UNCHANGED << vars, wiring >>
      /\ Draft!ExecuteCancelAuction(u, a, sent)
      /\ draft_bank' = draft_bank + sent
      /\ IF draft_items[a].highest_bid = None THEN Draft!Strays(sent) ELSE UNCHANGED draft_stray
      /\ UNCHANGED << draft_sity, draft_nft_owner >>
  BY DEF CallCancelAuction, Call
<1>2. /\ tx'.open /\ tx'.msgs = CancelMessages(a)
      /\ Drafted = Committed
      /\ Auctions' = Auctions
      /\ TypeOK' /\ stray' <= MaxStray
      /\ draft_items = items
      /\ draft_bank = bank /\ draft_stray = stray
  BY <1>1, DirectCallBegins
<1>3. OnlyTouched({"items", "bank", "stray"})'
  BY <1>1, <1>2, CopyTouched DEF Parts, Drafted, Draft!ExecuteCancelAuction
<1>4. stray \in Nat /\ stray <= MaxStray
  BY DEF StageInv, TypeOK
<1>5. /\ NotEnded(items[a]) /\ items[a].creator = u
      /\ charged => BankAccepts(sent) /\ sent = CancellationFee(items[a])
      /\ draft_items' = [items EXCEPT ![a] = Cancelled(items[a])]
  BY <1>1, <1>2, SameTimes, SamePrices, SameAmounts DEF Draft!ExecuteCancelAuction
<1>6. ~charged => sent \in Extras
  <2>1. DecMul(0, Config.cancellation_fee) = 0
    <3>1. Config.cancellation_fee \in Nat /\ 0 * Config.cancellation_fee = 0
      BY ConfigAssumption DEF ConfigType, Decimal
    <3>2. 0 \div SCALE = 0
      BY ScaleAssumption
    <3> QED
      BY <3>1, <3>2 DEF DecMul
  <2> QED
    BY <1>2, <2>1, InputAssumption DEF CancelCoins, OrZero
<1>7. PICK extra \in Extras :
        /\ extra = IF charged THEN 0 ELSE sent
        /\ StraysArrived(extra)'
        /\ sent = IF charged THEN CancellationFee(items[a]) ELSE extra
  <2>1. CASE charged
    <3>1. StraysArrived(0)'
      BY <1>1, <1>2, <1>4, <2>1 DEF StraysArrived, vars
    <3>2. 0 \in Extras
      BY InputAssumption
    <3> QED
      BY <1>5, <2>1, <3>1, <3>2
  <2>2. CASE ~charged
    <3>1. StraysArrived(sent)'
      BY <1>1, <1>2, <2>2 DEF Draft!Strays, StraysArrived, vars
    <3> QED
      BY <1>6, <2>2, <3>1
  <2> QED
    BY <2>1, <2>2
<1>8. CancellationDecided(u, a, extra)'
  BY <1>1, <1>3, <1>5, <1>7 DEF CancellationDecided, NotEnded, Cancelled, vars
<1>9. PICK item, balance : item = items[a] /\ balance = bank + sent
  BY Zenon
<1>10. FeeProgress(item, sent, balance)'
  BY <1>1, <1>2, <1>5, <1>7, <1>9, SamePrices DEF CancelMessages, FeeProgress, BankSend
<1>11. CancellationUnderWay'
  BY <1>1, <1>2, <1>7, <1>8, <1>9, <1>10 DEF CancellationUnderWay, vars
<1> QED
  BY <1>2, <1>11 DEF StageInv

-----------------------------------------------------------------------------
(* Once all messages of a transaction are executed, the atomic action has been
   carried out. *)

\* What is committed then.
LEMMA CommitIs ==
  ASSUME Commit
  PROVE  /\ tx.open /\ tx.msgs = << >> /\ ~tx'.open
         /\ Committed' = Drafted /\ Drafted' = Drafted /\ now' = now
         /\ counter_items' = draft_counter_items /\ items' = draft_items
         /\ bids' = draft_bids /\ histories' = draft_histories
         /\ histories_bidder' = draft_histories_bidder /\ royalty' = draft_royalty
         /\ bank' = draft_bank /\ stray' = draft_stray /\ sity' = draft_sity
         /\ nft_owner' = draft_nft_owner /\ outcome' = draft_outcome
<1>1. tx.open /\ tx.msgs = << >> /\ ~tx'.open
  BY DEF Commit, Idle
<1>2. Committed' = Drafted /\ Drafted' = Drafted /\ now' = now
  BY DEF Commit, Committed, Drafted, draft, storage
<1> QED
  BY <1>1, <1>2 DEF Commit

\* The marketplace was set up.
LEMMA SetUpCommits ==
  ASSUME Commit, SettingUp
  PROVE  UNCHANGED vars
<1>1. \A p \in Parts : Drafted[p] = Committed[p]
  BY DEF SettingUp, OnlyTouched
<1> QED
  BY <1>1, CommitIs, PartsAre DEF Parts, vars

\* An auction was listed.
LEMMA ListingCommits ==
  ASSUME Commit, ListingUnderWay
  PROVE  \E u \in Users, n \in Nfts, l \in Listings : CreateAuction(u, n, l)
<1>1. \A u, n, l : ~NftArrived(u, n, l)
  <2>1. tx.msgs = << >> /\ \A m : << m >> # << >>
    BY CommitIs
  <2> QED
    BY <2>1 DEF NftArrived
<1>2. PICK u \in Users, n \in Nfts, l \in Listings :
        /\ nft_owner[n] = u
        /\ draft_nft_owner = [nft_owner EXCEPT ![n] = Market]
        /\ Created(u, n, l)
  BY <1>1, Zenon DEF ListingUnderWay
<1>3. /\ draft_bank = bank /\ draft_stray = stray /\ draft_sity = sity
      /\ draft_royalty = royalty
  BY <1>2, PartsAre DEF Created, OnlyTouched, Parts
<1>4. ExecuteCreateAuction(u, n, l)
  BY <1>2, <1>3, CommitIs DEF Created, ExecuteCreateAuction
<1>5. CreateAuction(u, n, l)
  BY <1>2, <1>3, <1>4, CommitIs DEF CreateAuction
<1> QED
  BY <1>5

\* A bidder registered for a private sale.
LEMMA RegistrationCommits ==
  ASSUME Commit, RegistrationUnderWay
  PROVE  \E u \in Users, a \in Auctions : RegisterPrivateSale(u, a)
<1>1. \A token, u, a, amount : ~TokensArrived(token, u, a, amount)
  <2>1. tx.msgs = << >> /\ \A m : << m >> # << >>
    BY CommitIs
  <2> QED
    BY <2>1 DEF TokensArrived
<1>2. PICK u \in Users, a \in Auctions, amount \in Cw20Amounts :
        /\ Cw20Accepts(amount)
        /\ amount <= sity[u]
        /\ draft_sity = [sity EXCEPT ![u] = @ - amount]
        /\ Registered(u, a, amount)
  BY <1>1, Zenon DEF RegistrationUnderWay
<1>3. /\ draft_bank = bank /\ draft_stray = stray /\ draft_nft_owner = nft_owner
      /\ draft_counter_items = counter_items /\ draft_items = items
      /\ draft_histories = histories /\ draft_histories_bidder = histories_bidder
      /\ draft_royalty = royalty /\ draft_outcome = outcome
  BY <1>2, PartsAre DEF Registered, OnlyTouched, Parts
<1>4. amount = SityRequired(items[a])
  BY <1>2 DEF Registered
<1>5. ExecuteRegisterPrivateSale(u, a, amount)
  BY <1>2, <1>3, CommitIs DEF Registered, ExecuteRegisterPrivateSale
<1>6. RegisterPrivateSale(u, a)
  BY <1>2, <1>3, <1>4, <1>5, CommitIs DEF RegisterPrivateSale
<1> QED
  BY <1>6

\* A bid was placed, or the NFT was bought at once.
LEMMA BidCommits ==
  ASSUME Commit, BidUnderWay
  PROVE  \E u \in Users, a \in Auctions, sent \in Amounts :
           PlaceBid(u, a, sent) \/ InstantBuy(u, a, sent)
<1>1. PICK u \in Users, a \in Auctions, sent \in Amounts :
        BidPlaced(u, a, sent) \/ Bought(u, a, sent)
  BY DEF BidUnderWay
<1> DEFINE item == items[a]
<1>2. /\ draft_royalty = royalty /\ draft_stray = stray /\ draft_sity = sity
      /\ draft_nft_owner = nft_owner /\ draft_counter_items = counter_items
      /\ draft_outcome = outcome
  BY <1>1, PartsAre DEF BidPlaced, Bought, BidRecorded, OnlyTouched, Parts
<1>3. CASE BidPlaced(u, a, sent)
  <2>1. /\ RecordBid(u, a, sent)
        /\ item.total_bids < MaxBids
        /\ NotEnded(item)
        /\ MayBid(u, a)
        /\ bank' = bank + sent
    BY <1>3, CommitIs DEF BidPlaced, BidRecorded, RecordBid
  <2>2. items' = [items EXCEPT ![a] =
          Led(item, u, BidTotal(u, a, sent), ExtendedEnd(item))]
    BY <1>3, CommitIs DEF BidPlaced, BidRecorded
  <2>3. /\ histories' = [histories EXCEPT ![a] =
             Append(@, HistoryEntry(u, BidTotal(u, a, sent), FALSE))]
        /\ histories_bidder' = [histories_bidder EXCEPT ![a][u] =
             Append(@, HistoryEntry(u, BidTotal(u, a, sent), FALSE))]
    <3>1. PICK entry : entry = HistoryEntry(u, BidTotal(u, a, sent), FALSE)
      OBVIOUS
    <3>2. /\ draft_histories = [histories EXCEPT ![a] = Append(@, entry)]
          /\ draft_histories_bidder = [histories_bidder EXCEPT ![a][u] = Append(@, entry)]
      BY <1>3, <3>1, Zenon DEF BidPlaced, BidRecorded
    <3> QED
      BY <3>1, <3>2, CommitIs, Zenon
  <2>4. /\ Started(item)
        /\ BidTotal(u, a, sent) >= MinBid(item)
        /\ item.instant_buy # None => BidTotal(u, a, sent) < item.instant_buy
    BY <1>3 DEF BidPlaced
  <2>5. PlaceBid(u, a, sent)
    BY <1>2, <2>1, <2>2, <2>3, <2>4, CommitIs DEF PlaceBid
  <2> QED
    BY <2>5
<1>4. CASE Bought(u, a, sent)
  <2>1. /\ RecordBid(u, a, sent)
        /\ item.total_bids < MaxBids
        /\ NotEnded(item)
        /\ MayBid(u, a)
        /\ bank' = bank + sent
    BY <1>4, CommitIs DEF Bought, BidRecorded, RecordBid
  <2>2. items' = [items EXCEPT ![a] =
          Led(item, u, BidTotal(u, a, sent), now - MIN_TIME_AUCTION)]
    BY <1>4, CommitIs DEF Bought, BidRecorded
  <2>3. /\ histories_bidder' = [histories_bidder EXCEPT ![a][u] =
             Append(@, HistoryEntry(u, BidTotal(u, a, sent), TRUE))]
        /\ histories' = [histories EXCEPT ![a] =
             Append(@, HistoryEntry(u, IF histories[a] = << >> THEN sent
                                       ELSE BidTotal(u, a, sent), TRUE))]
    <3>1. PICK mine, entry :
            /\ mine = HistoryEntry(u, BidTotal(u, a, sent), TRUE)
            /\ entry = HistoryEntry(u, IF histories[a] = << >> THEN sent
                                       ELSE BidTotal(u, a, sent), TRUE)
      OBVIOUS
    <3>2. /\ draft_histories_bidder = [histories_bidder EXCEPT ![a][u] = Append(@, mine)]
          /\ draft_histories = [histories EXCEPT ![a] = Append(@, entry)]
      BY <1>4, <3>1, Zenon DEF Bought, BidRecorded
    <3> QED
      BY <3>1, <3>2, CommitIs, Zenon
  <2>4. item.instant_buy # None /\ item.instant_buy = BidTotal(u, a, sent)
    BY <1>4 DEF Bought
  <2>5. InstantBuy(u, a, sent)
    BY <1>2, <2>1, <2>2, <2>3, <2>4, CommitIs DEF InstantBuy
  <2> QED
    BY <2>5
<1> QED
  BY <1>1, <1>3, <1>4

\* A minter changed the royalty.
LEMMA RoyaltyCommits ==
  ASSUME Commit, RoyaltyUnderWay
  PROVE  \E u \in Users, fee \in RoyaltyFees, r \in Option(Users), extra \in Extras :
           UpdateRoyalty(u, fee, r, extra)
<1>1. PICK u \in Users, fee \in RoyaltyFees, recipient \in Option(Users), extra \in Extras :
        /\ OnlyTouched({"royalty", "bank", "stray"})
        /\ fee <= ROYALTY_MAX_FEE
        /\ draft_royalty = [royalty EXCEPT ![u] =
                        [fee |-> fee,
                         recipient |-> IF recipient # None THEN recipient
                                       ELSE IF @ = None THEN u ELSE @.recipient]]
        /\ draft_bank = bank + extra
        /\ StraysArrived(extra)
  BY Zenon DEF RoyaltyUnderWay
<1>2. /\ draft_counter_items = counter_items /\ draft_items = items
      /\ draft_bids = bids /\ draft_histories = histories
      /\ draft_histories_bidder = histories_bidder
      /\ draft_sity = sity /\ draft_nft_owner = nft_owner
      /\ draft_outcome = outcome
  BY <1>1, PartsAre DEF OnlyTouched, Parts
<1>3. UpdateRoyalty(u, fee, recipient, extra)
  BY <1>1, <1>2, CommitIs DEF UpdateRoyalty, Strays, StraysArrived
<1> QED
  BY <1>3

\* Nothing is left of a refund that was sent.
LEMMA RefundIsOver ==
  ASSUME NEW u, NEW refund, NEW rewarded \in BOOLEAN, NEW reward, NEW balance, NEW balances,
         RefundProgress(u, refund, rewarded, reward, balance, balances), tx.msgs = << >>
  PROVE  /\ Sendable(refund) /\ Outflow(refund) <= balance
         /\ draft_bank = balance - Outflow(refund)
         /\ rewarded => Cw20Accepts(reward)
         /\ draft_sity = IF rewarded THEN Minted(balances, u, reward) ELSE balances
<1> DEFINE mint == IF rewarded THEN << MintMessage(u, reward) >> ELSE << >>
<1>1. tx.msgs # << BankSend(refund) >> \o mint
  <2>1. Quiet(mint)
    BY ListsQuiet, Zenon
  <2> HIDE DEF mint
  <2> QED
    BY <2>1, FirstMessage
<1>2. rewarded => tx.msgs # mint
  <2>1. \A m : << m >> # << >>
    OBVIOUS
  <2> QED
    BY <2>1, Zenon
<1> QED
  BY <1>1, <1>2 DEF RefundProgress

\* A bidder took a bid back.
LEMMA RetractionCommits ==
  ASSUME StageInv, Commit, RetractionUnderWay
  PROVE  \E u \in Users, a \in Auctions, extra \in Extras :
           RetractBids(u, a, extra)
<1>1. PICK u \in Users, a \in Auctions, extra \in Extras :
        /\ RetractionDecided(u, a, extra)
        /\ RefundProgress(u, bids[a][u].total_bid, EarnsPartialReward(u, a),
                          PartialReward(u, a), bank + extra, sity)
  BY Zenon DEF RetractionUnderWay
<1>0. PICK refund, rewarded, reward, balance, balances :
        /\ refund = bids[a][u].total_bid
        /\ rewarded = EarnsPartialReward(u, a)
        /\ reward = PartialReward(u, a)
        /\ balance = bank + extra
        /\ balances = sity
  BY Zenon
<1>2. /\ Sendable(refund) /\ Outflow(refund) <= balance
      /\ draft_bank = balance - Outflow(refund)
      /\ rewarded => Cw20Accepts(reward)
      /\ draft_sity = IF rewarded THEN Minted(balances, u, reward) ELSE balances
  <2>1. rewarded \in BOOLEAN /\ tx.msgs = << >>
    BY <1>0, UnderWayTypes, CommitIs DEF StageInv
  <2>2. RefundProgress(u, refund, rewarded, reward, balance, balances)
    BY <1>0, <1>1
  <2> QED
    BY <2>1, <2>2, RefundIsOver
<1>3. /\ draft_counter_items = counter_items /\ draft_items = items
      /\ draft_histories = histories /\ draft_histories_bidder = histories_bidder
      /\ draft_royalty = royalty /\ draft_nft_owner = nft_owner
      /\ draft_outcome = outcome
  BY <1>1, PartsAre DEF RetractionDecided, OnlyTouched, Parts
<1>4. ExecuteRetractBids(u, a) /\ Strays(extra)
  BY <1>1, <1>3, CommitIs DEF RetractionDecided, ExecuteRetractBids, Strays, StraysArrived
<1>5. /\ Sendable(refund) /\ Outflow(refund) <= bank + extra
      /\ rewarded => Cw20Accepts(reward)
  BY <1>0, <1>2
<1>6. bank' = bank + extra - Outflow(refund)
  <2>1. bank' = balance - Outflow(refund) /\ balance = bank + extra
    BY <1>0, <1>2, CommitIs
  <2>2. bank \in Nat /\ extra \in Nat
    BY CommittedTypes, InputAssumption DEF StageInv
  <2>3. Outflow(refund) \in Nat
    <3>1. refund \in Nat
      BY <1>0, <1>1, UnderWayTypes DEF StageInv, RetractionDecided
    <3> QED
      BY <3>1, OutflowCovered
  <2> QED
    BY <2>1, <2>2, <2>3
<1>7. sity' = IF rewarded THEN Minted(sity, u, reward) ELSE sity
  BY <1>0, <1>2, CommitIs, Zenon
<1>8. nft_owner' = nft_owner /\ now' = now
  BY <1>3, CommitIs
<1>9. RetractBids(u, a, extra)
  BY <1>0, <1>4, <1>5, <1>6, <1>7, <1>8, Zenon DEF RetractBids
<1> QED
  BY <1>9

\* Nothing is left of a settlement that was carried out.
LEMMA SaleIsOver ==
  ASSUME NEW item, NEW paid, \A j \in 1 .. 4 : paid[j] \in Nat,
         NEW balance \in Nat, NEW balances, NEW owners,
         SaleProgress(item, paid, balance, balances, owners), tx.msgs = << >>
  PROVE  LET to == NewOwner(item)
             reward == FullReward(item)
         IN  /\ owners[item.nft] = Market
             /\ draft_nft_owner = [owners EXCEPT ![item.nft] = to]
             /\ IsSale(item) => PayoutsGoThrough(paid, balance) /\ Cw20Accepts(reward)
             /\ draft_sity = IF IsSale(item)
                       THEN Minted(Minted(balances, item.creator, reward), to, reward)
                       ELSE balances
             /\ draft_bank = IF IsSale(item)
                       THEN balance - (Outflow(paid[1]) + Outflow(paid[2])
                                       + Outflow(paid[3]) + Outflow(paid[4]))
                       ELSE balance
<1> DEFINE to == NewOwner(item)
           reward == FullReward(item)
           last == << MintMessage(to, reward) >> \o SharesFrom(paid, 1)
           sale == << MintMessage(item.creator, reward), MintMessage(to, reward) >>
                   \o SharesFrom(paid, 1)
           left == IF IsSale(item) THEN sale ELSE << >>
<1>1. /\ Quiet(SharesFrom(paid, 1)) /\ Quiet(last)
      /\ sale = << MintMessage(item.creator, reward) >> \o last
  BY SaleMessages, ListsQuiet
<1>2. Quiet(left)
  BY <1>1, ListsQuiet
<1>3. tx.msgs # << TransferNft(item.nft, to) >> \o left
  <2> HIDE DEF left
  <2> QED
    BY <1>2, FirstMessage
<1>4. tx.msgs # sale /\ tx.msgs # last
  <2>1. tx.msgs # sale
    <3> HIDE DEF last
    <3> QED
      BY <1>1, FirstMessage
  <2>2. tx.msgs # last
    BY <1>1, FirstMessage
  <2> QED
    BY <2>1, <2>2
<1>5. ASSUME \E k \in 1 .. 5 : SharesSent(paid, k, balance)
      PROVE  /\ PayoutsGoThrough(paid, balance)
             /\ draft_bank = balance - (Outflow(paid[1]) + Outflow(paid[2])
                                  + Outflow(paid[3]) + Outflow(paid[4]))
  <2>1. ~\E k \in 1 .. 4 : SharesSent(paid, k, balance) /\ paid[k] # 0
    <3> SUFFICES ASSUME NEW k \in 1 .. 4, SharesSent(paid, k, balance), paid[k] # 0
                 PROVE  FALSE
      OBVIOUS
    <3>1. tx.msgs = << BankSend(paid[k]) >> \o SharesFrom(paid, k + 1)
      BY SharesUnfold DEF SharesSent, SendShare
    <3>2. Quiet(SharesFrom(paid, k + 1))
      BY SharesUnfold
    <3> QED
      BY <3>1, <3>2, FirstMessage
  <2>2. SharesSent(paid, 5, balance)
    BY <1>5, <2>1, NextShare
  <2>3. SpentBefore(paid, 5) = Outflow(paid[1]) + Outflow(paid[2])
                               + Outflow(paid[3]) + Outflow(paid[4])
    BY Zenon DEF SpentBefore
  <2>4. \A j \in 1 .. 4 : paid[j] # 0 => Sendable(paid[j])
    BY <2>2 DEF SharesSent
  <2> QED
    BY <2>2, <2>3, <2>4 DEF SharesSent, PayoutsGoThrough
<1> QED
  BY <1>3, <1>4, <1>5 DEF SaleProgress

\* An auction was settled.
LEMMA SettlementCommits ==
  ASSUME StageInv, Commit, SettlementUnderWay
  PROVE  \E a \in Auctions, extra \in Extras : WithdrawNft(a, extra)
<1>1. PICK a \in Auctions, extra \in Extras :
        LET item == items[a]
        IN  /\ SettlementDecided(a, extra)
            /\ SaleProgress(item, Payouts(item, RoyaltyOf(item.nft)),
                            bank + extra, sity, nft_owner)
  BY Zenon DEF SettlementUnderWay
<1>2. PICK item, paid, balance, balances, owners :
        /\ item = items[a]
        /\ paid = Payouts(item, RoyaltyOf(item.nft))
        /\ balance = bank + extra
        /\ balances = sity
        /\ owners = nft_owner
  BY Zenon
<1>3. /\ SaleProgress(item, paid, balance, balances, owners)
      /\ \A j \in 1 .. 4 : paid[j] \in Nat
      /\ balance \in Nat /\ tx.msgs = << >>
  BY <1>1, <1>2, UnderWayTypes, SharesAreAmounts, CommitIs DEF StageInv
<1> DEFINE to == NewOwner(item)
           reward == FullReward(item)
<1>4. /\ owners[item.nft] = Market
      /\ draft_nft_owner = [owners EXCEPT ![item.nft] = to]
      /\ IsSale(item) => PayoutsGoThrough(paid, balance) /\ Cw20Accepts(reward)
      /\ draft_sity = IF IsSale(item)
                THEN Minted(Minted(balances, item.creator, reward), to, reward)
                ELSE balances
      /\ draft_bank = IF IsSale(item)
                THEN balance - (Outflow(paid[1]) + Outflow(paid[2])
                                + Outflow(paid[3]) + Outflow(paid[4]))
                ELSE balance
  BY <1>3, SaleIsOver
<1>5. /\ draft_counter_items = counter_items /\ draft_bids = bids
      /\ draft_histories = histories /\ draft_histories_bidder = histories_bidder
      /\ draft_royalty = royalty
  BY <1>1, PartsAre DEF SettlementDecided, OnlyTouched, Parts
<1>6. ExecuteWithdrawNft(a) /\ Strays(extra)
  BY <1>1, <1>2, <1>5, CommitIs DEF SettlementDecided, ExecuteWithdrawNft, StraysArrived, Strays
<1>7. /\ nft_owner[item.nft] = Market
      /\ IsSale(item) =>
           /\ PayoutsGoThrough(paid, bank + extra)
           /\ Cw20Accepts(reward)
      /\ nft_owner' = [nft_owner EXCEPT ![item.nft] = to]
      /\ now' = now
  BY <1>2, <1>4, CommitIs
<1>8. sity' = IF IsSale(item)
              THEN Minted(Minted(sity, item.creator, reward), to, reward)
              ELSE sity
  BY <1>2, <1>4, CommitIs
<1>9. bank' = IF IsSale(item)
              THEN bank + extra - (Outflow(paid[1]) + Outflow(paid[2])
                                   + Outflow(paid[3]) + Outflow(paid[4]))
              ELSE bank + extra
  <2>1. bank' = IF IsSale(item)
                THEN balance - (Outflow(paid[1]) + Outflow(paid[2])
                                + Outflow(paid[3]) + Outflow(paid[4]))
                ELSE balance
    BY <1>4, CommitIs, Zenon
  <2>2. balance = bank + extra
    BY <1>2
  <2>3. bank \in Nat /\ extra \in Nat
    BY CommittedTypes, InputAssumption DEF StageInv
  <2>4. \A j \in 1 .. 4 : Outflow(paid[j]) \in Nat
    BY <1>3, OutflowCovered
  <2>5. \A b, e, o1, o2, o3, o4 \in Nat :
          (b + e) - (o1 + o2 + o3 + o4) = b + e - (o1 + o2 + o3 + o4)
    OBVIOUS
  <2>6. (bank + extra) - (Outflow(paid[1]) + Outflow(paid[2])
                          + Outflow(paid[3]) + Outflow(paid[4]))
        = bank + extra - (Outflow(paid[1]) + Outflow(paid[2])
                          + Outflow(paid[3]) + Outflow(paid[4]))
    BY <2>3, <2>4, <2>5
  <2> QED
    BY <2>1, <2>2, <2>6, Zenon
<1>10. WithdrawNft(a, extra)
  BY <1>2, <1>6, <1>7, <1>8, <1>9, Zenon DEF WithdrawNft
<1> QED
  BY <1>10

\* An auction was cancelled.
LEMMA CancellationCommits ==
  ASSUME StageInv, Commit, CancellationUnderWay
  PROVE  \E u \in Users, a \in Auctions, extra \in Extras :
           CancelAuction(u, a, extra)
<1>1. PICK u \in Users, a \in Auctions, extra \in Extras :
        LET item == items[a]
            fee == IF item.highest_bid = None THEN extra ELSE CancellationFee(item)
        IN  /\ CancellationDecided(u, a, extra)
            /\ FeeProgress(item, fee, bank + fee)
  BY Zenon DEF CancellationUnderWay
<1>2. PICK item, fee :
        /\ item = items[a]
        /\ fee = IF item.highest_bid = None THEN extra ELSE CancellationFee(item)
  BY Zenon
<1> DEFINE balance == bank + fee
<1>0. /\ bank \in Nat /\ fee \in Nat
      /\ Outflow(fee) \in Nat /\ Outflow(Half(fee)) \in Nat
  <2>1. bank \in Nat /\ fee \in Nat
    BY <1>2, CommittedTypes, UnderWayTypes DEF StageInv
  <2>2. Half(fee) \in Nat
    BY <2>1 DEF Half
  <2> QED
    BY <2>1, <2>2, OutflowCovered
<1>3. /\ item.highest_bid = None => draft_bank = balance
      /\ item.highest_bid # None /\ item.highest_bidder = None =>
           Sendable(fee) /\ Outflow(fee) <= balance /\ draft_bank = balance - Outflow(fee)
      /\ item.highest_bid # None /\ item.highest_bidder # None =>
           /\ Sendable(Half(fee)) /\ Outflow(Half(fee)) + Outflow(Half(fee)) <= balance
           /\ draft_bank = balance - (Outflow(Half(fee)) + Outflow(Half(fee)))
  <2>1. FeeProgress(item, fee, balance)
    BY <1>1, <1>2
  <2>2. tx.msgs = << >> /\ \A m : << m >> # << >> /\ << m, m >> # << >>
    BY CommitIs
  <2> HIDE DEF balance
  <2> QED
    BY <2>1, <2>2, Zenon DEF FeeProgress
<1>4. /\ draft_counter_items = counter_items /\ draft_bids = bids
      /\ draft_histories = histories /\ draft_histories_bidder = histories_bidder
      /\ draft_royalty = royalty /\ draft_outcome = outcome
      /\ draft_sity = sity /\ draft_nft_owner = nft_owner
  BY <1>1, PartsAre DEF CancellationDecided, OnlyTouched, Parts
<1>5. ExecuteCancelAuction(u, a, fee) /\ Strays(extra)
  BY <1>1, <1>2, <1>4, CommitIs
     DEF CancellationDecided, ExecuteCancelAuction, Strays, StraysArrived
<1>6. item.highest_bid # None =>
        /\ CancelFeeGoesThrough(item, fee) /\ extra = 0
        /\ draft_bank = AfterCancelFee(item, fee)
  <2>1. item.highest_bid # None => extra = 0
    BY <1>1, <1>2 DEF CancellationDecided
  <2>2. item.highest_bid # None => CancelFeeGoesThrough(item, fee)
    BY <1>3, Zenon DEF CancelFeeGoesThrough
  <2>3. item.highest_bid # None => draft_bank = AfterCancelFee(item, fee)
    <3>1. CASE item.highest_bidder = None
      <4>1. AfterCancelFee(item, fee) = balance - Outflow(fee)
        BY <1>0, <3>1 DEF AfterCancelFee
      <4> QED
        BY <1>3, <3>1, <4>1
    <3>2. CASE item.highest_bidder # None
      <4>1. AfterCancelFee(item, fee) = balance - (Outflow(Half(fee)) + Outflow(Half(fee)))
        BY <1>0, <3>2 DEF AfterCancelFee
      <4> QED
        BY <1>3, <3>2, <4>1
    <3> QED
      BY <3>1, <3>2
  <2> QED
    BY <2>1, <2>2, <2>3
<1>7. CancelAuction(u, a, extra)
  BY <1>2, <1>3, <1>4, <1>5, <1>6, CommitIs DEF CancelAuction
<1> QED
  BY <1>7

\* Nothing changes when nothing happens.
LEMMA StageInvStutters ==
  ASSUME StageInv, UNCHANGED allVars
  PROVE  StageInv'
<1>0. UNCHANGED << vars, storage, draft_bank, draft_stray, draft_sity, draft_nft_owner,
                   wiring, tx >>
  BY DEF allVars, draft
<1>1. /\ tx' = tx /\ now' = now /\ cw20_address' = cw20_address
      /\ counter_items' = counter_items /\ draft_counter_items' = draft_counter_items
      /\ items' = items /\ draft_items' = draft_items
      /\ bids' = bids /\ draft_bids' = draft_bids
      /\ histories' = histories /\ draft_histories' = draft_histories
      /\ histories_bidder' = histories_bidder
      /\ draft_histories_bidder' = draft_histories_bidder
      /\ royalty' = royalty /\ draft_royalty' = draft_royalty
      /\ bank' = bank /\ draft_bank' = draft_bank
      /\ stray' = stray /\ draft_stray' = draft_stray
      /\ sity' = sity /\ draft_sity' = draft_sity
      /\ nft_owner' = nft_owner /\ draft_nft_owner' = draft_nft_owner
      /\ outcome' = outcome /\ draft_outcome' = draft_outcome
  BY <1>0 DEF vars, storage, wiring
<1>2. \A parts : OnlyTouched(parts)' = OnlyTouched(parts)
  BY <1>1 DEF OnlyTouched, Drafted, Committed
<1>3. TypeOK' /\ stray' <= MaxStray /\ (~tx'.open => Drafted' = Committed')
  <2>1. Drafted' = Drafted /\ Committed' = Committed
    BY <1>1 DEF Drafted, Committed
  <2> QED
    BY <1>0, <1>1, <2>1, CommittedStays DEF StageInv
<1>4. Auctions' = Auctions
  BY <1>1 DEF Auctions
<1>5. CASE SettingUp
  <2>1. Message' = Message
    BY <1>1 DEF Message
  <2>2. SettingUp'
    BY <1>1, <1>2, <1>5, <2>1 DEF SettingUp
  <2> QED
    BY <1>3, <2>2 DEF StageInv
<1>6. CASE ListingUnderWay
  <2>1. ASSUME NEW u, NEW n, NEW l, NftArrived(u, n, l) \/ Created(u, n, l)
        PROVE  NftArrived(u, n, l)' \/ Created(u, n, l)'
    <3>1. CASE NftArrived(u, n, l)
      BY <1>1, <1>2, <3>1 DEF NftArrived
    <3>2. CASE Created(u, n, l)
      <4>1. \A m, v : NewEntry(m, v)' = NewEntry(m, v)
        BY <1>1 DEF NewEntry
      <4>2. NewItem(u, n, l)' = NewItem(u, n, l)
        BY <1>1 DEF NewItem, StartOf
      <4>3. ValidTimes(l)'
        BY <1>1, <3>2 DEF Created, ValidTimes, StartOf
      <4> QED
        BY <1>1, <1>2, <3>2, <4>1, <4>2, <4>3
           DEF Created
    <3> QED
      BY <2>1, <3>1, <3>2
  <2>2. ListingUnderWay'
    BY <1>1, <1>6, <2>1 DEF ListingUnderWay
  <2> QED
    BY <1>3, <2>2 DEF StageInv
<1>7. CASE RegistrationUnderWay
  <2>1. ASSUME NEW token, NEW u, NEW a, NEW amount
        PROVE  /\ TokensArrived(token, u, a, amount) => TokensArrived(token, u, a, amount)'
               /\ Registered(u, a, amount) => Registered(u, a, amount)'
    BY <1>1, <1>2 DEF TokensArrived, Registered, BurnMessage, NotEnded, Started
  <2>2. RegistrationUnderWay'
    BY <1>1, <1>4, <1>7, <2>1 DEF RegistrationUnderWay
  <2> QED
    BY <1>3, <2>2 DEF StageInv
<1>8. CASE BidUnderWay
  <2>1. ASSUME NEW u, NEW a, NEW sent, BidPlaced(u, a, sent) \/ Bought(u, a, sent)
        PROVE  BidPlaced(u, a, sent)' \/ Bought(u, a, sent)'
    <3>1. /\ BidTotal(u, a, sent)' = BidTotal(u, a, sent)
          /\ MayBid(u, a)' = MayBid(u, a)
      BY <1>1 DEF BidTotal, MayBid
    <3>2. ASSUME NEW end, NEW mine, NEW entry, BidRecorded(u, a, sent, end, mine, entry)
          PROVE  BidRecorded(u, a, sent, end, mine, entry)'
      BY <1>1, <1>2, <3>1, <3>2 DEF BidRecorded, NotEnded
    <3>3. CASE BidPlaced(u, a, sent)
      BY <1>1, <3>1, <3>2, <3>3 DEF BidPlaced, Started, ExtendedEnd
    <3>4. CASE Bought(u, a, sent)
      BY <1>1, <3>1, <3>2, <3>4 DEF Bought
    <3> QED
      BY <2>1, <3>3, <3>4
  <2>2. BidUnderWay'
    BY <1>1, <1>4, <1>8, <2>1 DEF BidUnderWay
  <2> QED
    BY <1>3, <2>2 DEF StageInv
<1>9. CASE RoyaltyUnderWay
  <2>1. PICK u \in Users, fee \in RoyaltyFees, recipient \in Option(Users), extra \in Extras :
          /\ OnlyTouched({"royalty", "bank", "stray"})
          /\ fee <= ROYALTY_MAX_FEE
          /\ draft_royalty = [royalty EXCEPT ![u] =
                          [fee |-> fee,
                           recipient |-> IF recipient # None THEN recipient
                                         ELSE IF @ = None THEN u ELSE @.recipient]]
          /\ draft_bank = bank + extra
          /\ StraysArrived(extra)
    BY <1>9, Zenon DEF RoyaltyUnderWay
  <2>2. OnlyTouched({"royalty", "bank", "stray"})'
    BY <1>2, <2>1
  <2>3. tx'.msgs = << >> /\ draft_bank' = bank' + extra /\ StraysArrived(extra)'
    BY <1>1, <1>9, <2>1 DEF RoyaltyUnderWay, StraysArrived
  <2>4. RoyaltyUnderWay'
    BY <1>1, <2>1, <2>2, <2>3 DEF RoyaltyUnderWay
  <2> QED
    BY <1>3, <2>4 DEF StageInv
<1>10. CASE RetractionUnderWay
  <2>1. PICK u \in Users, a \in Auctions, extra \in Extras :
          /\ RetractionDecided(u, a, extra)
          /\ RefundProgress(u, bids[a][u].total_bid, EarnsPartialReward(u, a),
                            PartialReward(u, a), bank + extra, sity)
    BY <1>10, Zenon DEF RetractionUnderWay
  <2>2. RetractionDecided(u, a, extra)'
    BY <1>0, <1>1, <2>1, DecisionsStand
  <2>3. RefundProgress(u, bids[a][u].total_bid, EarnsPartialReward(u, a),
                       PartialReward(u, a), bank + extra, sity)'
    BY <1>0, <1>1, <2>1, DecisionsStand DEF RefundProgress, MintMessage
  <2>4. RetractionUnderWay'
    BY <1>4, <2>2, <2>3 DEF RetractionUnderWay
  <2> QED
    BY <1>3, <2>4 DEF StageInv
<1>11. CASE SettlementUnderWay
  <2>1. ASSUME NEW item, NEW paid, NEW balance, NEW balances, NEW owners,
               SaleProgress(item, paid, balance, balances, owners)
        PROVE  SaleProgress(item, paid, balance, balances, owners)'
    BY <1>1, <2>1 DEF SaleProgress, MintMessage, SharesSent
  <2>2. ASSUME NEW a, NEW extra, SettlementDecided(a, extra)
        PROVE  /\ SettlementDecided(a, extra)'
               /\ \A n : RoyaltyOf(n)' = RoyaltyOf(n)
    BY <1>0, <2>2, DecisionsStand
  <2>3. SettlementUnderWay'
    BY <1>1, <1>4, <1>11, <2>1, <2>2 DEF SettlementUnderWay
  <2> QED
    BY <1>3, <2>3 DEF StageInv
<1>12. CASE CancellationUnderWay
  <2>1. ASSUME NEW item, NEW fee, NEW balance, FeeProgress(item, fee, balance)
        PROVE  FeeProgress(item, fee, balance)'
    BY <1>1, <2>1 DEF FeeProgress
  <2>2. ASSUME NEW u, NEW a, NEW extra, CancellationDecided(u, a, extra)
        PROVE  CancellationDecided(u, a, extra)'
    BY <1>0, <2>2, DecisionsStand
  <2>3. CancellationUnderWay'
    BY <1>1, <1>4, <1>12, <2>1, <2>2 DEF CancellationUnderWay
  <2> QED
    BY <1>3, <2>3 DEF StageInv
<1>13. CASE ~tx.open
  BY <1>1, <1>3, <1>13 DEF StageInv
<1> QED
  BY <1>5, <1>6, <1>7, <1>8, <1>9, <1>10, <1>11, <1>12, <1>13 DEF StageInv

\* No more coins came along than may have.
LEMMA StrayBounded ==
  ASSUME StageInv, tx.open
  PROVE  draft_stray <= MaxStray
<1>1. \A parts : OnlyTouched(parts) /\ "stray" \notin parts => draft_stray = stray
  BY PartsAre DEF OnlyTouched, Parts
<1>2. stray <= MaxStray
  BY DEF StageInv
<1>3. CASE SettingUp
  BY <1>1, <1>2, <1>3 DEF SettingUp
<1>4. CASE ListingUnderWay
  <2>1. draft_stray = stray
    BY <1>1, <1>4 DEF ListingUnderWay, NftArrived, Created
  <2> QED
    BY <1>2, <2>1
<1>5. CASE RegistrationUnderWay
  <2>1. draft_stray = stray
    BY <1>1, <1>5 DEF RegistrationUnderWay, TokensArrived, Registered
  <2> QED
    BY <1>2, <2>1
<1>6. CASE BidUnderWay
  <2>1. draft_stray = stray
    <3>1. \A u, a, sent, end, mine, entry :
            BidRecorded(u, a, sent, end, mine, entry) => draft_stray = stray
      BY <1>1 DEF BidRecorded
    <3>2. \A u, a, sent : BidPlaced(u, a, sent) \/ Bought(u, a, sent) =>
            draft_stray = stray
      BY <3>1 DEF BidPlaced, Bought
    <3> QED
      BY <1>6, <3>2 DEF BidUnderWay
  <2> QED
    BY <1>2, <2>1
<1>7. CASE \E extra : StraysArrived(extra)
  BY <1>7 DEF StraysArrived
<1>8. RoyaltyUnderWay \/ RetractionUnderWay \/ SettlementUnderWay \/ CancellationUnderWay
      => \E extra : StraysArrived(extra)
  BY Zenon DEF RoyaltyUnderWay, RetractionUnderWay, RetractionDecided, SettlementUnderWay,
               SettlementDecided, CancellationUnderWay, CancellationDecided
<1> QED
  BY <1>3, <1>4, <1>5, <1>6, <1>7, <1>8 DEF StageInv

\* A transaction that is over has carried out one atomic action.
LEMMA CommitStep ==
  ASSUME StageInv, Commit
  PROVE  StageInv' /\ [Next]_vars
<1>1. [Next]_vars
  <2>1. CASE SettingUp
    BY <2>1, SetUpCommits
  <2>2. CASE ListingUnderWay
    BY <2>2, ListingCommits, Zenon DEF Next
  <2>3. CASE RegistrationUnderWay
    BY <2>3, RegistrationCommits, Zenon DEF Next
  <2>4. CASE BidUnderWay
    BY <2>4, BidCommits, Zenon DEF Next
  <2>5. CASE RoyaltyUnderWay
    BY <2>5, RoyaltyCommits, Zenon DEF Next
  <2>6. CASE RetractionUnderWay
    BY <2>6, RetractionCommits, Zenon DEF Next
  <2>7. CASE SettlementUnderWay
    BY <2>7, SettlementCommits, Zenon DEF Next
  <2>8. CASE CancellationUnderWay
    BY <2>8, CancellationCommits, Zenon DEF Next
  <2> QED
    BY <2>1, <2>2, <2>3, <2>4, <2>5, <2>6, <2>7, <2>8, CommitIs DEF StageInv
<1>2. TypeOK'
  BY <1>1, NextTypeOK DEF StageInv
<1>3. stray' <= MaxStray
  BY CommitIs, StrayBounded
<1> QED
  BY <1>1, <1>2, <1>3, CommitIs DEF StageInv

\* One that fails has left no trace.
LEMMA AbortStep ==
  ASSUME StageInv, Abort
  PROVE  StageInv' /\ UNCHANGED vars
<1>1. ~tx'.open /\ UNCHANGED vars
  BY DEF Abort, Idle
<1>2. Drafted' = Committed'
  BY <1>1 DEF Abort, Drafted, Committed, vars
<1>3. TypeOK' /\ stray' <= MaxStray
  BY <1>1, CommittedStays DEF StageInv
<1> QED
  BY <1>1, <1>2, <1>3 DEF StageInv

\* Blocks come between transactions.
LEMMA TickStep ==
  ASSUME StageInv, ~tx.open, Tick, UNCHANGED << draft, wiring, tx >>
  PROVE  StageInv'
<1>1. Drafted' = Drafted /\ Committed' = Committed /\ ~tx'.open /\ stray' = stray
  BY DEF Tick, Drafted, Committed, draft, storage
<1>2. TypeOK'
  BY NextTypeOK, Zenon DEF StageInv, Next
<1> QED
  BY <1>1, <1>2 DEF StageInv

\* The invariant is inductive, and each step is one of the atomic marketplace.
LEMMA StepIsAtomic ==
  ASSUME WiringInv, StageInv, [NextTx]_allVars
  PROVE  StageInv' /\ [Next]_vars
<1>1. CASE UNCHANGED allVars
  BY <1>1, StageInvStutters DEF allVars
<1>2. CASE ~tx.open /\ Tick /\ UNCHANGED << draft, wiring, tx >>
  BY <1>2, TickStep DEF Next
<1>3. CASE Instantiate
  BY <1>3, InstantiateBegins DEF Instantiate
<1>4. CASE InstantiateCw20 \/ Reply
  BY <1>4, SetUpGoesOn DEF InstantiateCw20, Reply
<1>5. ASSUME NEW u \in Users, NEW n \in Nfts, NEW l \in Listings, SendNft(u, n, l)
      PROVE  StageInv' /\ [Next]_vars
  BY <1>5, SendNftBegins DEF SendNft
<1>6. CASE ReceiveNft
  BY <1>6, ListingGoesOn DEF ReceiveNft
<1>7. ASSUME NEW token \in {Sity, ForeignCw20}, NEW u \in Users, NEW a \in Auctions,
             NEW amount \in Cw20Amounts, SendCw20(token, u, a, amount)
      PROVE  StageInv' /\ [Next]_vars
  BY <1>7, SendCw20Begins DEF SendCw20
<1>8. CASE Receive
  BY <1>8, RegistrationGoesOn DEF Receive
<1>9. ASSUME NEW u \in Users, NEW a \in Auctions, NEW sent \in Amounts, CallBid(u, a, sent)
      PROVE  StageInv' /\ [Next]_vars
  BY <1>9, BidBegins DEF CallBid
<1>10. ASSUME NEW u \in Users, NEW fee \in RoyaltyFees, NEW r \in Option(Users),
              NEW extra \in Extras, CallUpdateRoyalty(u, fee, r, extra)
       PROVE  StageInv' /\ [Next]_vars
  BY <1>10, RoyaltyBegins DEF CallUpdateRoyalty
<1>11. ASSUME NEW u \in Users, NEW a \in Auctions, NEW extra \in Extras,
              CallRetractBids(u, a, extra)
       PROVE  StageInv' /\ [Next]_vars
  BY <1>11, RetractionBegins DEF CallRetractBids
<1>12. ASSUME NEW a \in Auctions, NEW extra \in Extras, CallWithdrawNft(a, extra)
       PROVE  StageInv' /\ [Next]_vars
  BY <1>12, SettlementBegins DEF CallWithdrawNft
<1>13. ASSUME NEW u \in Users, NEW a \in Auctions, NEW sent \in CancelCoins(a),
              CallCancelAuction(u, a, sent)
       PROVE  StageInv' /\ [Next]_vars
  BY <1>13, CancellationBegins DEF CallCancelAuction
<1>14. CASE ExecuteSend \/ ExecuteMint \/ ExecuteTransferNft
  BY <1>14, TransfersGoOn DEF ExecuteSend, ExecuteMint, ExecuteTransferNft
<1>15. CASE ExecuteBurn
  BY <1>15, BurnGoesOn DEF ExecuteBurn
<1>16. CASE Commit
  BY <1>16, CommitStep
<1>17. CASE Abort
  BY <1>17, AbortStep
<1> QED
  BY <1>1, <1>2, <1>3, <1>4, <1>5, <1>6, <1>7, <1>8, <1>9, <1>10, <1>11, <1>12, <1>13, <1>14,
     <1>15, <1>16, <1>17, Zenon DEF NextTx

\* The first block.
LEMMA FirstState ==
  ASSUME InitTx
  PROVE  StageInv /\ Init
<1>1. Init /\ ~tx.open
  BY DEF InitTx, Idle
<1>2. Drafted = Committed
  BY DEF InitTx, Init, Draft!Init, Drafted, Committed
<1>3. TypeOK
  BY <1>1, InitTypeOK
<1>4. stray <= MaxStray
  BY <1>1, BoundAssumption DEF Init
<1> QED
  BY <1>1, <1>2, <1>3, <1>4 DEF StageInv

\* The invariant holds from the first block on.
LEMMA StageInvAlways == SpecTx => []StageInv
<1>1. InitTx => StageInv
  BY FirstState
<1>2. WiringInv /\ StageInv /\ [NextTx]_allVars => StageInv'
  BY StepIsAtomic
<1> QED
  BY <1>1, <1>2, WiringInvAlways, PTL DEF SpecTx

\* Whatever messages a handler of contract.rs returns and in whichever order
\* the chain executes them, a transaction takes the marketplace through one of
\* the atomic actions, with exactly their guards, or leaves no trace.
THEOREM TransactionsAreAtomic == SpecTx => AtomicMarketplace
<1>1. InitTx => Init
  BY FirstState
<1>2. WiringInv /\ StageInv /\ [NextTx]_allVars => [Next]_vars
  BY StepIsAtomic
<1> QED
  BY <1>1, <1>2, WiringInvAlways, StageInvAlways, PTL DEF SpecTx, AtomicMarketplace, Spec

-----------------------------------------------------------------------------
(* What a handler accepted is carried out. *)

\* What the next message needs is there, but for amounts that round to zero.
NothingMissing ==
  /\ Message.type = "send" => Outflow(Message.amount) <= draft_bank
  /\ Message.type = "transfer_nft" => draft_nft_owner[Message.nft] = Market
  /\ Message.type = "mint" => Message.token = Sity /\ sity_minter = Market
  /\ Message.type = "burn" => Message.token = Sity /\ Message.amount <= held

\* The next message of each kind, where it is the first of a list.
LEMMA NextMessage ==
  ASSUME WiringInv, tx.open, NEW q, Quiet(q)
  PROVE  /\ \A gross : tx.msgs = << BankSend(gross) >> \o q =>
              Message.type = "send" /\ Message.amount = gross
         /\ \A v, amount : tx.msgs = << MintMessage(v, amount) >> \o q =>
              Message.type = "mint" /\ Message.token = cw20_address
         /\ \A n, v : tx.msgs = << TransferNft(n, v) >> \o q =>
              Message.type = "transfer_nft" /\ Message.nft = n
<1>1. \A m : tx.msgs = << m >> \o q => Message = m
  BY Executing
<1>2. \A v, amount : MintMessage(v, amount).token = cw20_address
  BY DEF MintMessage
<1> QED
  BY <1>1, <1>2, MessageTypes

\* A mint finds SITY at the address it was told, with the marketplace as minter.
LEMMA MintMissesNothing ==
  ASSUME WiringInv, tx.open, tx.msgs # << >>, Message.type = "mint",
         Message.token = cw20_address
  PROVE  NothingMissing
<1>1. Executes("mint") /\ "mint" \in QuietTypes
  BY DEF Executes, QuietTypes
<1>2. Trading
  BY <1>1, StageOfMessage
<1> QED
  BY <1>2 DEF Trading, NothingMissing

\* A refund that the balance covers.
LEMMA RefundMissesNothing ==
  ASSUME WiringInv, tx.open, tx.msgs # << >>,
         NEW u, NEW refund \in Nat, NEW rewarded \in BOOLEAN, NEW reward,
         NEW balance \in Nat, NEW balances, refund <= balance,
         RefundProgress(u, refund, rewarded, reward, balance, balances)
  PROVE  NothingMissing
<1> DEFINE mint == IF rewarded THEN << MintMessage(u, reward) >> ELSE << >>
<1>1. Quiet(mint)
  BY ListsQuiet, Zenon
<1>2. CASE tx.msgs = mint
  <2>1. tx.msgs = << MintMessage(u, reward) >> \o << >>
    BY <1>2
  <2>2. Message.type = "mint" /\ Message.token = cw20_address
    BY <2>1, NoneQuiet, NextMessage
  <2> QED
    BY <2>2, MintMissesNothing
<1>3. CASE tx.msgs = << BankSend(refund) >> \o mint /\ draft_bank = balance
  <2> HIDE DEF mint
  <2>1. Message.type = "send" /\ Message.amount = refund
    BY <1>1, <1>3, NextMessage
  <2>2. Outflow(refund) \in Nat /\ Outflow(refund) <= refund
    BY PayingOut
  <2>3. Outflow(refund) <= draft_bank
    BY <1>3, <2>2
  <2> QED
    BY <2>1, <2>3 DEF NothingMissing
<1> QED
  BY <1>2, <1>3 DEF RefundProgress

\* The shares before one are a part of all shares.
LEMMA SharesAddUp ==
  ASSUME NEW paid, \A j \in 1 .. 4 : paid[j] \in Nat, NEW k \in 1 .. 4
  PROVE  SpentBefore(paid, k) + Outflow(paid[k]) <= SpentBefore(paid, 5)
<1>1. \A j \in 1 .. 4 : Outflow(paid[j]) \in Nat
  BY OutflowCovered
<1>2. k = 1 \/ k = 2 \/ k = 3 \/ k = 4
  OBVIOUS
<1> QED
  BY <1>1, <1>2 DEF SpentBefore

\* A settlement whose shares the balance covers and whose NFT is there.
LEMMA SaleMissesNothing ==
  ASSUME WiringInv, tx.open, tx.msgs # << >>,
         NEW item, NEW paid, \A j \in 1 .. 4 : paid[j] \in Nat,
         NEW balance \in Nat, NEW balances, NEW owners, owners[item.nft] = Market,
         IsSale(item) => SpentBefore(paid, 5) <= balance,
         SaleProgress(item, paid, balance, balances, owners)
  PROVE  NothingMissing
<1> DEFINE to == NewOwner(item)
           reward == FullReward(item)
           last == << MintMessage(to, reward) >> \o SharesFrom(paid, 1)
           sale == << MintMessage(item.creator, reward), MintMessage(to, reward) >>
                   \o SharesFrom(paid, 1)
           left == IF IsSale(item) THEN sale ELSE << >>
<1>1. /\ Quiet(SharesFrom(paid, 1)) /\ Quiet(last)
      /\ sale = << MintMessage(item.creator, reward) >> \o last
  BY SaleMessages, ListsQuiet
<1>2. Quiet(left)
  BY <1>1, ListsQuiet
<1>3. CASE tx.msgs = << TransferNft(item.nft, to) >> \o left /\ draft_nft_owner = owners
  <2> HIDE DEF left
  <2>1. Message.type = "transfer_nft" /\ Message.nft = item.nft
    BY <1>2, <1>3, NextMessage
  <2> QED
    BY <1>3, <2>1 DEF NothingMissing
<1>4. CASE tx.msgs = sale \/ tx.msgs = last
  <2>1. \A v, q : Quiet(q) /\ tx.msgs = << MintMessage(v, reward) >> \o q =>
          Message.type = "mint" /\ Message.token = cw20_address
    BY NextMessage
  <2>2. Message.type = "mint" /\ Message.token = cw20_address
    BY <1>1, <1>4, <2>1
  <2> QED
    BY <2>2, MintMissesNothing
<1>5. CASE IsSale(item) /\ \E k \in 1 .. 5 : SharesSent(paid, k, balance)
  <2>1. ~SharesSent(paid, 5, balance)
    BY Zenon DEF SharesSent, SharesFrom
  <2>2. PICK k \in 1 .. 4 : SharesSent(paid, k, balance) /\ paid[k] # 0
    BY <1>5, <2>1, NextShare
  <2>3. tx.msgs = << BankSend(paid[k]) >> \o SharesFrom(paid, k + 1)
        /\ Quiet(SharesFrom(paid, k + 1))
    BY <2>2, SharesUnfold DEF SharesSent, SendShare
  <2>4. Message.type = "send" /\ Message.amount = paid[k]
    BY <2>3, NextMessage
  <2>5. draft_bank = balance - SpentBefore(paid, k)
    BY <2>2 DEF SharesSent
  <2>6. SpentBefore(paid, k) \in Nat /\ Outflow(paid[k]) \in Nat
    BY SharesUnfold
  <2>7. SpentBefore(paid, k) + Outflow(paid[k]) <= SpentBefore(paid, 5)
        /\ SpentBefore(paid, 5) <= balance
    BY <1>5, SharesAddUp
  <2>8. SpentBefore(paid, 5) \in Nat
    <3>1. SpentBefore(paid, 4) \in Nat /\ Outflow(paid[4]) \in Nat
          /\ SpentBefore(paid, 4 + 1) = SpentBefore(paid, 4) + Outflow(paid[4])
      BY SharesUnfold
    <3> QED
      BY <3>1
  <2>9. Outflow(paid[k]) <= draft_bank
    BY <2>5, <2>6, <2>7, <2>8
  <2> QED
    BY <2>4, <2>9 DEF NothingMissing
<1> QED
  BY <1>3, <1>4, <1>5 DEF SaleProgress

\* A cancellation passes on the fee that came with it.
LEMMA FeeMissesNothing ==
  ASSUME WiringInv, tx.open, tx.msgs # << >>,
         NEW item, NEW fee \in Nat, NEW balance \in Nat, fee <= balance,
         FeeProgress(item, fee, balance)
  PROVE  NothingMissing
<1> DEFINE half == Half(fee)
<1>1. half \in Nat /\ half + half <= fee
  BY HalfTwice
<1>2. /\ Outflow(half) \in Nat /\ Outflow(half) <= half
      /\ Outflow(fee) \in Nat /\ Outflow(fee) <= fee
  BY <1>1, PayingOut
<1> HIDE DEF half
<1>3. \A gross, q : Quiet(q) /\ tx.msgs = << BankSend(gross) >> \o q =>
        Message.type = "send" /\ Message.amount = gross
  BY NextMessage
<1>4. \A gross : /\ << BankSend(gross) >> = << BankSend(gross) >> \o << >>
                 /\ << BankSend(gross), BankSend(gross) >>
                      = << BankSend(gross) >> \o << BankSend(gross) >>
  BY TwoMessages
<1>5. \A gross : tx.msgs = << BankSend(gross) >>
                 \/ tx.msgs = << BankSend(gross), BankSend(gross) >> =>
        Message.type = "send" /\ Message.amount = gross
  BY <1>3, <1>4, ListsQuiet
<1>6. CASE tx.msgs = << BankSend(fee) >> /\ draft_bank = balance
  <2>1. Outflow(fee) <= draft_bank
    BY <1>2, <1>6
  <2> QED
    BY <1>5, <1>6, <2>1 DEF NothingMissing
<1>7. CASE /\ tx.msgs = << BankSend(half), BankSend(half) >> \/ tx.msgs = << BankSend(half) >>
           /\ draft_bank = balance \/ draft_bank = balance - Outflow(half)
  <2>1. Outflow(half) <= draft_bank
    BY <1>1, <1>2, <1>7
  <2> QED
    BY <1>5, <1>7, <2>1 DEF NothingMissing
<1> QED
  BY <1>6, <1>7 DEF FeeProgress, half

\* The SITY of a registration is there to be burnt.
LEMMA BurnMissesNothing ==
  ASSUME WiringInv, tx.open, tx.msgs # << >>, Message.type = "burn"
  PROVE  NothingMissing
<1>1. Burning
  BY StageOfMessage DEF Executes
<1>2. PICK amount \in Nat :
        /\ tx.msgs = << [type |-> "burn", token |-> Sity, amount |-> amount] >>
        /\ held = amount
  BY <1>1 DEF Burning
<1>3. Message.token = Sity /\ Message.amount <= held
  BY <1>2 DEF Message
<1> QED
  BY <1>3 DEF NothingMissing

\* A retraction that was accepted.
LEMMA RetractionMissesNothing ==
  ASSUME WiringInv, StageInv, GoodBooks, tx.open, tx.msgs # << >>, RetractionUnderWay
  PROVE  NothingMissing
<1>1. PICK u \in Users, a \in Auctions, extra \in Extras :
        /\ RetractionDecided(u, a, extra)
        /\ RefundProgress(u, bids[a][u].total_bid, EarnsPartialReward(u, a),
                          PartialReward(u, a), bank + extra, sity)
  BY Zenon DEF RetractionUnderWay
<1> DEFINE refund == bids[a][u].total_bid
           balance == bank + extra
           reward == PartialReward(u, a)
           rewarded == EarnsPartialReward(u, a)
<1>2. bids[a][u] # None /\ ~IsWinner(u, items[a]) /\ Total(u, a) = refund
  BY <1>1 DEF RetractionDecided, Total
<1>3. refund \in Nat /\ refund <= bank
  BY <1>2, RefundCovered
<1>4. bank \in Nat /\ extra \in Nat /\ rewarded \in BOOLEAN
  BY CommittedTypes, InputAssumption, UnderWayTypes DEF StageInv
<1>5. RefundProgress(u, refund, rewarded, reward, balance, sity)
  BY <1>1
<1> HIDE DEF refund, rewarded, reward
<1>6. balance \in Nat /\ refund <= balance
  BY <1>3, <1>4
<1> HIDE DEF balance
<1> QED
  BY <1>3, <1>4, <1>5, <1>6, RefundMissesNothing

\* A settlement that was accepted.
LEMMA SettlementMissesNothing ==
  ASSUME WiringInv, StageInv, GoodBooks, tx.open, tx.msgs # << >>, SettlementUnderWay
  PROVE  NothingMissing
<1>1. PICK a \in Auctions, extra \in Extras :
        LET item == items[a]
        IN  /\ SettlementDecided(a, extra)
            /\ SaleProgress(item, Payouts(item, RoyaltyOf(item.nft)),
                            bank + extra, sity, nft_owner)
  BY Zenon DEF SettlementUnderWay
<1> DEFINE item == items[a]
           paid == Payouts(item, RoyaltyOf(item.nft))
           balance == bank + extra
<1>2. ~item.resolved /\ FeesFit(item, RoyaltyOf(item.nft))
  BY <1>1 DEF SettlementDecided, MaySettle
<1>3. \A j \in 1 .. 4 : paid[j] \in Nat
  BY <1>1, SharesAreAmounts DEF StageInv
<1>4. nft_owner[item.nft] = Market
  BY <1>2, NftIsThere DEF GoodBooks
<1>5. bank \in Nat /\ extra \in Nat /\ balance \in Nat
  BY CommittedTypes, InputAssumption DEF StageInv
<1>6. ASSUME IsSale(item) PROVE SpentBefore(paid, 5) <= balance
  <2>1. /\ Outflow(paid[1]) + Outflow(paid[2]) + Outflow(paid[3]) + Outflow(paid[4]) <= bank
        /\ \A k \in 1 .. 4 : Outflow(paid[k]) \in Nat
    BY <1>2, <1>6, SharesCovered
  <2> HIDE DEF paid
  <2>2. SpentBefore(paid, 5)
          = Outflow(paid[1]) + Outflow(paid[2]) + Outflow(paid[3]) + Outflow(paid[4])
    BY Zenon DEF SpentBefore
  <2>3. SpentBefore(paid, 5) \in Nat
    BY <2>1, <2>2
  <2> QED
    BY <1>5, <2>1, <2>2, <2>3
<1>7. SaleProgress(item, paid, balance, sity, nft_owner)
  BY <1>1
<1> HIDE DEF item, paid, balance
<1> QED
  BY <1>3, <1>4, <1>5, <1>6, <1>7, SaleMissesNothing

\* A cancellation that was accepted.
LEMMA CancellationMissesNothing ==
  ASSUME WiringInv, StageInv, tx.open, tx.msgs # << >>, CancellationUnderWay
  PROVE  NothingMissing
<1>1. PICK a \in Auctions, extra \in Extras :
        LET item == items[a]
            fee == IF item.highest_bid = None THEN extra ELSE CancellationFee(item)
        IN  FeeProgress(item, fee, bank + fee)
  BY Zenon DEF CancellationUnderWay
<1> DEFINE item == items[a]
           fee == IF item.highest_bid = None THEN extra ELSE CancellationFee(item)
           balance == bank + fee
<1>2. fee \in Nat /\ bank \in Nat
  BY CommittedTypes, UnderWayTypes DEF StageInv
<1>3. FeeProgress(item, fee, balance)
  BY <1>1
<1> HIDE DEF item, fee
<1>4. balance \in Nat /\ fee <= balance
  BY <1>2
<1> HIDE DEF balance
<1> QED
  BY <1>2, <1>3, <1>4, FeeMissesNothing

\* With the books in order, no message of an accepted call lacks anything.
LEMMA MissesNothing ==
  ASSUME WiringInv, StageInv, GoodBooks, tx.open, tx.msgs # << >>
  PROVE  NothingMissing
<1>1. CASE Message.type \in {"instantiate_cw20", "reply", "receive_nft", "receive"}
  BY <1>1 DEF NothingMissing
<1>2. CASE Message.type = "burn"
  BY <1>2, BurnMissesNothing
<1>3. CASE RetractionUnderWay \/ SettlementUnderWay \/ CancellationUnderWay
  BY <1>3, RetractionMissesNothing, SettlementMissesNothing, CancellationMissesNothing
<1> QED
  BY <1>1, <1>2, <1>3, StagesOfMessages

\* A call whose handler accepted it never fails halfway for lack of coins, of
\* the NFT or of the right to mint, in any configuration and after any history
\* of other calls: when execute_retract_bids, execute_withdraw_nft or
\* execute_cancel_auction return their messages, everything they need is there.
THEOREM AcceptedIsCarriedOutAlways == SpecTx => []AcceptedIsCarriedOut
<1>1. /\ WiringInv /\ StageInv /\ TypeOK /\ TermsMet /\ OutcomesKept /\ WinnerEscrowed
      /\ SoldOnTheCreatorsTerms /\ NftCustody /\ Solvent
      => AcceptedIsCarriedOut
  BY MissesNothing DEF GoodBooks, Stands, AcceptedIsCarriedOut, NothingMissing
<1>2. SpecTx => Spec
  BY TransactionsAreAtomic DEF AtomicMarketplace
<1> QED
  BY <1>1, <1>2, WiringInvAlways, StageInvAlways, TypeCorrect, TermsMetAlways,
     OutcomesKeptAlways, WinnerEscrowedAlways, SoldOnTheCreatorsTermsAlways,
     NftCustodyAlways, SolventAlways, PTL

-----------------------------------------------------------------------------
(* What the marketplace promises, for calls that may fail. *)

\* What is proved of Marketplace, where a call is one step, is true of what is
\* committed when each call is a handler and its messages, any of which may
\* fail: no failure leaves a state behind in which money, an NFT, a leading
\* bid or a history is not what it was promised to be, and none lets a
\* transaction do to an auction what no handler may.
THEOREM PromisesKept ==
  SpecTx => /\ [](Solvent /\ NftCustody /\ WinnerEscrowed /\ SoldOnTheCreatorsTerms)
            /\ [](HighestBidTops /\ BoughtOutIsClosed /\ CancelledIsClosed)
            /\ [](HistoriesAgree /\ PrivateBiddersRegistered /\ RewardsBounded)
            /\ ClosedForever /\ LeaderOutbids /\ OutbidCanAnswer /\ OnlyTheLastSecondReopens
<1>1. SpecTx => Spec
  BY TransactionsAreAtomic DEF AtomicMarketplace
<1>2. Spec => [](Solvent /\ NftCustody /\ WinnerEscrowed /\ SoldOnTheCreatorsTerms)
  BY SolventAlways, NftCustodyAlways, WinnerEscrowedAlways, SoldOnTheCreatorsTermsAlways, PTL
<1>3. Spec => [](HighestBidTops /\ BoughtOutIsClosed /\ CancelledIsClosed)
  BY HighestBidTopsAlways, BoughtOutIsClosedAlways, CancelledIsClosedAlways, PTL
<1>4. Spec => [](HistoriesAgree /\ PrivateBiddersRegistered /\ RewardsBounded)
  BY HistoriesAgreeAlways, PrivateBiddersRegisteredAlways, RewardsBoundedAlways, PTL
<1> QED
  BY <1>1, <1>2, <1>3, <1>4, ClosedForeverAlways, LeaderOutbidsAlways, OutbidCanAnswerAlways,
     OnlyTheLastSecondReopensAlways, PTL
=============================================================================
