------------------------------- MODULE Pricing -------------------------------
(***************************************************************************)
(* The amounts the handlers of contract.rs compute from an auction and the *)
(* configuration: the smallest acceptable bid, the SITY price of a private *)
(* sale, and how the price of a sold NFT is divided.                       *)
(***************************************************************************)
EXTENDS Taxation

CONSTANTS
  None,     \* the Option of Rust that holds nothing
  Config    \* CONFIG and CANCELLATION, written once by instantiate

ConfigType ==
  [bid_margin : Decimal, lota_fee : Decimal, lota_fee_low : Decimal,
   sity_full_rewards : Decimal, sity_partial_rewards : Decimal,
   sity_fee_registration : Decimal, sity_min_opening : Nat,
   cancellation_fee : Decimal]

ASSUME ConfigAssumption == Config \in ConfigType
ASSUME NoneAssumption == None \notin Int

Option(S) == S \cup {None}

\* Option<Uint128>::unwrap_or_default
OrZero(x) == IF x = None THEN 0 ELSE x

\* Mutant: the start price is asked for as long as there is one.
MinBidStart(item) ==
  LET current == OrZero(item.highest_bid)
  IN  IF item.start_price # None
      THEN item.start_price
      ELSE current + DecMul(current, Config.bid_margin)

\* Mutant: the price so far is enough.
MinBidEqual(item) ==
  LET current == OrZero(item.highest_bid)
  IN  IF item.start_price # None /\ item.start_price > current
      THEN item.start_price
      ELSE current

\* The price a bidder has to reach with everything paid so far.
MinBid(item) ==
  LET current == OrZero(item.highest_bid)
  IN  IF item.start_price # None /\ item.start_price > current
      THEN item.start_price
      ELSE current + DecMul(current, Config.bid_margin)

\* The SITY tokens execute_register_private_sale takes.
SityRequired(item) ==
  IF item.highest_bid = None
  THEN Config.sity_min_opening
  ELSE Config.sity_min_opening + DecMul(item.highest_bid, Config.sity_fee_registration)

\* The amount the PrivateSaleRestriction error of a bid names: "Registration
\* amount required {0} SITY token, please register first".
SityQuoted(item) ==
  IF item.highest_bid = None
  THEN Config.sity_min_opening
  ELSE DecMul(item.highest_bid, Config.sity_fee_registration)

\* What the creator pays to cancel once there is a bid.
CancellationFee(item) == DecMul(item.highest_bid, Config.cancellation_fee)

-----------------------------------------------------------------------------
(* The division of the highest bid at settlement. *)
LotaFee(item) ==
  DecMul(OrZero(item.highest_bid),
         IF item.private_sale THEN Config.lota_fee_low ELSE Config.lota_fee)

RoyaltyFee(item, fee) == DecMul(OrZero(item.highest_bid), fee)

\* The two checked_sub of the fees are unwrapped: the call aborts otherwise.
FeesFit(item, fee) ==
  LotaFee(item) + RoyaltyFee(item, fee) <= OrZero(item.highest_bid)

AfterFees(item, fee) ==
  OrZero(item.highest_bid) - LotaFee(item) - RoyaltyFee(item, fee)

\* Mutant: the charity gets its share of the whole price.
CharityShareGross(item, fee) ==
  IF item.charity = None \/ item.highest_bid = None
  THEN 0
  ELSE DecMul(item.highest_bid, item.charity)

CharityShare(item, fee) ==
  IF item.charity = None \/ item.highest_bid = None
  THEN 0
  ELSE DecMul(AfterFees(item, fee), item.charity)

CreatorShare(item, fee) == AfterFees(item, fee) - CharityShare(item, fee)

\* Everything a sale pays out, before tax.
Payouts(item, fee) ==
  << CreatorShare(item, fee), RoyaltyFee(item, fee), LotaFee(item), CharityShare(item, fee) >>
=============================================================================
