---------------------------- MODULE PricingProofs ----------------------------
(***************************************************************************)
(* What MCPricing checks up to a bound, for every amount, scale, rate and  *)
(* cap: the deduction of the tax against its reference, and the division   *)
(* of a price into shares.                                                 *)
(***************************************************************************)
EXTENDS MCPricing, ArithmeticProofs

\* Each state is an input of the arithmetic.
Input ==
  /\ amount \in Nat /\ rate \in Nat /\ cap \in Nat /\ fee \in Nat
  /\ charity # None => charity \in 1 .. Scale

LEMMA InputAlways == Spec => []Input
<1>1. Init => Input
  BY InputAssumption DEF Init, Input
<1>2. Input /\ [Next]_vars => Input'
  BY DEF Input, Next, vars
<1> QED
  BY <1>1, <1>2, PTL DEF Spec

-----------------------------------------------------------------------------
(* Tax. *)

\* compute_tax and deduct_tax are the arithmetic of a tax on top of an amount.
LEMMA DeductionTerms ==
  ASSUME NEW g
  PROVE  /\ deduct_tax(g) = Untaxed(g, rate, cap, Scale)
         /\ ChainCost(g) = Taxed(g, rate, cap, Scale)
  BY DEF compute_tax, deduct_tax, ChainCost, DecMul, MultiplyRatio, Lesser,
         AtMost, Net, Untaxed, Taxed

\* What deduct_tax leaves of an amount can be sent for that amount, and of all
\* the transfers that can it is the largest or the one below it, whatever the
\* rate and the cap that compute_tax is told.
THEOREM DeductTaxIsTightAlways == Spec => []DeductTaxIsTight
<1>1. Input => DeductTaxIsTight
  <2> SUFFICES ASSUME Input PROVE DeductTaxIsTight
    OBVIOUS
  <2>1. amount \in Nat /\ rate \in Nat /\ cap \in Nat /\ Scale \in Nat \ {0}
    BY InputAssumption DEF Input
  <2>2. Outflow(amount) <= amount
    BY <2>1, DeductionTerms, UntaxedIsCovered DEF Outflow
  <2>3. ChainCost(deduct_tax(amount) + 2) > amount
    BY <2>1, DeductionTerms, UntaxedIsTight
  <2> QED
    BY <2>2, <2>3 DEF DeductTaxIsTight
<1> QED
  BY <1>1, InputAlways, PTL

-----------------------------------------------------------------------------
(* Shares. *)

\* Once the fees fit into the price, the four payouts of execute_withdraw_nft
\* are amounts and add up to the price exactly, whatever each of them loses to
\* rounding.
THEOREM PayoutsExhaustThePriceAlways == Spec => []PayoutsExhaustThePrice
<1>1. Input => PayoutsExhaustThePrice
  <2> SUFFICES ASSUME Input, FeesFit(Item, fee)
               PROVE  LET p == Payouts(Item, fee)
                      IN  /\ p[1] + p[2] + p[3] + p[4] = amount
                          /\ \A k \in 1 .. 4 : p[k] >= 0
    BY DEF PayoutsExhaustThePrice
  <2> DEFINE lota == LotaFee(Item)
             royalty == RoyaltyFee(Item, fee)
             rest == AfterFees(Item, fee)
             given == CharityShare(Item, fee)
  <2>1. amount \in Nat /\ rate \in Nat /\ fee \in Nat /\ Scale \in Nat \ {0}
    BY InputAssumption DEF Input
  <2>2. OrZero(Item.highest_bid) = amount
    BY <2>1, InputAssumption DEF Item, OrZero
  <2>3. lota \in Nat /\ royalty \in Nat
    BY <2>1, <2>2, RoundedProduct DEF LotaFee, RoyaltyFee, DecMul, Item, Config
  <2>4. rest = amount - lota - royalty /\ rest \in Nat
    BY <2>1, <2>2, <2>3 DEF AfterFees, FeesFit
  <2>5. given \in Nat /\ given <= rest
    <3> HIDE DEF rest
    <3>1. CASE charity = None
      BY <2>4, <3>1 DEF CharityShare, Item
    <3>2. CASE charity # None
      <4>1. charity \in Nat /\ charity <= Scale
        BY <2>1, <3>2 DEF Input
      <4>2. given = (rest * charity) \div Scale
        BY <2>1, <3>2, InputAssumption DEF CharityShare, Item, DecMul, rest
      <4> QED
        BY <2>1, <2>4, <4>1, <4>2, RoundedProduct
    <3> QED
      BY <3>1, <3>2
  <2>6. Payouts(Item, fee) = << rest - given, royalty, lota, given >>
    BY DEF Payouts, CreatorShare
  <2> HIDE DEF lota, royalty, rest, given
  <2>7. rest - given >= 0 /\ (rest - given) + royalty + lota + given = amount
    BY <2>1, <2>3, <2>4, <2>5
  <2> QED
    BY <2>3, <2>5, <2>6, <2>7
<1> QED
  BY <1>1, InputAlways, PTL
=============================================================================
