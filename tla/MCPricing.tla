------------------------------ MODULE MCPricing ------------------------------
(***************************************************************************)
(* The arithmetic of Taxation and Pricing checked for every input up to a  *)
(* bound: each state is one input.                                         *)
(***************************************************************************)
EXTENDS Integers

CONSTANTS
  None,
  Scale,       \* the units of a Decimal
  MaxAmount,   \* bound on the amounts
  Rates,       \* tax rates, and fees of the contract and of the minter
  Caps         \* caps of the tax, and smallest SITY payments

ASSUME InputAssumption ==
  /\ None \notin Int
  /\ Scale \in Nat \ {0} /\ MaxAmount \in Nat
  /\ Rates \subseteq Nat /\ Caps \subseteq Nat

VARIABLES amount, rate, cap, fee, charity

vars == << amount, rate, cap, fee, charity >>

Config ==
  [bid_margin |-> fee, lota_fee |-> rate, lota_fee_low |-> rate,
   sity_full_rewards |-> Scale, sity_partial_rewards |-> Scale,
   sity_fee_registration |-> fee, sity_min_opening |-> cap, cancellation_fee |-> fee]

INSTANCE Pricing WITH SCALE <- Scale, TaxRate <- rate, TaxCap <- cap

Init ==
  /\ amount = 0
  /\ rate \in Rates /\ cap \in Caps /\ fee \in Rates
  /\ charity \in {None} \cup (Rates \cap (1 .. Scale))

\* The next larger amount.
Next ==
  /\ amount < MaxAmount
  /\ amount' = amount + 1
  /\ UNCHANGED << rate, cap, fee, charity >>

Spec == Init /\ [][Next]_vars

Item == [highest_bid |-> amount, charity |-> charity, private_sale |-> FALSE, start_price |-> None]

-----------------------------------------------------------------------------
\* Reference for deduct_tax: the largest amount that, with the tax the chain
\* charges on it, costs no more than the gross amount.  The code may stay one
\* unit below it and is never above.
DeductTaxIsTight ==
  /\ Outflow(amount) <= amount
  /\ ChainCost(deduct_tax(amount) + 2) > amount

\* The shares of withdraw_nft add up to the price exactly, whatever is lost
\* to rounding in each of them.
PayoutsExhaustThePrice ==
  LET p == Payouts(Item, fee)
  IN  FeesFit(Item, fee) =>
        /\ p[1] + p[2] + p[3] + p[4] = amount
        /\ \A k \in 1 .. 4 : p[k] >= 0
=============================================================================
