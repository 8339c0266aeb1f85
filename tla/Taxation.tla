------------------------------ MODULE Taxation ------------------------------
(***************************************************************************)
(* taxation.rs: what is taken off a coin before it is sent, so that the    *)
(* tax the chain charges the sender on top is already paid for.            *)
(***************************************************************************)
EXTENDS FixedPoint

CONSTANTS
  TaxRate,   \* query_tax_rate, a Decimal
  TaxCap     \* query_tax_cap of the denomination, an amount

ASSUME TaxAssumption == TaxRate \in Decimal /\ TaxCap \in Nat

\* Mutant: the rate is applied to the gross amount.
compute_tax_gross(amount) == Lesser(DecMul(amount, TaxRate), TaxCap)

compute_tax(amount) ==
  Lesser(amount - MultiplyRatio(amount, SCALE, TaxRate + SCALE), TaxCap)

\* Mutant: the tax is left to the contract to pay.
deduct_tax_nothing(amount) == amount

deduct_tax(amount) == amount - compute_tax(amount)

-----------------------------------------------------------------------------
(* The chain, which is not part of this repository. *)

\* A transfer of `amount` costs its sender the amount and the tax on it.
ChainCost(amount) == amount + Lesser(DecMul(amount, TaxRate), TaxCap)

\* The bank refuses to send a coin of amount zero; the code tests for zero
\* before most of its transfers for this reason.
BankAccepts(amount) == amount > 0

-----------------------------------------------------------------------------
(* A BankMsg::Send of deduct_tax(gross): what the contract's balance loses,
   and whether the bank carries it out. *)
Outflow(gross) == ChainCost(deduct_tax(gross))
Sendable(gross) == BankAccepts(deduct_tax(gross))
=============================================================================
