----------------------------- MODULE FixedPoint -----------------------------
(***************************************************************************)
(* The arithmetic of cosmwasm_std that the marketplace computes prices     *)
(* with.  A Decimal is a natural number of units of 1/SCALE, an amount is  *)
(* a natural number of the smallest coin unit, and every product is        *)
(* rounded towards zero.  SCALE is 10^18 in the code.                      *)
(***************************************************************************)
EXTENDS Integers

CONSTANT SCALE

ASSUME ScaleAssumption == SCALE \in Nat \ {0}

Decimal == Nat

\* Decimals of at most one.
Share == 0 .. SCALE

\* Uint128 * Decimal: rounds down.
DecMul(amount, d) == (amount * d) \div SCALE

\* Uint128::multiply_ratio: rounds down.
MultiplyRatio(amount, nominator, denominator) == (amount * nominator) \div denominator

\* Uint128 * Decimal::from_str("0.5").
Half(amount) == amount \div 2

Lesser(x, y) == IF x <= y THEN x ELSE y
=============================================================================
