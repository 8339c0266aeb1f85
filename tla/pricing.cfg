SPECIFICATION Spec
CONSTANTS
  None = None
  Scale = 20
  MaxAmount = 60
  Rates = {0, 1, 3, 7, 20}
  Caps = {0, 2, 100}
CHECK_DEADLOCK FALSE
INVARIANTS
  DeductTaxIsTight
  PayoutsExhaustThePrice
