CONSTANTS
  ann = ann
  ben = ben
  w1 = w1
  w2 = w2
  Users = {ann}
  Writers = {w1, w2}
  Owner <- BothAnns
  Allowance = 2
  Stakes = {1, 3}
  Payouts = {0, 2}
  MaxDay = 1
  MaxWinnings = 3
  MaxDue = 9
  Faults = FALSE
SPECIFICATION Spec
INVARIANT Accounted
