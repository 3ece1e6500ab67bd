SPECIFICATION Spec
CONSTANTS
  Desks = {d1}
  Tables = {1, 2}
  Number <- InOrder
  MaxParties = 2
  MaxLosses = 1
INVARIANTS
  EndsMeant
