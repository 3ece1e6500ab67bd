SPECIFICATION Spec
CHECK_DEADLOCK FALSE
CONSTANTS
  Menus = {tea, soup}
  MaxQuantity = 2
  MaxPrice = 2
  MaxConfirms = 2
  MaxChosen = 3
  Ideals <- Behaviours
INVARIANTS
  TypeOK
  NothingTwice
  NothingWiped
  TotalAgrees
PROPERTIES
  ConfirmEnds
