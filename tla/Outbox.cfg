SPECIFICATION FairSpec
CONSTANTS
  Deliveries = {d1, d2}
  Publishers = {p1, p2}
  NoOne = NoOne
  NoDelivery = NoDelivery
  MaxFaults = 2
INVARIANTS OutboxInv OneTaskPerTakeback
PROPERTIES HandoffKept EveryDeliverySettles
CHECK_DEADLOCK FALSE
