SPECIFICATION Spec
CONSTANTS
  Items = {i1, i2}
  Runs = {r1, r2, r3}
  None = None
  MaxQueue = 2
  MaxFaults = 2
INVARIANTS TypeOK NoInputLost HandledOnce
PROPERTIES DeliveryAcknowledged ImplementsInputInbox
CHECK_DEADLOCK FALSE
