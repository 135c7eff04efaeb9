SPECIFICATION FairSpec
CONSTANTS
  Threads = {t1, t2, t3, t4}
  i1 = i1
  i2 = i2
  i3 = i3
  i4 = i4
  Items <- MCItems
  KeyOf <- MCKeyOf
  Capacity = 2
  MaxProducers = 2
  None = None
INVARIANTS
  CapacityRespected
  NoLostWriterWakeup
  NoLostReaderWakeup
PROPERTY
  ImplementsOrderedQueue
CHECK_DEADLOCK FALSE
