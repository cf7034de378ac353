\* Three packages, two warm and two warmish places, no wrap of the counter.
CONSTANTS
  DigestCount = 3
  Sizes = {1, 2, 4}
  max_warm = 2
  max_warmish = 2
  max_warmish_bytes = 3
  SequenceModulus = 9
SPECIFICATION SpecBeforeWrap
INVARIANTS Capacity ByteAccounting LoopsAgree
PROPERTIES EvictsOldestFirst ImplementsTierCache
CHECK_DEADLOCK FALSE
