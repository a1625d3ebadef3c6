CONSTANTS
  WORD_BITS = 12
  SIGN_BIT = 2048
  DATA_MEMORY_SIZE_WORDS = 16
  IO_INPUT_DATA = 3840
  Limit = 250
  Text <- HiText
  FirstTicks <- EarlyPhases
  Gaps <- TightGaps
  Images <- BothImages
  Schedules <- MCSchedules
SPECIFICATION InputSpec
INVARIANTS PortHoldsLastEvent EchoesWhatItReads EveryEventHasOneFate EventsComeInTime
PROPERTIES ImplementsInputPort
CHECK_DEADLOCK FALSE
