CONSTANTS
  WORD_BITS = 12
  SIGN_BIT = 2048
  DATA_MEMORY_SIZE_WORDS = 16
  IO_INPUT_DATA = 3840
  Limit = 600
  Text <- HiText
  FirstTicks <- SomePhases
  Gaps <- Gaps120
  Images <- EchoImages
  Schedules <- MCSchedules
SPECIFICATION InputSpec
INVARIANTS EchoesInput
PROPERTIES EchoesEverything RunEnds
CHECK_DEADLOCK FALSE
