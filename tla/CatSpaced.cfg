CONSTANTS
  WORD_BITS = 12
  SIGN_BIT = 2048
  DATA_MEMORY_SIZE_WORDS = 16
  IO_INPUT_DATA = 3840
  Limit = 700
  Text <- HiText
  FirstTicks <- GoldenPhases
  Gaps <- Gap150
  Images <- CatImages
  Schedules <- MCSchedules
SPECIFICATION InputSpec
PROPERTIES EchoesEverything
CHECK_DEADLOCK FALSE
