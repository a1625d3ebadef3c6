CONSTANTS
  WORD_BITS = 12
  SIGN_BIT = 2048
  DATA_MEMORY_SIZE_WORDS = 16
  IO_INPUT_DATA = 3840
  Limit = 500
  LastTick = 200
  Images <- SavingImages
  Schedules <- MCSchedules
SPECIFICATION TrapSpec
INVARIANTS TrapsAreTransparent HandlerRestores ProgramKeepsOut
CHECK_DEADLOCK FALSE
