CONSTANTS
  WORD_BITS = 12
  SIGN_BIT = 2048
  DATA_MEMORY_SIZE_WORDS = 80
  IO_INPUT_DATA = 3840
  Limit = 3000
  Sessions <- AllSessions
  Prepared <- PreparedAt
  Images <- CompiledImages
  Schedules <- MCSchedules
SPECIFICATION CompiledSpec
INVARIANTS ComputesTheMeaning BalancedStack
PROPERTIES ReturnsToItsCall
CHECK_DEADLOCK FALSE
