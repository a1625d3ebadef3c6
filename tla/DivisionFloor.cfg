CONSTANTS
  WORD_BITS = 6
  SIGN_BIT = 32
  DATA_MEMORY_SIZE_WORDS = 2
  IO_INPUT_DATA = 32
SPECIFICATION AluSpec
INVARIANTS DividesByFloor
