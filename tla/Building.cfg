CONSTANTS
  WORD_BITS = 12
  SIGN_BIT = 2048
  DATA_MEMORY_SIZE_WORDS = 4
  IO_INPUT_DATA = 3840
  Pool <- MCPool
  Names <- MCNames
  EntryPoints <- AtZero
  VectorTables <- MCVectorTables
  MaxElements = 6
SPECIFICATION BuildingSpec
INVARIANTS BuildsTheListing VectorsAreHandlers
