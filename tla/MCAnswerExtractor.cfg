SPECIFICATION Spec
CONSTANTS
  MaxLength = 8
  MaxChunk = 3
INVARIANTS
  TypeOK
  ChunkingIsInvisible
CHECK_DEADLOCK FALSE
