SPECIFICATION DataSpec
CONSTANTS
  Parts = {"table", "copy", "arith", "random", "strings", "calls", "save"}
  ReadBases = {0, 2, 8, 10, 16}
  NULL = null
  GONE = gone
  Tables = {"t"}
  Names <- FiveNames
  Symbols <- FiveNames
  NameOf <- Same
  Folded <- Same
  Values <- JustNull
  DEF_TABLE_SIZE = 4
  MAX_VECTOR_SIZE = 15
  MAX_TABLE_ENTRIES = 5
  Hashes <- FiveHashes
  Sizes <- PowersOf2
  MaxVec = 1
  Kinds = {FALSE}
  Functions <- AllFunctions
  MaxSeclevel = 1
  DEFAULT_SECLEVEL = 1
  MAX_FUNCTION_ARGS = 4
  MAX_PRIMITIVE_ARGS = 2
  MaxArgs = 6
  BITS = 4
  MaxLength = 4
  Haystacks <- MCHaystacks
  Needles <- MCNeedles
  Offsets <- MCOffsets
  Lines <- MCLines
  Encoded <- MCEncoded
  BUFSIZ = 2
  Fields = 4
  MAX_STRING_SIZE = 5
INVARIANTS Findable CountsKept ArithExact EvenChances FindsFirst ArgumentsArrive RoundTrip
PROPERTIES ImplementsMap TablesSound
CHECK_DEADLOCK FALSE
