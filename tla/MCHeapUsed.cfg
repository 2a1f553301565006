SPECIFICATION HeapSpec
CONSTANTS
    FIRST = 5  POOL = 24
    LARGE = 3  SLI = 1  LEVELS = 3  WORD = 4  USED_FLAG = 64
    Sizes = {1, 3, 8}  Boundaries = {4}  MaxBlocks = 3
INVARIANTS UsedAccounted
