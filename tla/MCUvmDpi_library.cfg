\* The three services of the DPI library, each on its own small inputs.
CONSTANTS
  Widths = {2, 3}
  ChunkBits = 2
  MaxWidth = 6
  Paths <- MCPaths
  Deposits <- MCDeposits
  Drives <- MCDrives
  Arguments <- MCArguments
  CommandLines <- MCCommandLines
  MaxFiles = 6
  PlusTexts = {"+plus", "+uvm_x"}
  UvmTexts = {"-uvm_y", "+uvm_x"}
  MaxProcessors = 2
  Characters <- MCCharacters
  Globs <- MCGlobs
  Strings <- MCStrings
SPECIFICATION DpiSpec
VIEW WithoutCall
\* A processor has its arguments, a match its answer: nothing is left to do.
CHECK_DEADLOCK FALSE
INVARIANTS TypeOK ArgumentsCollected ArrayFits GlobAgrees MatchersAgree
PROPERTIES ReadIsTrue WriteLands ReleaseLands OnlySelected FailedDepositIsPrefix
