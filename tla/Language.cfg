SPECIFICATION Spec
CONSTANTS
  MaxQuotes = 2
  IntMax = 12
  FloatExact = 4
  Reg <- MCReg
  Atoms <- MCAtoms
  MaxArgs = 2
  MaxCells = 3
  MaxQuoted = 1
  BufSize = 12
  Word = 64
  Lengths <- MCLengths
  MaxFrames = 4
  LineBuf = 5
  LineLengths <- MCLines
  MaxLines = 3
  MaxChars = 4
  MaxTokens = 7
  MaxParams = 2
  MaxDepth = 4
  MaxNumbers = 3
INVARIANTS
  CompleteReads
  SpellingReads
  PrintedReadsBack
  TemplatesExpand
  SameArguments
  AccessorsFollow
  ComparisonsAgree
  ArithmeticExact
  ListsRight
  InBuffer
  TraceTells
PROPERTIES
  ListsKept
  LinesRead
CHECK_DEADLOCK FALSE
