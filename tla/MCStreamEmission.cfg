SPECIFICATION Spec
CONSTANTS
  a = a
  b = b
  cd = cd
  lead = lead
  trail = trail
  eos = eos
  Byte <- MCByte
  Vocab <- MCVocab
  Piece <- MCPiece
  EosTokens <- MCEosTokens
  Stops <- MCStops
  Prompt <- MCPrompt
  Intervals = {1, 2}
  MaxGenerateLength = 5
  MaxBurst = 2
  PartialPrefillEviction = TRUE
INVARIANTS
  TokensAreDelivered
  StreamIsResponse
  StopStringsStop
PROPERTY
  EndsOnce
