SPECIFICATION Spec
CONSTANTS
  Exchanges <- MCExchanges
  Plain <- MCPlain
  Escape <- MCEscape
  HexDigits <- MCHexDigits
  HexValue <- MCHexValue
  UpperCase <- MCUpperCase
  maxURLSize = 30
  maxOptionSize = 8
  maxStatusSize = 8
  maxChunkLineSize = 6
  maxNextChunkLineSize = 6
  securityMaxPostDataSize = 12
  securityMaxHttpChunkSize = 3
  maxVarSize = 5
  ReadSizes = {1, 2, 3, 4, 5, 6, 7, 8, 9}
CHECK_DEADLOCK FALSE
INVARIANTS
  RequestsExact
  AnswersExact
  NeitherWaits
