SPECIFICATION Spec
CONSTANTS
  MaxLevels = 2
  RegexPcre = FALSE
  MaxTokens = 9
INVARIANTS
  TypeOK
  ParsedRight
  RefusedRight
  NoLeak
  MatchDefined
CHECK_DEADLOCK FALSE
