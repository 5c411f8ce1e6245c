SPECIFICATION ClientSpec
CONSTANTS
  Base = 2
  Half = 2
  Hash <- MCHash
  Rounds = 2
  Addresses <- MCAddresses
  Words <- MCWords
  Nonces <- MCNonces
  EasyTarget = 20000
  Salts = {0, 15}
  Workers = {0, 1}
  MaxSeq = 1
  Targets <- MCTargets
  OtherLines <- MCOtherLines
INVARIANTS
  AnswerVerifies
  PassesSelfTest
  NonceNamesBatch
PROPERTIES
  Searches
  FindsSmallest
CHECK_DEADLOCK FALSE
