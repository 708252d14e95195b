CONSTANTS
  MaxAttempts = 2
SPECIFICATION FairSpec
INVARIANTS
  IineTypeOK
  ConsentComesFirst
  RepliesAnswerTheRequest
PROPERTIES
  HandshakeEnds
