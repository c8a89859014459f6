\* Two nodes that list each other, and one of them itself; one crash with a
\* restart at any point and one connection given up as silent.
CONSTANTS
  Node = {1, 2}
  Hosts <- BothAndSelf
  MaxConn = 2
  MaxFault <- LossFaults
SPECIFICATION Spec
INVARIANTS
  TypeOK
  RegistrationMatches
  HandshakeAgreement
  RejectedIsNotRegistered
PROPERTY OnlyOwnTeardownUnregisters
