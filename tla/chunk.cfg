SPECIFICATION FairSpec
CONSTANTS
  MaxLen = 5
  Word = 8
  Bytes = {0, 1}
  Messages <- MCMessages
  Sizes <- MCSizes
  Caps <- MCCaps
  MaxMessages = 2
INVARIANTS
  TypeOK
  WritesInside
  CompleteMeansCovered
  DeliveredIsSent
  ArmedAsSent
PROPERTIES
  ImplementsReassembly
  MessageHandedUp
