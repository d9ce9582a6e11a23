SPECIFICATION FairSpec
CONSTANTS
  Loop <- MCLoop
  Producers <- MCOne
  Licences = {a, b}
  NoLicence = NoLicence
  Nothing = Nothing
  NoSlot = NoSlot
  loop = loop
  net = net
INVARIANTS
  TypeOK
  InForceMatchesBlob
  StoredIsIssued
  ReportedOkIsDurable
PROPERTIES
  NoOverwriteUnderPump
  SubmissionAnswered
  ImplementsSlot
