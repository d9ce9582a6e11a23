SPECIFICATION FairSpec
CONSTANTS
  Tasks = {t1}
  Images <- MCImages
  Blobs <- MCBlobs
  ThisDevice <- MCThisDevice
  IdErrors <- MCIdErrors
  MaxTime = 3
  None = None
  v1 = v1
  v2 = v2
  rogue = rogue
  here = here
  elsewhere = elsewhere
INVARIANTS
  TypeOK
  CheckedIsHonest
  RefusalExplained
  MarkCoversGrants
PROPERTIES
  MarkNeverFalls
  MarkIsEarned
  ImplementsService
  CallReturns
