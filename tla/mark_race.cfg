SPECIFICATION Spec
CONSTANTS
  Tasks = {t1, t2}
  Images <- MCFullOnly
  Blobs <- MCFewBlobs
  ThisDevice <- MCThisDevice
  IdErrors <- MCIdErrors
  MaxTime = 2
  None = None
  v1 = v1
  v2 = v2
  rogue = rogue
  here = here
  elsewhere = elsewhere
PROPERTIES
  MarkNeverFalls
