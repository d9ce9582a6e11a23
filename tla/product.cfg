SPECIFICATION Spec
CONSTANTS
  Licences = {a, b}
  Ota = {a}
  Junk = Junk
  TooLong = TooLong
  Nothing = Nothing
  Sketches <- MCSketches
  MaxPastes = 3
INVARIANTS
  UpdatesFollowVerdict
  NoWriteUnasked
PROPERTIES
  CardCatchesUp
  QueuedIsJudged
