SPECIFICATION Spec
CONSTANTS
  Loop <- MCLoop
  Producers <- MCTwo
  Licences = {a, b}
  NoLicence = NoLicence
  Nothing = Nothing
  NoSlot = NoSlot
  loop = loop
  net = net
PROPERTIES
  NoOverwriteUnderPump
