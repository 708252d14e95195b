CONSTANTS
  pad = pad
  iine = iine
  None = None
  Peers = {iine}
  Iine <- MCIine
  MaxListed = 1
SPECIFICATION FairSpec
PROPERTIES
  AttemptsEnd
  UpdatesEnd
