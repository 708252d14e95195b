CONSTANTS
  pad = pad
  iine = iine
  None = None
  Peers <- MCPeers
  Iine <- MCIine
  MaxListed = 2
SPECIFICATION Spec
INVARIANT NoLinkIsForgotten
