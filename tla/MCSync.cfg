\* Safety and refinement: two peers, everything in play, one message in flight.
SPECIFICATION Spec
CONSTANTS
  w = w
  b = b
  p1 = p1
  p2 = p2
  Id <- MCId
  Genesis = 0
  Key = {w, b}
  White = w
  Black = b
  Uci = {"-"}
  NoUci = "-"
  Statement <- MCWithBlackMove
  Sig = {1, 2, 3}
  Genuine <- MCGenuine
  Digest <- MCDigest
  MAX_PLY = 1
  Peer = {p1, p2}
  Crafted <- MCCrafted
  MaxNet = 1
SYMMETRY MCPeers
INVARIANTS
  TypeOK
  OrderIndependence
  StaleSummaryIsSound
  SettledPeersAreQuiet
  FraudProofSurvives
  OnlyOwnRecordsEvict
PROPERTY
  ImplementsLedger
