\* Liveness: two draw offers and a move, messages lost and
\* repeated, nobody making states up.
SPECIFICATION FairSpec
CONSTANTS
  w = w
  b = b
  p1 = p1
  p2 = p2
  Id <- MCFewIds
  Genesis = 0
  Key = {w, b}
  White = w
  Black = b
  Uci = {"-"}
  NoUci = "-"
  Statement <- MCWithOffers
  Sig = {1, 2, 3}
  Genuine <- MCGenuine
  Digest <- MCDigest
  MAX_PLY = 1
  Peer = {p1, p2}
  Crafted = {}
  MaxNet = 1
PROPERTY
  Convergence
