\* Two honest players who also offer, accept and claim draws: White at two clients, Black at one.
SPECIFICATION Spec
CONSTANTS
  wk = wk
  bk = bk
  Client = {"cli", "browser", "other"}
  PlayerOf <- MCPlayerOf
  Honest = {wk, bk}
  None = None
  Id <- MCHonestIds
  Genesis = 0
  Key = {wk, bk}
  White = wk
  Black = bk
  Uci = {"a", "b", "c"}
  NoUci = "-"
  Statement <- MCHonest
  Sig = {1}
  Genuine <- MCGenuine
  Digest <- MCDigest
  MAX_PLY = 4
  Position <- MCPosition
  Start = "start"
  Play <- MCPlay
  RepetitionKey <- MCRepetitionKey
  Halfmoves <- MCHalfmoves
  Checkmate = {"bc"}
  Stalemate = {}
  InsufficientMaterial = {}
  THREEFOLD = 2
  FIVEFOLD = 3
  FIFTY_MOVE_HALFMOVES = 2
  SEVENTY_FIVE_MOVE_HALFMOVES = 3
  Nobody = Nobody
INVARIANTS
  TypeOK
  HonestNeverForfeits
  HonestCanMove
PROPERTY
  DecisionsStand
  ImplementsOneGame
\* A game is over when nobody has anything left to say.
CHECK_DEADLOCK FALSE
