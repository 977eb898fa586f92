\* Both players resign at about the same time.
SPECIFICATION Spec
CONSTANTS
  wk = wk
  bk = bk
  Us = bk
  MaxQueue = 2
  Id = {3, 5, 6}
  Genesis = 0
  Key = {wk, bk}
  White = wk
  Black = bk
  Uci = {"a", "c"}
  NoUci = "-"
  Statement <- MCStatement
  Sig = {1}
  Genuine <- MCGenuine
  Digest <- MCDigest
  MAX_PLY = 2
  Position <- MCPosition
  Start = "start"
  Play <- MCPlay
  RepetitionKey <- MCRepetitionKey
  Halfmoves <- MCHalfmoves
  Checkmate = {}
  Stalemate = {}
  InsufficientMaterial = {}
  THREEFOLD = 2
  FIVEFOLD = 3
  FIFTY_MOVE_HALFMOVES = 2
  SEVENTY_FIVE_MOVE_HALFMOVES = 3
  Nobody = Nobody
INVARIANT
  TheEndIsFinal
