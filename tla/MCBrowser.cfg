\* Two games, one of which has moved.
SPECIFICATION FairSpec
CONSTANTS
  Label = {"a", "b"}
  Moved = {"a"}
  Decided <- MCDecided
  MaxDeaths = 1
  MaxLate = 1
  MaxAsked = 2
INVARIANTS
  TypeOK
  AnswersAreOwn
  NothingIsMissed
  NoSilentDeath
  KnownDeadIsDropped
  ViewShowsItsGame
  OldNodeIsLeft
CHECK_DEADLOCK FALSE
PROPERTIES
  CommandsEnd
  DeathIsNoticed
