\* Every request but CreateGameKey may end between its writes; the store may come
\* from a delegate of the previous format.
SPECIFICATION Spec
CONSTANTS
  l1 = l1
  l2 = l2
  g1 = g1
  g2 = g2
  c1 = c1
  c2 = c2
  o1 = o1
  Label = {l1, l2}
  Game = {g1, g2}
  PubKey = {"k1", "k2", "k3"}
  KeyOf <- MCKeyOf
  White <- MCWhite
  Black <- MCBlack
  Origin = {o1}
  NoOrigin = NoOrigin
  Contract = {c1, c2}
  Body <- MCBody
  MAX_PLY = 3
  Carried = {2}
  Faulty = {"BindGame", "Rebind", "Sign"}
  None = None
SYMMETRY MCContracts
INVARIANTS
  TypeOK
  NoDoubleSign
  IndexLeadsToOwnGame
  OnlyTheCreatorSigns
PROPERTIES
  GuardNeverResets
  OldAddressIsKept
