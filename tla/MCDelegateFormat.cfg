\* The store holds a record of a layout this delegate does not know.
SPECIFICATION Spec
CONSTANTS
  l1 = l1
  l2 = l2
  g1 = g1
  g2 = g2
  c1 = c1
  c2 = c2
  o1 = o1
  Label = {l1, l2}
  Game = {g1, g2}
  PubKey = {"k1", "k2", "k3"}
  KeyOf <- MCKeyOf
  White <- MCWhite
  Black <- MCBlack
  Origin = {o1}
  NoOrigin = NoOrigin
  Contract = {c1, c2}
  Body <- MCBody
  MAX_PLY = 3
  Carried = {4}
  Faulty = {}
  None = None
INVARIANT
  NoDoubleSign
