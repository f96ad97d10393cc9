CONSTANTS
  k1 = k1
  k2 = k2
  k3 = k3
  v1 = v1
  v2 = v2
  Null = Null
  Keys <- MC_Keys
  Values <- MC_Values
  HashCode <- MC_CollidingHash
  DelKeys <- MC_Keys
  MinimumSize = 2
  MaxProbe = 20
  ExpandBound = 3
SPECIFICATION Spec
PROPERTY
  NoKeyLostByExpand
