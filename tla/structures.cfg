CONSTANTS
  k1 = k1
  k2 = k2
  k3 = k3
  v1 = v1
  v2 = v2
  o1 = o1
  o2 = o2
  o3 = o3
  n1 = n1
  n2 = n2
  n3 = n3
  p1 = p1
  p2 = p2
  b1 = b1
  b2 = b2
  Nil = Nil
  Null = Null
  Keys <- MC_Keys
  Values <- MC_Values
  HashCode <- MC_ApartHash
  DelKeys <- MC_ApartDelKeys
  MinimumSize = 4
  MaxProbe = 20
  ExpandBound = 3
SPECIFICATION StructuresSpec
SYMMETRY MC_NodeSymmetry
INVARIANTS
  TypeOK
  NoDuplicateKey
  LinkedListWellFormed
  IteratorOnList
  ElementsOwnedOnce
  BuffersAccounted
  FreeListSound
  StandardEncoding
  RoundTrip
  URIRoundTrip
PROPERTIES
  TableMapSpec
  LinkedListSpec
  ArrayListSpec
  BufferDictionarySpec
