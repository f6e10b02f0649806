CONSTANTS
  c1 = c1
  c2 = c2
  c3 = c3
  b1 = b1
  b2 = b2
  b3 = b3
  Clients <- ThreeClients
  Buffers <- ThreeBuffers
  Sizes = {1, 3}
  MaxBufferSize = 2
  MaxBuffersCount = 2
SPECIFICATION Spec
SYMMETRY Alike
INVARIANTS
  TypeOK
  Exclusive
  SizeWithinData
CHECK_DEADLOCK FALSE
