SPECIFICATION Spec
CONSTANTS
  NoBuffer = NoBuffer
  Buffer = {b1, b2, b3}
  Kinds = {"mem", "dma"}
  Physical = FALSE
  KindChanges = FALSE
  MaxSlots = 2
  MaxBatch = 2
  MaxPools = 2
  MaxResets = 1
SYMMETRY BufferSymmetry
INVARIANTS
  TypeOK
  BuffersSound
  NoLostTrigger
PROPERTIES
  ContextIdleAtReset
