CONSTANTS
  s1 = s1
  s2 = s2
  s3 = s3
  First = First
  Next_ = Next_
  Callers <- MCCallers
  Closers <- MCNone
  Keys <- MCKeys
  Args <- MCArgs
  MaxBatch = 2
  MaxDepth = 2
  Epochs = 1
  ArenaSlots = 2
  Sessions = 2
SPECIFICATION EncoderSpec
SYMMETRY Symmetric
INVARIANTS SlotOwnership ContextIsOwn
