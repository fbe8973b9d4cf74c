SPECIFICATION Spec
CONSTANTS
  Capacity = 1
  MaxBytes = 24
  Width = 10
  Sizes = {8, 24}
  Buffers = {24}
  MaxMessages = 3
INVARIANTS
  EmptyRingAccepts
