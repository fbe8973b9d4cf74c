SPECIFICATION Spec
CONSTANTS
  Capacity = 3
  MaxBytes = 8
  Width = 6
  Sizes = {0, 8}
  Buffers = {8}
  MaxMessages = 3
INVARIANTS
  OutboxIsRest
