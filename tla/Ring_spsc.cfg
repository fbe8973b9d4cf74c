SPECIFICATION Spec
CONSTANTS
  Capacity = 2
  MaxBytes = 8
  Width = 10
  Sizes = {0, 5}
  Buffers = {0, 8}
  MaxMessages = 7
INVARIANTS
  TypeOK
  NothingOverwritten
  WrapHasRoom
  FramesIntact
  OutboxIsRest
  EmptyRingAccepts
PROPERTIES
  ImplementsChannel
