SPECIFICATION FairSpec
CONSTANTS
  Capacity = 2
  MaxBytes = 8
  Width = 10
  Sizes = {0, 5}
  Buffers = {0, 8}
  MaxMessages = 5
PROPERTIES
  PublishedIsReceived
