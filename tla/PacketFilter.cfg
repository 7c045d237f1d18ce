CONSTANTS
  Lengths = {13, 14, 17, 33, 34, 53, 54, 58, 62, 73, 82}
  MaxTags = 3
  HeaderWords = {4, 5, 6}
  Ports = {7777, 24862}
  MaxSocks = 1
  MaxEvents = 1
SPECIFICATION Spec
INVARIANT TypeOK
INVARIANT InBounds
INVARIANT OnlyPortTaken
PROPERTY AbortsExplained
INVARIANT RegisteredDelivered
