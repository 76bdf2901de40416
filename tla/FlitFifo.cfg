SPECIFICATION Spec
CONSTANTS
  Rank = {r0, r1}
  Payload = {1, 2}
  Size = 3
  Nothing = Nothing
INVARIANT TypeOK
PROPERTY QueueSpec
