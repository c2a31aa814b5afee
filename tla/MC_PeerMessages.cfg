SPECIFICATION FairSpec
CONSTANTS
  Senders = {s1}
  Types = {0, 1}
  Words = {0, 2}
  MaxSize = 1
  MaxSent = 3
  max_data_size = 1
INVARIANT InStepUntilData
PROPERTY EmptyMessagesArrive
CHECK_DEADLOCK FALSE
