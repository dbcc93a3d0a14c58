SPECIFICATION FairStreamSpec
CONSTANTS
    Batches = 2
    MaxAttempts = 2
    QueueMax = 2
    MaxRepeats = 1
INVARIANT PartialInOrder
INVARIANT NumberInTurn
INVARIANT SettledIsAnswer
PROPERTY ScreenSettles
CHECK_DEADLOCK FALSE
