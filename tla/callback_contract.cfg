\* A burst of changes overflows the queue before a worker takes any.
CONSTANTS
  Workers = {w1, w2}
  QueueCap = 2
  MaxRetries = 2
  MaxChanges = 3
CHECK_DEADLOCK FALSE
SPECIFICATION FairSpec
INVARIANT TypeOK EachInOnePlace TakenInOrder
PROPERTY QuietOnceDone KeepsContract
