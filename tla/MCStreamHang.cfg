\* Another task closes the stream while the consumer iterates: does the
\* consumer always notice?
SPECIFICATION FairSpec
CONSTANTS
  MaxSize = 1
  MaxTokens = 1
PROPERTIES
  ConsumerWakes
CHECK_DEADLOCK FALSE
