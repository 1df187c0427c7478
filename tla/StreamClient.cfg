CONSTANTS
  Client = {c1, c2}
  NumChunks = 3
  Sizes = {1, 2}
  MaxBytes = 2
  Nil = Nil
SPECIFICATION FairSpec
INVARIANTS
  TypeOK
  OneWriter
  AudioIsAnswered
  CallBounded
  InOrder
  NothingSkipped
PROPERTIES
  MutexIsFreed
  ImplementsChannel
