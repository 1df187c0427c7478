CONSTANTS
  Session = {s1, s2}
  MaxSeconds = 1
  RefreshDelay = 1
  MaxRequests = 2
  MaxQueue = 1
  Nil = Nil
SPECIFICATION FairSpec
INVARIANTS
  TypeOK
  NothingLeftRunning
  RecordingHasSocket
  AudioAfterHandshake
PROPERTIES
  OwnAudio
  SilentWhenIdle
  RecordingEnds
  IdlePageRefreshes
  ServerSessionsEnd
