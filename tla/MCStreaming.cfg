CONSTANTS
  p1 = p1
  p2 = p2
  p3 = p3
  p4 = p4
  None = None
  Participants <- MCParticipants
  MaxBatch = 3
  Hop = 2
  Half = 3
  Sub = 2
  Rights = {0, 1}
  Chunk = 4
  Left = 4
  RightPad = 4
  VadWindow = 7
  Silence = 2
  Feeds = {5, 10}
  MaxAudio = 25
  MaxVoice = 4
SPECIFICATION MCSpec
SYMMETRY Symmetric
INVARIANTS CohortIsReal SleepersWaitInCurrent FramesInOrder FinalsAreUtterances
