SPECIFICATION Spec
CONSTANTS
  Client = {c1, c2}
  NoClient = NoClient
  MaxTerm = 3
  MaxLog = 2
INVARIANTS StreamInOrder WaitersKept
PROPERTIES AnswersTrue StepDownTells CommittedStreamed CommittedReturns
CHECK_DEADLOCK FALSE
