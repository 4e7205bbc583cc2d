SPECIFICATION Spec
CONSTANTS
  None = None
  Requests <- MCRequests
  Answers <- MCAnswers
  Streams <- MCStreams
  Texts <- MCTexts
  MaxChunk = 3
CHECK_DEADLOCK FALSE
INVARIANTS  RequestsArrive AnswersArrive FramesAreWhatWasWritten
PROPERTIES StreamsAreWellFormed
