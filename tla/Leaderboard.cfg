\* Two players, three answers of the server, numbers up to 11.
SPECIFICATION Spec
CONSTANTS
  Names <- MCNames
  Answers <- MCAnswers
  Statuses = {201, 429}
  Queries <- MCQueries
  Window = 1
  Digits = {1, 2}
  MaxNumber = 11
  Slide = 1
  Hold = 1
INVARIANTS
  ReportedIsThePointedAt
  SentAsAgreed
  MessageStaysItsTime
PROPERTY
  JumpIsWhatWasTyped
