SPECIFICATION Spec
CONSTANTS
  Questions <- MCQuestions
  Open <- MCOpen
  Padded <- MCPadded
  Answers <- MCAnswers
  Notes <- MCNotes
  Conflicts <- MCConflicts
  Escalate = "auto"
  Resolver = TRUE
  Engine = "claude"
  MaxAttempts = 3
  MaxRounds = 4
  MaxCrashes = 2
INVARIANTS
  TypeOK
  AnswersBounded
  SidecarAgrees
CHECK_DEADLOCK FALSE
