SPECIFICATION FairSpec
CONSTANTS
  s1 = s1
  s2 = s2
  question = question
  permission = permission
  auto = auto
  Sessions <- MCSessions
  Questions <- MCQuestions
  Permissions <- MCPermissions
  Tools <- MCTools
  SessionOf <- MCSessionOf
  NoTool = NoTool
  MaxRetries = 2
INVARIANTS
  TypeOK
  TypedAtMostOnce
  OnlyOpenDialogsTyped
PROPERTIES
  NoKeysForFinishedTools
  AnswersAreNotMissed
  NeverStuck
