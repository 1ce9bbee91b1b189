SPECIFICATION FairSpec
CONSTANTS
  t1 = t1 t2 = t2 NoTurn = NoTurn
  a = a b = b new = new other = other Absent = Absent
  Turn = {t1, t2}
  CallId = {a, b}
  Content = {new, other}
  Answers <- AnswersMixed
  Providers = 2
  Broken = {1}
  MaxIterations = 1
  Threshold = 2
  MaxAttempts = 2
  NeedApproval = {t1}
  MaxEvents = 2
INVARIANTS AskedOnce WrittenOnce CommittedWasWritten WrittenAsApproved
CHECK_DEADLOCK FALSE
PROPERTY TurnsSettle
