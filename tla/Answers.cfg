SPECIFICATION AnswersFairSpec
CONSTANTS
  c1 = c1
  c2 = c2
  NoCommit = NoCommit
  Callers = {e1}
  Commits <- MCCommits
  FastForward <- MCFastForward
  Configs <- MCBranch
  MaxMoves = 1
  MaxFaults = 1
INVARIANTS
  AnswersTypeOK
  UndisturbedReportIsTrue
  OkNamesACommit
PROPERTIES
  ReportConverges
CHECK_DEADLOCK FALSE
