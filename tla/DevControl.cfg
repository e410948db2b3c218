CONSTANTS
  User = {u1, u2}
  u1 = u1
  u2 = u2
  Role = {"resident", "finance", "dev_admin"}
  Session = {s1}
  Desk = {d1}
  Estate = {e1}
  TestEmail <- Testers
  Statements = 2
  Limit = 1
  MaxChanges = 3
  NULL = NULL
SPECIFICATION DashboardSpec
INVARIANTS DashboardTypeOK CountedOnce ListsWhatItCounts
PROPERTIES DeletionAnswersTrue StaffStay AnswerIsCurrent
