CONSTANTS
  b1 = b1
  w1 = w1
  MaxTime = 4
  DayLength = 3
  LeadIds = {b1, b2, w1}
  HandoffIds = {b1, b2, w1}
  Browsers = {b1, b2}
  WhatsAppCalls = {w1}
  PhoneSessions = {p1}
  SessionLength = 2
  ConfirmWindow = 3
  DailyLimit = 2
  Challenges = {"first", "second", "third"}
  MaxAttempts = 2
  ChallengeTicks = 1
  LockTicks = 1
  LoginTicks = 2
  RecoveryCodes = {1}
  FactKeys = {k1}
  Retention = 2
  PairTicks = 1
  Visitors = {v1, v2}
  Requests = {r1, r2}
  Lease = 1
  ChatsPerDay = 3
  ChatsAtOnce = 1
  FaqIds = {1, 2, 3}
  Questions <- SomeQuestions
  IgnoredWords = {"of"}
  Work = {1, 2, 3, 4}
  Queue <- SomeQueues
  Runners = {j1, j2}
  BatchSize = 2
  RetryTicks = 1
SPECIFICATION Spec
INVARIANTS TypeOK ConversationLimits CodesWorkOnce LoginsMatchFactor GuessesAreCounted ForgottenStaysForgotten AnsweredOnce ExactQuestionIsAnswered TurnsCome
PROPERTIES ClosedStaysClosed
SYMMETRY RunnersAlike
CHECK_DEADLOCK FALSE
