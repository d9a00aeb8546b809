\* Deadlock is not checked: every instance stops once its messages, runs and changes are used up.
SPECIFICATION MissionsSpec
CONSTANTS
  Requests = {r1, r2}
  Raised <- MCRaised
  Targets <- MCTargets
  MaxHops = 1
  Answers <- MCAnswers
  Callers = {c1, c2}
  MaxCloses = 3
  Wishes <- MCWishes
  Tasks <- MCTasks
  MaxRuns = 4
  MaxProfiles = 2
  Pages <- MCPages
  Labels <- MCLabels
  MaxElements = 2
  MaxMoves = 2
  MaxToolCalls = 3
  MaxTokens = 4
  MaxWall = 2
  Attempts = 2
  Usages = {1, 2}
  MaxUses = 2
  MaxAgentRuns = 2
  ToolBudget = 3
  MaxWidth = 2
  Accounts = {a1, a2}
  Browsers = {b1, b2}
  Links = {1, 2}
  LinkLife = 1
  SessionLife = 2
  SecretKept = FALSE
  MaxTicks = 2
  MaxBoots = 1
  WatchIds = {w1, w2}
  Crons = {"hourly", "never"}
  RunnableCrons = {"hourly"}
  Sweeps = {1, 2}
  MaxRowChanges = 1
  MaxSweeps = 3
  Policies = {"auto", "browser"}
  Fetches = {1, 2, 3}
  Responses <- MCResponses
  MaxResets = 1
  Bodies <- MCBodies
  Boards <- MCBoards
  FloorGap = 2
  Horizon = 10
  SampleRuns = 3
  MaxChecks = 3
INVARIANTS
  SentWithinPolicy
  HeldIsTracked
  OutcomeIsTheSites
  PersonIsHeard
  ExpiryIsEarned
  AimedAsShown
  AgentWithinMeans
  TurnIsOwnedUp
  OneSessionPerLink
  SchedulesSettle
  FloorIsEarned
  AcceptedCanFire
  FiresOnNews
PROPERTIES
  StopWins
CHECK_DEADLOCK FALSE
