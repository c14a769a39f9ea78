SPECIFICATION DashboardSpec
CONSTANTS
  Email = {a, b}
  NoEmail = NoEmail
  Accounts = {a}
  CliEmail = {a}
  MaxCodes = 2
  OtherClient = {"other"}
  AtAnyTime = FALSE
  MaxAttempts = 1
  Deployment = {d1, d2}
  NoDeployment = NoDeployment
  Followed = d1
  Outcomes = {"READY", "SKIPPED"}
  MaxPresses = 1
  MaxRows = 2
  MaxReplies = 1
  Note = {n1, n2}
  NoNote = NoNote
  Offers = {n1}
  MaxPolls = 2
  MaxCalls = 2
  MaxFailures = 1
  Project = {p1, p2}
  NoProject = NoProject
  MaxAnswers = 2
  MaxStored = 4
  Limit = 2
  MaxShown = 3
  MaxAsked = 2
  Item = {i1, i2}
  FormField = {i1}
  MaxVersion = 2
  MaxGets = 2
  MaxEditCalls = 2
  MaxBreaks = 1
  MaxEdits = 2
  User = {u1, u2}
  NoUser = NoUser
  Admin = u1
  Me = u2
  Repo = {r1}
  NoRepo = NoRepo
  MaxOffers = 2
  MaxAdmitted = 2
INVARIANT DashboardTypeOK
INVARIANT GuessesBounded
INVARIANT CredentialsAreProven
INVARIANT PageLogsAreOwn
INVARIANT FollowersSeeAll
INVARIANT DeletesWhatWasConfirmed
INVARIANT DeletedStaysGone
INVARIANT TailIsExact
INVARIANT ProjectsAreOwned
PROPERTY CommandEnds
PROPERTY BadgeSettles
PROPERTY RowsSettle
CHECK_DEADLOCK FALSE
