\* Two updates of one coordinator's scope at once leave the union of their lists.
SPECIFICATION MCSpec
CONSTANTS
  Parts = {"enrolment"}
  NoValue = NoValue
  Missing = NoValue
  Absent = NoValue
  Ended = Ended
  e1 = e1
  e2 = e2
  n1 = n1
  n2 = n2
  h1 = h1
  h2 = h2
  Requests = {a, b}
  Workers = {a, b}
  Calls = {a, b}
  Sessions = {k1, k2}
  Tokens = {k1}
  Assignments = {k1, k2}
  Emails = {m1, m2}
  Passwords = {p1, p2}
  MaxTokens = 2
  Coordinators = {c}
  Admin = admin
  Addresses = {e1, e2}
  Numbers = {n1, n2}
  Files <- MCFiles
  Applicants <- MCApplicants
  Enrolled = {}
  StoreLimit = 1
  Sites = {h1, h2}
  Days = {1, 2}
  Proposals <- MCProposals
  MaxFields = 1
  Clients = {h1, h2}
  MaxEvents = 2
  Window = 3
  MaxEntries = 1
  NoAnswer = NoValue
  MaxClock = 15
  Versions = {1, 2, 3}
  Needs <- MCNeeds
  Runners = {a, b, c}
  Idle = NoValue
  Uploads = {a, b}
  Events = {"open", "day", "day2"}
  KindOf <- MCKindOf
  Jobs = {a, b}
  NotRunning = NoValue
CHECK_DEADLOCK FALSE
INVARIANT ScopeIsTheLatestList
