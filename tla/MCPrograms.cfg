SPECIFICATION Spec
CONSTANTS
  Nil = Nil
  Spatial = Spatial
  Daemon = Daemon
  Monitors = {m1, m2}
  Apps = {term}
  Commands = {c1}
  Callers = {a, b}
  Networks = {home, cafe}
  Servers = {s1}
  Messages = {message}
  Pictures = {p, q}
  Events = {e1}
  Flows = {1, 2}
  Paired = {1, 2}
  Speakers = {1, 2}
  Alerts = {1, 2}
  Clients = {1, 2, 3}
  Selectable = {"f", "g"}
  Destinations = {"docs", "pics"}
  HomeFolders = {"docs", "pics"}
  Pids = {2, 3}
  Games = {10, 20}
  Ancestry = 2
  Strengths = {1, 2, 3}
  MaxPoints = 3
  FieldLength = 2
  HtmlTokens = 4
  TextLines = 4
  Moments = {1, 2}
  ListLimits = {1, 2}
  Launchers = {"x.desktop", "y.desktop"}
  Identities = {"Name", "Twin"}
  OwnRecents = 1
  Bookmarks = 3
  Launches = 2
  ProgramDirs = 2
  PageTTL = 1
  StaleTTL = 3
  Retention = 3
  SystemTTL = 1
  IpTTL = 2
  SeenTTL = 1
  MaxClock = 4
  MaxClears = 1
  MaxKills = 1
  MaxPlugs = 1
  MaxPastes = 3
  MaxExtractions = 3
  MaxTrashRuns = 4
  MaxTrashKills = 2
  UnitsPerDay = 3
  LongestSample = 2
  MaxTime = 6
  MaxEnds = 2
  MaxClients = 3
  MaxSteps = 3
  MaxChanges = 1
  MaxFolders = 2
  MaxIdentities = 2
  MaxQuestions = 2
INVARIANTS
  NetworkIsTold RightIconIsFound RightPictureIsThere TimeIsCountedOnce
   QueriesAreRight MailIsTrue BodiesAreSound CardsAreSound
PROPERTIES
  AnswersAreRecent  RequestsAreAnswered
  AutoconnectObeys  PastesAreMeant  TrashIsRight
\* Pure queries and answers end, and so do programs that have used up a bound.
CHECK_DEADLOCK FALSE
