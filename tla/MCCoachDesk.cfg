CONSTANTS
  Call = {r1, r2}
  TrialEnds = 0
  Grace = 1
  MaxDay = 3
  Squad = {t1, t2}
  Coached = {t1}
  Marker = {r1, r2}
  Week = 2
  LastDay = 2
  MaxEvent = 3
  MaxSeries = 2
  File = {x1, x2}
  MaxVideo = 2
  Tab = {r1, r2}
  MaxClip = 2
  MaxPlaylist = 1
  MaxAnnotation = 1
  MaxShare = 2
  Sender = {r1, r2}
  ChatTeam = {x1, x2}
  HistoryLimit = 4
  MaxTurn = 3
  Coach = {c1}
  Device = {d1}
  Meeting = {t1}
  PushRun = {r1, r2}
  DayHours = 3
  CapHours = 1
  DedupHours = 0
  Lead = 1
  After = 1
  MaxHour = 2
  Worker = {r1, r2}
  Skill = {x1, x2}
  MaxTeam = 2
  MaxPlayer = 2
  Game = {x1, x2}
  MaxEntry = 2
  Helper = {r1, r2}
  Trainer = {x1, x2}
  Topic = {t1}
  MaxRound = 2
  MaxToolCall = 2
  MaxAsk = 2
  Seeker = {r1, r2}
  Tenant = {x1, x2}
  Question = {t1}
  Webpage = {t1, t2, c1}
  Trusted = {t1}
  Shunned = {t2}
  MaxFetch = 2
  CacheMax = 2
  LastHour = 1
  Upload = {r1, r2}
  Uploader = {x1, x2}
  MaxFiles = 2
  MaxUpload = 2
  Ingester = {r1, r2}
  Document = {x1, x2}
  Batches = 2
  MaxEdit = 2
  MaxRun = 2
  Editor = {r1, r2}
  Planner = {x1, x2}
  Court = {t1}
  Drawing = {t1, t2}
  MaxPlay = 1
  MaxPass = 1
  Looker = {c1}
  FewPlayers = 1
  FullRoster = 2
SPECIFICATION DeskSpec
SYMMETRY DeskSymmetry
CHECK_DEADLOCK FALSE
INVARIANTS
  DeskTypeOK
  FilesAreKept
  SharesReused
  CoachesSeeTheirOwn
PROPERTIES
  DeletionsStayInBounds
  RemindersSpaced
  RecordsKept
