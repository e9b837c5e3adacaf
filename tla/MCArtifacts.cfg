\* Three runs one after the other, two retention counts, a crash, a database
\* fault; two targets, three logs, two captures or baselines;
\* three downloads, one transfer at a time; a browser of two moves; two users, two logins;
\* three addresses of which two are kept, two requests, a minute, two turns or breaks;
\* texts of six characters in chunks of up to three.
SPECIFICATION ArtifactsSpec
CONSTANTS
  Runs = {r1, r2, r3}
  Prefixes = {1}
  Keeps = {1, 2}
  Together = 1
  MaxCrashes = 1
  MaxFaults = 1
  None = None
  Targets = {t, u}
  MaxLogs = 3
  MaxEvents = 1
  MaxCaptures = 2
  NoBaseline = none
  Downloads = {d1, d2, d3}
  Slots = 1
  Requests = {1, 2}
  Items = {x, y}
  MaxChanges = 1
  MaxBreaks = 1
  MaxMoves = 2
  Connected = Connected
  Failed = Failed
  Nobody = Nobody
  Nothing = Nothing
  Users = {a, b}
  MaxSessions = 1
  UserStreams = 2
  AddressStreams = 2
  MaxLogins = 2
  MaxAwaiting = 2
  MaxDeaths = 1
  Restores = {z}
  Sources = {s1, s2}
  Chosen = copy
  MaxOthers = 2
  Addresses = {ip1, ip2, ip3}
  MaxAddresses = 2
  MaxRecorded = 2
  MaxMinutes = 1
  MaxTurns = 2
  Alphabets <- AlphabetsMC
  MaxText = 6
  MaxChunk = 3
  MaxStatement = 5
SYMMETRY SymmetryMC
INVARIANTS ExpiredIsGone SuccessIsStored NewestConfirmedKept ContinuousHasEveryLog DownloadsAgree ViewAgrees SessionsAgree RestoreIsolated CutsDoNotMatter
CHECK_DEADLOCK FALSE
