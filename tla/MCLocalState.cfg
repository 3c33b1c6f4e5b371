SPECIFICATION PartsSpec
CONSTANTS
    MaxFileBytes = 18
    MaxLineBytes = 4
    MaxLines = 5
    MaxStoredTurns = 2
    MarkSize = 2
    TurnSizes <- SmallTurnSizes
    MaxTurns = 4
    MaxSequence = 7
    Updaters = {u1, u2}
    Releases <- MCReleases
    PerPage = 3
    MaxPages = 2
    MaxStale = 2
    MaxStarts = 3
    MaxKills = 1
    Processes = {p1, p2}
    Archives <- MCArchives
    Found = {"none", "other", "broken"}
    MaxMemberBytes = 2
    MaxTotalBytes = 3
    MaxAttempts = 3
    MaxDeaths = 1
    Shells = {s1, s2}
    Drafts <- MCDrafts
    Models = {m1}
    MaxAppointments = 2
    MaxShells = 2
    MaxOperations = 3
    MaxDirectories = 2
INVARIANTS
    KeepsNewestTurns
    RoomMeansReadable
    InstalledIsVerified
    NoTemporaryIsLeft
    InstalledStaysInstalled
    NothingConfirmedIsLost
PROPERTY
    ImplementsSessionLog
CHECK_DEADLOCK FALSE
