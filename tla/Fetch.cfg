SPECIFICATION Spec
CONSTANTS
    Docs = {1, 2, 3, 5, 7}
    Tagged = {1}
    PageOf <- MCPageOf
    Ttl = 1
    NoEntry = NoEntry
    Foreign = Foreign
    NoSheet = NoSheet
    NoForm = NoForm
    Clubs = {"a", "b", "c"}
    LeagueIn <- MCLeagueIn
    StatsTtl = 1
    StatsMaxAge = 1
    MinMatches = 3
    MinLeagueTeams = 3
    Scale = 1000
    Source = "source"
    Form <- MCForm
    NeedsSheet = {1, 2}
    ClubPermits = 2
    HostPermits = 1
    Attempts = 2
    ApiAttempts = 2
    PageLimit = 3
    FeedPages = 2
    ChunkSize = 2
    NoPage = NoPage
    Explicit = 0
    Since = 2
    Opening = 2
    Until = 5
    Today = 5
    Tolerated = 1
    ClubKey <- MCClubKey
    Agendas <- MCAgendas
    InitialDocs <- MCLive
    InitialDisks <- MCDisks
    MaxNow = 1
    Alike <- MCAlike
    NonClubs = {"free agent"}
    Window = 3
CHECK_DEADLOCK FALSE
INVARIANTS
    NothingInvented
    TrustedMovesKept
    ScansAreFaithful
PROPERTIES
    ResultsAreCurrent
    CancelEnds
    ScrapeEnds
