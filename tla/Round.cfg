SPECIFICATION Spec
CONSTANTS
    Players <- MCPlayers
    Nobody = "nobody"
    Size = 4
    Starters = 2
    Matchday = 3
    MinKeepers = 1
    MaxNumber = 6
    PosOf <- MCPosOf
    Native <- MCNative
    Rated <- MCPlayers
    Rating <- MCRating
    Playable = {}
    Overall <- MCOverall
    Usage <- MCNone
    Foot <- MCFoot
    Caps <- MCNone
    Reserved = {}
    Protected = {}
    Priority <- MCPriority
    Clubs = {"A", "B", "C"}
    Outside = "outside"
    Unresolved = "unresolved"
    Fids <- MCFids
    ClubName <- MCClubName
    TeamOf <- MCTeamOf
    TeamNames <- MCTeamNames
    Affixed <- MCAffixed
    ClubAlike <- MCClubAlike
    NonClubs = {"free agent"}
    NoTeam = NoTeam
    NoFid = NoFid
    NamesOf <- MCNamesOf
    Alike <- MCAlike
    Suffixed = {}
    Age <- MCAge
    Nation <- MCNation
    NoNation = "unknown"
    Profile <- MCProfile
    Leads <- MCLeads
    OneWord <- MCOneWord
    NoSquad = NoSquad
    MinSquad = 2
    Gap = 3
    Today = 4
    MinRoster = 2
    InitialSaves <- MCSaves
    Feeds <- MCFeeds
    SquadSets <- MCSquadSets
    Logs <- MCLogs
    PartSets <- MCPartSets
    Shape <- MCShape
    Marker <- MCMarker
    NoShape = NoShape
    MaxShirt = 9
    MaxRounds = 6
CHECK_DEADLOCK FALSE
INVARIANTS
    AcceptedAsMade
    Settles
    PlanHolds
    EventsInOrder
    LiveSquadStays
    IdentityAgrees
    OnlyThePartsAsked
