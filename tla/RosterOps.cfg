SPECIFICATION Spec
CONSTANTS
    g1 = g1
    g2 = g2
    g3 = g3
    d1 = d1
    d2 = d2
    f1 = f1
    f2 = f2
    m1 = m1
    u1 = u1
    Nobody = Nobody
    Players <- MCPlayers
    Size = 5
    Starters = 3
    Matchday = 4
    MinKeepers = 1
    MaxNumber = 6
    PosOf <- MCPosOf
    Native <- MCNative
    Rated <- MCRated
    Rating <- MCRating
    Playable = {}
    Overall <- MCOverall
    Usage <- MCUsage
    Foot <- MCFoot
    Caps <- MCCaps
    Reserved = {}
    Protected = {}
    Priority <- MCPriority
    Clubs = {"A", "B"}
    InitialSaves <- MCSaves
    Forms <- MCForms
    Numbers = {1, 2}
    Supplied = {0, 12, 13}
    Candidates = {d1, g2}
    MaxSteps = 3
CHECK_DEADLOCK FALSE
INVARIANTS
    RostersSound
    RepairSettles
PROPERTIES
    LineupsStaySound
    PartsFollowPlayers
