SPECIFICATION Spec
CONSTANTS
    a1 = a1
    a2 = a2
    a3 = a3
    a4 = a4
    a5 = a5
    b1 = b1
    b2 = b2
    b3 = b3
    b4 = b4
    b5 = b5
    c1 = c1
    c2 = c2
    c3 = c3
    c4 = c4
    c5 = c5
    x1 = x1
    x2 = x2
    x3 = x3
    n1 = n1
    Lists <- MCLists
    Abroad <- MCAbroad
    Is <- MCIs
    Alike <- MCAlike
    Apart = {}
    Legacy <- MCLegacy
    Squads <- MCSquads
    Telling <- MCTelling
    Unreadable = Unreadable
    NotRead = NotRead
    Other <- MCOther
    Home <- MCHome
    Country <- MCCountry
    Cup = 99
    Samples = 3
    MinAnswers = 2
    MinBound = 3
    MaxCandidates = 2
    MaxSwaps = 3
    Sizes = {3, 4, 5}
    Faults <- MCFaults
    Exchanges <- MCExchanges
    MaxSeasons = 1
INVARIANTS
    BoundAsSeen
PROPERTIES
    MovesAreRight
    SwapsAreMade
