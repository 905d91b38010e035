------------------------------- MODULE Scans -------------------------------
(***************************************************************************)
(* How each provider is read: which request follows an answer, or a        *)
(* request that came to nothing, and when the provider is done. A scan is  *)
(*   p        the provider;      site   what it would answer;              *)
(*   clubs    the clubs of interest (supplemental_target_clubs);           *)
(*   mem      where the scan is, of each provider its own;                 *)
(*   found    what it has collected;                                       *)
(*   end      "no", then "done", "failed" or "cancelled".                  *)
(* missed is history: whether a request came to nothing. Reads and Misses  *)
(* give the scans that may come next, several where the provider or the    *)
(* order of concurrent requests decides.                                   *)
(***************************************************************************)
EXTENDS Listings, Tactics

CONSTANTS
    PageLimit,  \* AUTO_PAGE_LIMIT
    FeedPages,  \* SOCCERWAY_DEFAULT_MAX_PAGES
    ChunkSize,  \* WIKIPEDIA_TITLES_PER_REQUEST (50)
    NoPage      \* an answer without a recognizable payload

ASSUME ScansAssumption == {PageLimit, FeedPages, ChunkSize} \subseteq Nat \ {0}

\* What a provider may answer: pages of rows, by number, place, team or title.
IsSite(p, site) ==
    CASE p = "feed" -> \A i \in DOMAIN site : IsTable(site[i])
      [] p = "transfermarkt" -> \A pages \in {site.pages, site.mirror} : \A i \in DOMAIN pages : IsTable(pages[i])
      [] p = "sofascore" -> \A i \in 1..6 : site[i] = NoPage \/ IsTable(site[i])
      [] p = "soccerway" -> \A id \in DOMAIN site.feeds : \A i \in DOMAIN site.feeds[id] : IsTable(site.feeds[id][i])
      [] p = "wikipedia" ->
            /\ \A c \in DOMAIN site.members : site.members[c] \in Seq(DOMAIN site.pages)
            /\ \A t \in DOMAIN site.pages :
                   LET page == site.pages[t]
                   IN  /\ DOMAIN page = {"women", "lists", "table", "codes"}
                       /\ IsTable(page.table) /\ page.lists \in Seq(Range(page.lists))
      [] p = "sortitoutsi" -> IsTable(site) /\ \A b \in Range(site) : b.starts \in Nat
      [] p = "besoccer" -> IsTable(site)
      [] OTHER -> TRUE

NoScan == [p |-> "none", site |-> <<>>, clubs |-> <<>>, mem |-> 0, found |-> <<>>, end |-> "no", missed |-> FALSE]

Done(s, found) == [s EXCEPT !.end = "done", !.found = found]
Broken(s, why) == [s EXCEPT !.end = why, !.found = <<>>]

\* The clubs of the dated transfers: where the player goes, or else comes from.
TargetClubs(ts) ==
    LET Of(t) == IF t.to \in NonClubs THEN t.from ELSE t.to
        named == Keep(ts, {t \in Range(ts) : t.day # 0 /\ Of(t) # "" /\ Of(t) \notin NonClubs})
        clubs == [i \in DOMAIN named |-> Of(named[i])]
    IN  Firsts(clubs, clubs)

----------------------------------------------------------------------------
\* The feed: page after page until one is empty or was seen before.
FeedRead(s) ==
    LET page == s.mem.page
        items == IF page \in DOMAIN s.site THEN s.site[page] ELSE <<>>
    IN  IF items = <<>> \/ items \in s.mem.seen THEN Done(s, s.found)
        ELSE IF Unusable(items) \/ page = PageLimit THEN Broken(s, "failed")
        ELSE [s EXCEPT !.mem = [page |-> page + 1, seen |-> @.seen \cup {items}], !.found = @ \o FeedMoves(items)]

----------------------------------------------------------------------------
\* Transfermarkt: a page is asked for through three readers, the first page in
\* two rounds; the third reader shows the mirror.
Readers(page) == IF page = 1 THEN 6 ELSE 3
Shown(s) == IF s.mem.try % 3 = 0 THEN s.site.mirror ELSE s.site.pages
MarketPage(s) == IF s.mem.page \in DOMAIN Shown(s) THEN MarketRows(Shown(s)[s.mem.page]) ELSE <<>>

MarketDone(s, rows) == Done(s, MarketMoves(rows))

\* No reader left: an error if nobody answered for the first page, else the end.
MarketNext(s, why) ==
    IF s.mem.try < Readers(s.mem.page) THEN [s EXCEPT !.mem.try = @ + 1]
    ELSE IF s.mem.page = 1 /\ ~s.mem.answered THEN Broken(s, why)
    ELSE MarketDone(s, s.mem.rows)

TurnPage(s, rows, seen) ==
    IF s.mem.page = PageLimit THEN MarketDone(s, rows)
    ELSE [s EXCEPT !.mem = [page |-> @.page + 1, try |-> 1, answered |-> FALSE, rows |-> rows, seen |-> seen]]

\* Mutant: a page without an event in the range ends the scan.
NothingWanted(batch, eligible) == eligible = <<>>
TooOld(batch, eligible) == eligible = <<>> /\ Since # 0 /\ \A r \in Range(batch) : r.day < Since

\* Events in the range go on; a page ends the scan if it was seen before or all
\* its events are too old, and with events in the range that are all known.
MarketRead(s) ==
    LET batch == MarketPage(s)
        events == {r.event : r \in Range(batch)}
        eligible == Keep(batch, {r \in Range(batch) : InRange(r.day)})
        known == {r.event : r \in Range(s.mem.rows)}
        fresh == Keep(eligible, {r \in Range(eligible) : r.event \notin known})
    IN  IF batch = <<>> THEN MarketNext([s EXCEPT !.mem.answered = TRUE], "failed")
        ELSE IF \/ events \subseteq s.mem.seen
                \/ TooOld(batch, eligible)
                \/ eligible # <<>> /\ fresh = <<>>
        THEN MarketDone(s, s.mem.rows)
        ELSE TurnPage(s, s.mem.rows \o fresh, s.mem.seen \cup events)

----------------------------------------------------------------------------
\* Sofascore: places in order, the third of them twice; the first payload is it.
Places == <<1, 2, 3, 3, 4, 5, 6>>

SofascoreNext(s) == IF s.mem < Len(Places) THEN [s EXCEPT !.mem = @ + 1] ELSE Broken(s, "failed")
SofascoreRead(s) ==
    LET rows == s.site[Places[s.mem]]
    IN  IF rows = NoPage THEN SofascoreNext(s) ELSE Done(s, ForClubs(SofascoreRows(rows), s.clubs))

----------------------------------------------------------------------------
\* Soccerway: for each club a search and then the pages of its feed, several
\* clubs at a time and each on its own; a club that fails is left out.
Looking(s) == {i \in DOMAIN s.mem : s.mem[i].at \in {"search", "feed"}}

Gathered(s) == FirstEvents(Joined([i \in DOMAIN s.mem |-> IF s.mem[i].at = "done" THEN s.mem[i].moves ELSE <<>>]))
SoccerwayDone(s) == IF Looking(s) = {} THEN Done(s, Gathered(s)) ELSE s

SearchRead(s, i) ==
    LET id == CandidateTeam(s.site.search[s.clubs[i]], s.clubs[i])
    IN  IF id = 0 THEN [s EXCEPT !.mem[i].at = "lost"]
        ELSE [s EXCEPT !.mem[i] = [at |-> "feed", page |-> 1, id |-> id, moves |-> <<>>]]

FeedOf(site, id) == IF id \in DOMAIN site.feeds THEN site.feeds[id] ELSE <<>>

TeamFeedRead(s, i) ==
    LET club == s.mem[i]
        pages == FeedOf(s.site, club.id)
        rows == IF club.page \in DOMAIN pages THEN pages[club.page] ELSE <<>>
        moves == club.moves \o SoccerwayMoves(rows, s.clubs[i], club.id)
    IN  IF rows = <<>> \/ ReachesBack(rows) \/ club.page = FeedPages
        THEN [s EXCEPT !.mem[i] = [club EXCEPT !.at = "done", !.moves = moves]]
        ELSE [s EXCEPT !.mem[i] = [club EXCEPT !.page = @ + 1, !.moves = moves]]

SoccerwayRead(s, i) == SoccerwayDone(IF s.mem[i].at = "search" THEN SearchRead(s, i) ELSE TeamFeedRead(s, i))
SoccerwayMiss(s, i) == SoccerwayDone([s EXCEPT !.mem[i].at = "lost"])

\* The source's deadline: finished clubs stay, in the order they were asked for.
OutOfTime(s) == Done([s EXCEPT !.missed = TRUE], Gathered(s))

----------------------------------------------------------------------------
\* Wikipedia: the categories one by one, then their men's pages in chunks, and
\* after a chunk the names of the codes not known yet. A query goes on while
\* the answer says where from; an answer that says a place again is an error.
Chunk(ts) == SubSeq(ts, 1, Min({ChunkSize, Len(ts)}))
Later(ts) == SubSeq(ts, Min({ChunkSize, Len(ts)}) + 1, Len(ts))

Members(s) == IF Head(s.mem.todo) \in DOMAIN s.site.members THEN s.site.members[Head(s.mem.todo)] ELSE <<>>
Listed(s) == IF s.mem.phase = "category" THEN Members(s) ELSE Chunk(s.mem.titles)

Query(m) == [m EXCEPT !.from = 1, !.places = {}, !.part = <<>>]

MensPages(s, titles) == Keep(Firsts(titles, titles), {t \in Range(titles) : ~s.site.pages[t].women})

PagesPhase(s, m) == IF m.titles = <<>> THEN Done(s, s.found) ELSE [s EXCEPT !.mem = Query([m EXCEPT !.phase = "pages"])]

EndCategory(s, titles) ==
    LET m == [s.mem EXCEPT !.todo = Tail(@), !.titles = @ \o titles]
    IN  IF m.todo # <<>> THEN [s EXCEPT !.mem = Query(m)]
        ELSE PagesPhase(s, [m EXCEPT !.titles = MensPages(s, @)])

EndChunk(s, pages, names) ==
    LET moves == Joined([i \in DOMAIN pages |-> PageMoves(s.site.pages[pages[i]], names)])
    IN  PagesPhase([s EXCEPT !.found = @ \o moves], [s.mem EXCEPT !.titles = Later(@), !.names = names])

Codes(s, pages) == UNION {s.site.pages[t].codes : t \in Range(pages)} \ DOMAIN s.mem.names

EndQuery(s, items) ==
    IF s.mem.phase = "category" THEN EndCategory(s, items)
    ELSE IF Codes(s, items) = {} THEN EndChunk(s, items, s.mem.names)
    ELSE [s EXCEPT !.mem.phase = "teams", !.mem.part = items]

QueryRead(s, upto, next) ==
    LET part == s.mem.part \o SubSeq(Listed(s), s.mem.from, upto)
    IN  IF next = 0 THEN EndQuery(s, part)
        ELSE [s EXCEPT !.mem.part = part, !.mem.from = next, !.mem.places = @ \cup {next}]

TeamsRead(s) ==
    LET known == Codes(s, s.mem.part) \cap DOMAIN s.site.teams
    IN  EndChunk(s, s.mem.part, [c \in known |-> s.site.teams[c]] @@ s.mem.names)

\* A category or a chunk whose query fails is left out, names that are not
\* expanded stay codes.
WikipediaMiss(s) ==
    IF s.mem.phase = "category" THEN EndCategory(s, <<>>)
    ELSE IF s.mem.phase = "pages" THEN PagesPhase(s, [s.mem EXCEPT !.titles = Later(@)])
    ELSE EndChunk(s, s.mem.part, s.mem.names)

Missing(s) == [s EXCEPT !.missed = TRUE]

WikipediaReads(s) ==
    IF s.mem.phase = "teams" THEN {TeamsRead(s)}
    ELSE LET last == Len(Listed(s))
         IN  {QueryRead(s, last, 0)} \cup {QueryRead(s, u, u + 1) : u \in s.mem.from..(last - 1)}
             \cup (IF s.mem.places = {} THEN {} ELSE {WikipediaMiss(Missing(s))})

----------------------------------------------------------------------------
\* Tactics: for each league its page and then its statistics, all at a time. The
\* site tells what FotMob shows on each day; targets has the clubs' leagues. At the
\* end Settings is what is handed on, no transfer among it.
StatsDone(s) == IF Pending(s.mem.asked) = {} THEN Done(s, <<>>) ELSE s
Settings(s) == Updates(s.mem.targets, s.mem.asked)

StatsNext(s, l, nexts) == {StatsDone([s EXCEPT !.mem.asked[l] = next]) : next \in nexts}
StatsReads(s) ==
    UNION {StatsNext(s, l, LeagueReads(s.mem.asked[l], s.site[s.mem.now][l])) : l \in Pending(s.mem.asked)}
StatsMisses(s) == UNION {StatsNext(s, l, LeagueMisses(s.mem.asked[l])) : l \in Pending(s.mem.asked)}

OpenStats(site, targets, cache, now) ==
    StatsDone([NoScan EXCEPT !.p = "tactics", !.site = site,
                  !.mem = [now |-> now, targets |-> targets, asked |-> AskedFor(Range(targets), cache, now)]])

----------------------------------------------------------------------------
\* Sortitoutsi and BeSoccer have one page.
PageRead(s) == Done(s, IF s.p = "sortitoutsi" THEN SignalMoves(s.site) ELSE BesoccerMoves(s.site))

Reads(s) ==
    CASE s.p = "feed" -> {FeedRead(s)}
      [] s.p = "transfermarkt" -> {MarketRead(s)}
      [] s.p = "sofascore" -> {SofascoreRead(s)}
      [] s.p = "soccerway" -> {SoccerwayRead(s, i) : i \in Looking(s)}
      [] s.p = "wikipedia" -> WikipediaReads(s)
      [] s.p = "tactics" -> StatsReads(s)
      [] OTHER -> {PageRead(s)}

\* A request that came to nothing, or that a cancel request ended: with several
\* places or clubs to ask that is an answer like another, else the scan's end.
Misses(s, why) ==
    LET m == Missing(s)
    IN  CASE s.p = "transfermarkt" -> {MarketNext(m, why)}
          [] s.p = "sofascore" -> {SofascoreNext(m)}
          [] s.p = "soccerway" -> {SoccerwayMiss(m, i) : i \in Looking(m)}
          [] s.p = "wikipedia" /\ why = "failed" -> {WikipediaMiss(m)}
          [] s.p = "tactics" /\ why = "failed" -> StatsMisses(m)
          [] OTHER -> {Broken(m, why)}

\* Without clubs of interest two of the providers are not asked at all.
Opened(p, site, clubs, todo) ==
    LET s == [NoScan EXCEPT !.p = p, !.site = site, !.clubs = clubs]
        searched == Keep(clubs, {c \in Range(clubs) : c \notin NonClubs})
    IN  CASE p = "feed" -> [s EXCEPT !.mem = [page |-> 1, seen |-> {}]]
          [] p = "transfermarkt" ->
                [s EXCEPT !.mem = [page |-> 1, try |-> 1, answered |-> FALSE, rows |-> <<>>, seen |-> {}]]
          [] p = "sofascore" -> IF clubs = <<>> THEN Done([s EXCEPT !.mem = 1], <<>>) ELSE [s EXCEPT !.mem = 1]
          [] p = "soccerway" ->
                SoccerwayDone([s EXCEPT !.clubs = searched,
                    !.mem = [i \in DOMAIN searched |-> [at |-> "search", page |-> 1, id |-> 0, moves |-> <<>>]]])
          [] p = "wikipedia" ->
                [s EXCEPT !.mem = [phase |-> "category", todo |-> todo, from |-> 1, places |-> {}, part |-> <<>>,
                                   titles |-> <<>>, names |-> <<>>]]
          [] OTHER -> s
=============================================================================
