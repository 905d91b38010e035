---------------------------- MODULE ScanPromises ----------------------------
(***************************************************************************)
(* What a scan of a provider promises, said of the whole site and not of   *)
(* the requests that read it: Offered is every move the site shows in the  *)
(* range of dates, Honest a site that keeps the order its reader counts    *)
(* on, Faithful a scan that made nothing up and, if no request came to     *)
(* nothing on such a site, left nothing out.                               *)
(***************************************************************************)
EXTENDS Scans

AllRows(pages) == UNION {Range(pages[i]) : i \in DOMAIN pages}

\* What the readers show of a page: the site's rows, or if none the mirror's.
Whole(s) ==
    LET last == Max({Len(s.site.pages), Len(s.site.mirror)})
        At(pages, k) == IF k \in DOMAIN pages THEN pages[k] ELSE <<>>
    IN  [k \in 1..last |-> IF At(s.site.pages, k) = <<>> THEN At(s.site.mirror, k) ELSE s.site.pages[k]]
MarketRow(r) == "" \notin {r.who, r.from, r.to} /\ 0 \notin {r.day, r.event}
MarketOffers(pages) ==
    {Move("transfermarkt", r, r.from, r.to, r.day, FALSE) :
        r \in {x \in AllRows(pages) : MarketRow(x) /\ InRange(x.day)}}

SoccerwayRows(s, i) ==
    LET id == CandidateTeam(s.site.search[s.clubs[i]], s.clubs[i])
        pages == IF id = 0 THEN <<>> ELSE FeedOf(s.site, id)
    IN  UNION {Range(SoccerwayMoves(pages[k], s.clubs[i], id)) : k \in (1..FeedPages) \cap DOMAIN pages}
SoccerwayOffers(s) == UNION {SoccerwayRows(s, i) : i \in DOMAIN s.clubs}

\* The heading of a line is the nearest above it.
Under(lines, i, h) ==
    /\ h < i /\ lines[h].who = "" /\ lines[h].day # 0
    /\ \A j \in (h + 1)..(i - 1) : lines[j].who # "" \/ lines[j].day = 0
BesoccerLines(lines) == {p \in (DOMAIN lines) \X (DOMAIN lines) :
    Under(lines, p[1], p[2]) /\ InRange(lines[p[2]].day) /\ lines[p[1]].type \in {"loan", "free", "libre", "transfer"}}
BesoccerRoute(l, h) == <<l.who, IF l.type = "libre" THEN FreeAgent ELSE l.from, l.to, h.day>>
BesoccerOffers(lines) ==
    {e \in {BesoccerRoute(lines[p[1]], lines[p[2]]) : p \in BesoccerLines(lines)} : "" \notin {e[1], e[2], e[3]}}

\* The line that holds for line i of a list, and the row that dates row i.
Above(lines, i, kinds, between) ==
    {h \in 1..(i - 1) : lines[h].kind \in kinds /\ \A j \in (h + 1)..(i - 1) : lines[j].kind \notin between}
ListMove(line, heading, side) ==
    Move("wikipedia", line, IF side = "in" THEN line.club ELSE heading, IF side = "in" THEN heading ELSE line.club, 0, FALSE)
ListOffers(lines) ==
    LET Entry(i) == {ListMove(lines[i], lines[h].club, lines[d].kind) :
                        h \in Above(lines, i, {"heading"}, {"heading"}),
                        d \in Above(lines, i, {"in", "out"}, {"heading", "in", "out"})}
    IN  {m \in UNION {Entry(i) : i \in {k \in DOMAIN lines : lines[k].kind = "entry"}} :
            m.who # "" /\ m.from # m.to /\ "" \notin {m.from, m.to}}
Dating(table, i) ==
    IF ~table[i].spans THEN {table[i].day}
    ELSE {table[h].day : h \in {k \in 1..(i - 1) : table[k].day # 0 /\ \A j \in (k + 1)..(i - 1) : table[j].day = 0}}
TableOffers(table) ==
    UNION {{Move("wikipedia", table[i], table[i].from, table[i].to, d, FALSE) :
               d \in {x \in Dating(table, i) : x # 0 /\ x <= Today /\ x >= ScanStart}} :
           i \in {k \in DOMAIN table : /\ "" \notin {table[k].who, table[k].from, table[k].to}
                                       /\ table[k].from # table[k].to}}

\* Every men's page a category lists, each code by its name or as it is.
Pages(s) == {t \in UNION {Range(s.site.members[c]) : c \in DOMAIN s.site.members} : ~s.site.pages[t].women}
PageOffers(page) == ListOffers(page.lists) \cup TableOffers(page.table)
WikipediaOffers(s, names) == UNION {PageOffers(Expanded(s.site.pages[t], names)) : t \in Pages(s)}

Offered(s) ==
    CASE s.p = "feed" -> {FeedMove(i) : i \in {x \in AllRows(s.site) : Parsable(x) /\ Disposition(x.day) = "keep"}}
      [] s.p = "transfermarkt" -> MarketOffers(Whole(s))
      [] s.p = "sofascore" -> UNION {Range(ForClubs(SofascoreRows(s.site[i]), s.clubs)) :
                                        i \in {x \in DOMAIN s.site : s.site[x] # NoPage}}
      [] s.p = "soccerway" -> SoccerwayOffers(s)
      [] s.p = "wikipedia" -> UNION {WikipediaOffers(s, [c \in known |-> s.site.teams[c]]) : known \in SUBSET DOMAIN s.site.teams}
      [] s.p = "sortitoutsi" -> Range(SignalMoves(s.site))
      [] OTHER -> Range(s.found)

\* The newest first, and no page twice or without a row.
Sorted(pages) ==
    \A i, j \in DOMAIN pages : i < j => \A a \in Range(pages[i]), b \in Range(pages[j]) : a.day >= b.day
Honest(s) ==
    CASE s.p = "feed" -> \A i, j \in DOMAIN s.site : s.site[i] # <<>> /\ (i # j => s.site[i] # s.site[j])
      [] s.p = "transfermarkt" ->
            LET pages == Whole(s)
            IN  /\ Sorted(pages) /\ Len(pages) <= PageLimit
                /\ \A i \in DOMAIN pages : \E r \in Range(pages[i]) :
                       MarketRow(r) /\ \A j \in 1..(i - 1) : \A q \in Range(pages[j]) : q.event # r.event
      [] s.p = "sofascore" -> \A i, j \in DOMAIN s.site : s.site[i] = s.site[j] \/ NoPage \in {s.site[i], s.site[j]}
      [] s.p = "soccerway" -> \A id \in DOMAIN s.site.feeds :
            Sorted(s.site.feeds[id]) /\ \A k \in DOMAIN s.site.feeds[id] : s.site.feeds[id][k] # <<>>
      [] OTHER -> TRUE

Owed(s) ==
    IF s.p = "wikipedia" THEN WikipediaOffers(s, s.site.teams) ELSE Offered(s)

\* The tables of one league a scan may have gone by: a recent day's, and only
\* if a request came to nothing a part of it.
Tables(s, l) ==
    UNION {{Restrict(s.site[d][l], ms) : ms \in IF s.missed THEN SUBSET DOMAIN s.site[d][l] ELSE {DOMAIN s.site[d][l]}} :
           d \in {x \in DOMAIN s.site : x \in (s.mem.now - StatsTtl + 1)..s.mem.now}}
InLeague(s, l) == {c \in DOMAIN s.mem.targets : s.mem.targets[c] = l}

\* No more than a quarter of the teams are beyond a team whose setting is decided.
StandsOut(values, t, much) ==
    4 * Cardinality({u \in DOMAIN values : IF much THEN values[u].value > values[t].value
                                            ELSE values[u].value < values[t].value}) < Cardinality(DOMAIN values)
Justified(table, t, settings) ==
    \A k \in DOMAIN settings \ {"defensive_line"} :
        t \in DOMAIN Evidence(table, Basis[k].of)
        /\ StandsOut(Evidence(table, Basis[k].of), t, settings[k] = Basis[k].high)

\* The settings of a league's clubs are all from one table, and what it justifies.
StatsFaithful(s) ==
    \A l \in Range(s.mem.targets) : \E table \in Tables(s, l) :
        LET sure == Decisions(table)
            said == Settings(s)
        IN  /\ InLeague(s, l) \cap DOMAIN said = InLeague(s, l) \cap DOMAIN sure
            /\ \A c \in InLeague(s, l) \cap DOMAIN said : said[c] = sure[c]
            /\ \A t \in DOMAIN sure : Justified(table, t, sure[t].settings)

Same(t, u) == t.who = u.who /\ KeyOf(t.from) = KeyOf(u.from) /\ KeyOf(t.to) = KeyOf(u.to) /\ t.day = u.day

\* A provider that dates its events hands each on once.
OnceEach(s) == s.p \in {"transfermarkt", "sofascore", "soccerway", "besoccer"} =>
    Cardinality({Event(t) : t \in Range(s.found)}) = Len(s.found)

ReportsFaithful(s) ==
    /\ Range(s.found) \subseteq Offered(s) /\ OnceEach(s)
    /\ ~s.missed /\ Honest(s) => \A t \in Owed(s) : \E u \in Range(s.found) : Same(t, u)
    /\ s.p = "besoccer" => {Event(t) : t \in Range(s.found)} = BesoccerOffers(s.site)

Faithful(s) == IF s.p = "tactics" THEN StatsFaithful(s) ELSE ReportsFaithful(s)
=============================================================================
