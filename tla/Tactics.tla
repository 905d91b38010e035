------------------------------ MODULE Tactics ------------------------------
(***************************************************************************)
(* The game-plan settings a scrape derives from the statistics of FotMob's *)
(* leagues (fl-sources/src/tactics.rs), and the file they are cached in. A *)
(* table gives each metric the teams' samples, a value and the matches it  *)
(* is from; an entry of the cache has the table, the time it was fetched   *)
(* and whether a part of it is missing. Shares are in units of 1 / Scale,  *)
(* fine enough for the values compared.                                    *)
(***************************************************************************)
EXTENDS Integers, Sequences, SequencesExt, FiniteSetsExt, Functions

CONSTANTS
    StatsTtl,     \* CACHE_TTL
    StatsMaxAge,  \* CACHE_MAX_AGE
    MinMatches, MinLeagueTeams, Scale

ASSUME TacticsAssumption == {StatsTtl, StatsMaxAge, MinMatches, MinLeagueTeams, Scale} \subseteq Nat \ {0}

\* entry_metric: the teams of a table with a sample of enough matches.
Sampled(table, metric) ==
    IF metric \notin DOMAIN table THEN {}
    ELSE {t \in DOMAIN table[metric] : table[metric][t].matches >= MinMatches}

Level(table, metric) == [t \in Sampled(table, metric) |-> table[metric][t]]

\* A share of the passes, of teams whose two samples are from as many matches.
Share(table, metric) ==
    LET both == {t \in Sampled(table, metric) \cap Sampled(table, "passes") :
                    table[metric][t].matches = table["passes"][t].matches /\ table["passes"][t].value > 0}
    IN  [t \in both |-> [table[metric][t] EXCEPT !.value = (Scale * @) \div table["passes"][t].value]]

Evidence(table, of) ==
    LET level == Level(table, of)
    IN  IF of \in {"long_balls", "crosses"} THEN Share(table, of)
        ELSE Restrict(level, {t \in DOMAIN level : of = "possession" => level[t].value <= 100})

\* Each setting: what it is decided by, and the values for few and for much.
Basis == [attacking_style |-> [of |-> "possession", low |-> 0, high |-> 1],
          build_up |-> [of |-> "long_balls", low |-> 1, high |-> 0],
          attacking_area |-> [of |-> "crosses", low |-> 1, high |-> 0],
          defensive_style |-> [of |-> "final_third_wins", low |-> 1, high |-> 0],
          containment_area |-> [of |-> "crosses", low |-> 0, high |-> 1],
          pressuring |-> [of |-> "final_third_wins", low |-> 1, high |-> 0],
          defensive_line |-> [of |-> "final_third_wins", low |-> 1, high |-> 10]]

\* Four times the first or third quartile, interpolated.
Quartile(ordered, quarter) ==
    LET at == quarter * (Len(ordered) - 1)
        k == at \div 4 + 1
    IN  IF at % 4 = 0 THEN 4 * ordered[k]
        ELSE (4 - (at % 4)) * ordered[k] + (at % 4) * ordered[k + 1]

\* The extremes of a league decide, and nobody else.
QuartileDecisions(values, low, high) ==
    LET teams == SetToSortSeq(DOMAIN values, LAMBDA a, b : values[a].value < values[b].value)
        ordered == [i \in DOMAIN teams |-> values[teams[i]].value]
        first == Quartile(ordered, 1)
        third == Quartile(ordered, 3)
    IN  IF Cardinality(DOMAIN values) < MinLeagueTeams \/ first >= third THEN <<>>
        ELSE [t \in {x \in DOMAIN values : 4 * values[x].value >= third \/ 4 * values[x].value <= first} |->
                 IF 4 * values[t].value >= third THEN high ELSE low]

\* From low to high in proportion, rounded.
SliderDecisions(values, low, high) ==
    LET all == {values[t].value : t \in DOMAIN values}
        spread == Max(all) - Min(all)
    IN  IF Cardinality(DOMAIN values) < MinLeagueTeams \/ Cardinality(all) < 2 THEN <<>>
        ELSE [t \in DOMAIN values |-> low + (2 * (high - low) * (values[t].value - Min(all)) + spread) \div (2 * spread)]

Decided(table, setting) ==
    LET by == Basis[setting]
    IN  IF setting = "defensive_line" THEN SliderDecisions(Evidence(table, by.of), by.low, by.high)
        ELSE QuartileDecisions(Evidence(table, by.of), by.low, by.high)

\* league_decisions: the settings of each team that has any, and the smallest
\* number of matches one of them rests on.
Decisions(table) ==
    LET by == [s \in DOMAIN Basis |-> Decided(table, s)]
        Of(t) == {s \in DOMAIN Basis : t \in DOMAIN by[s]}
    IN  [t \in UNION {DOMAIN by[s] : s \in DOMAIN Basis} |->
            [settings |-> [s \in Of(t) |-> by[s][t]],
             matches |-> Min({table[Basis[s].of][t].matches : s \in Of(t)})]]

----------------------------------------------------------------------------
\* Mutant: a table with missing parts is as good as a whole one.
StatsFreshAnyway(entry, now) == now - entry.at \in 0..(StatsTtl - 1)
StatsFresh(entry, now) == now - entry.at \in 0..(StatsTtl - 1) /\ ~entry.partial

Unread == [at |-> "league", left |-> {}, table |-> <<>>, partial |-> FALSE]

\* The leagues of the clubs wanted: those with a fresh entry are read already.
AskedFor(leagues, cache, now) ==
    [l \in leagues |-> IF l \in DOMAIN cache /\ StatsFresh(cache[l], now)
                       THEN [Unread EXCEPT !.at = "cached", !.table = cache[l].table] ELSE Unread]

Pending(asked) == {l \in DOMAIN asked : asked[l].at \in {"league", "stats"}}

\* With its last statistic a league is read, or lost if none gave any team.
Counted(league) ==
    IF league.left # {} THEN league
    ELSE [league EXCEPT !.at = IF \E m \in DOMAIN league.table : league.table[m] # <<>> THEN "read" ELSE "lost"]

LeagueRead(league, table) ==
    IF table = <<>> THEN [league EXCEPT !.at = "lost"] ELSE [league EXCEPT !.at = "stats", !.left = DOMAIN table]

StatRead(league, metric, table) ==
    Counted([league EXCEPT !.left = @ \ {metric}, !.table = @ @@ (metric :> table[metric])])
StatMiss(league, metric) == Counted([league EXCEPT !.left = @ \ {metric}, !.partial = TRUE])

\* The next states of one league when a request is answered, or is not.
LeagueReads(league, table) ==
    IF league.at = "league" THEN {LeagueRead(league, table)} ELSE {StatRead(league, m, table) : m \in league.left}
LeagueMisses(league) ==
    IF league.at = "league" THEN {[league EXCEPT !.at = "lost"]} ELSE {StatMiss(league, m) : m \in league.left}

\* What is decided for the clubs: targets gives each its league.
Updates(targets, asked) ==
    LET by == [l \in {x \in DOMAIN asked : asked[x].at \in {"read", "cached"}} |-> Decisions(asked[l].table)]
        sure == {c \in DOMAIN targets : targets[c] \in DOMAIN by /\ c \in DOMAIN by[targets[c]]}
    IN  [c \in sure |-> by[targets[c]][c]]

\* What is left in the cache: what was read just now, and what is not too old.
Remembered(cache, asked, now) ==
    LET read == {l \in DOMAIN asked : asked[l].at = "read"}
        new == [l \in read |-> [at |-> now, table |-> asked[l].table, partial |-> asked[l].partial]]
        all == new @@ cache
    IN  Restrict(all, {l \in DOMAIN all : StatsFresh(all[l], now) \/ now - all[l].at <= StatsMaxAge})
=============================================================================
