------------------------------ MODULE Leagues ------------------------------
(***************************************************************************)
(* Promotion and relegation (fl-engine/src/pipeline/leagues.rs): after its *)
(* transfer rounds a run swaps clubs of neighbouring divisions that play   *)
(* in each other's league this season. FotMob is asked which league a few  *)
(* clubs of each division play in, then for the tables of those leagues    *)
(* (fl-sources/src/leagues.rs); the save refuses a proposal that loses a   *)
(* club (fl-save/src/league.rs).                                           *)
(*                                                                         *)
(* Between runs seasons pass, in which clubs change league, some of them   *)
(* for a league without a division. A team's league is its slot in the     *)
(* real world, so that a league keeps its size.                            *)
(*                                                                         *)
(* Which FotMob team a club is, is ClubIdentity's index: a run builds it   *)
(* from names and from the cache of its save, learns from live squads and  *)
(* writes the cache (pipeline/mod.rs, context.rs) before it asks for       *)
(* leagues. Runs on another save share the file.                           *)
(***************************************************************************)
EXTENDS Sequences, SequencesExt, ClubIdentity

CONSTANTS
    Lists,          \* the divisions of the save, sequences of clubs
    Abroad,         \* clubs in no division; an update of the game may drop them
    Is,             \* the club a FotMob team is, or none; teams are numbers
    Squads,         \* the live squads a run may get
    Telling,        \* those that are the squad of one club
    Unreadable,     \* a cache that is no JSON
    NotRead,
    Other,          \* what a run on another save has learned
    Home,           \* the league a team plays in at first, a number
    Country,        \* of a league
    Cup,            \* a competition that is no league table
    Samples,        \* SAMPLES_PER_DIVISION
    MinAnswers, MinBound, MaxCandidates, MaxSwaps,
    Sizes,          \* DIVISION_SIZES
    Faults,         \* what may be wrong with the answers a run gets
    Exchanges,      \* bound: clubs that change places in one season
    MaxSeasons      \* bound: seasons that pass

Divisions == DOMAIN Lists
ClubsOf(lists) == UNION {Range(lists[d]) : d \in Divisions}
Clubs == ClubsOf(Lists) \cup Abroad
Leagues == DOMAIN Country

ASSUME LeaguesAssumption ==
    /\ DOMAIN Is \subseteq Nat /\ Home \in [DOMAIN Is -> Leagues] /\ Cup \notin Leagues
    /\ Samples \in Nat \ {0, 1} /\ MinBound \in Nat \ {0}

\* The league a division stands for.
LeagueOf(d) == Home[CHOOSE t \in DOMAIN Is : Is[t] = Head(Lists[d])]

NoClubTwice(lists) ==
    \A d, e \in Divisions : \A i \in DOMAIN lists[d], j \in DOMAIN lists[e] :
        lists[d][i] = lists[e][j] => <<d, i>> = <<e, j>>

\* No club of the save is in two divisions, and no league in the real world is
\* that of two.
ASSUME ListsAssumption ==
    /\ Lists \in Seq(Seq(ClubsOf(Lists))) /\ NoClubTwice(Lists)
    /\ \A d, e \in Divisions : d # e => LeagueOf(d) # LeagueOf(e)

\* Two teams are two clubs. The squads that tell are found to be those of their
\* clubs, while the save has them, and the others of no club.
ASSUME SquadsAssumption ==
    /\ \A t, u \in DOMAIN Is : Is[t] = Is[u] => t = u
    /\ IsFiniteSet(Squads) /\ Telling \subseteq Squads /\ {s.team : s \in Telling} \subseteq DOMAIN Is
    /\ \A s \in Squads, gone \in {{}, Abroad} :
          Recognised(s, Clubs \ gone) = IF s \in Telling THEN {Is[s.team]} \cap (Clubs \ gone) ELSE {}

ASSUME NamesAssumption ==
    IsFiniteSet(Abroad) /\ \A c \in Clubs : IsFiniteSet(DOMAIN Alike[c])

VARIABLES
    divisions,  \* the league lists of the save
    plays,      \* the league each team plays in this season
    stage,      \* of the run: "idle", "open", "saving", "leagues"
    index,      \* its ClubIdentityIndex
    known,      \* the bindings it knows from squads, its own and earlier ones
    cache,      \* of each save, what club_identity_cache.json has, or Unreadable
    copies,     \* of each save, what a run has read and not yet written
    moves,      \* the moves the run reported: club and new division
    settled,    \* the run had every answer it asked for
    seasons     \* that passed

leagueVars == <<divisions, plays, moves, settled, seasons>>
identityVars == <<stage, index, known, cache, copies>>
vars == <<leagueVars, identityVars>>

Saves == {"this", "other"}
NoCache == [s \in Saves |-> <<>>]

NoFaults == [silent |-> {}, cup |-> {}, refused |-> {}]

Init ==
    /\ divisions = Lists
    /\ plays = Home
    /\ moves = {} /\ settled = FALSE /\ seasons = 0
    /\ stage = "idle" /\ index = EmptyIndex({}) /\ known = <<>>
    /\ cache = NoCache /\ copies = [s \in Saves |-> NotRead]

----------------------------------------------------------------------------
\* The run's club identities.

\* load_cache: nothing of a file that cannot be read.
Cached(s) == IF cache = Unreadable THEN <<>> ELSE cache[s]

\* context::load. The save may have lost clubs to an update of the game.
Open ==
    /\ stage = "idle"
    /\ stage' = "open"
    /\ \E gone \in {{}, Abroad} : index' = BuildIndex(Clubs \ gone, Cached("this"))
    /\ known' = Cached("this")
    /\ moves' = {} /\ settled' = FALSE
    /\ UNCHANGED <<cache, copies, divisions, plays, seasons>>

\* ClubIdentityIndex::save reads what the other saves have, or starts afresh.
ReadCache(s) == copies' = [copies EXCEPT ![s] = IF cache = Unreadable THEN NoCache ELSE cache]

WriteCache(s, learned) ==
    /\ cache' = [copies[s] EXCEPT ![s] = learned]
    /\ copies' = [copies EXCEPT ![s] = NotRead]

\* Run::plan.
Learn(squads) ==
    /\ stage = "open"
    /\ stage' = "saving"
    /\ index' = FoldLeft(LearnFromSnapshot, index, squads)
    /\ known' = [t \in DOMAIN known \cup {s.team : s \in Range(squads) \cap Telling} |-> Is[t]]
    /\ ReadCache("this")
    /\ UNCHANGED <<cache, leagueVars>>

SaveIndex ==
    /\ stage = "saving"
    /\ stage' = "leagues"
    /\ WriteCache("this", index.learned)
    /\ UNCHANGED <<index, known, leagueVars>>

\* A run ends before its leagues: an error, a cancel, a crash, or a preview,
\* which learns and neither writes the cache nor the save.
Stop ==
    /\ stage # "idle"
    /\ stage' = "idle" /\ index' = EmptyIndex({}) /\ known' = <<>>
    /\ copies' = [copies EXCEPT !["this"] = NotRead]
    /\ UNCHANGED <<cache, leagueVars>>

OtherRun ==
    /\ \/ copies["other"] = NotRead /\ ReadCache("other") /\ UNCHANGED cache
       \/ copies["other"] # NotRead /\ WriteCache("other", Other)
    /\ UNCHANGED <<stage, index, known, leagueVars>>

\* Something else than the engine ruins the file.
Damage ==
    /\ cache' = Unreadable
    /\ UNCHANGED <<stage, index, known, copies, leagueVars>>

----------------------------------------------------------------------------
\* What a run learns. f names clubs that do not answer, clubs listed under a
\* cup, and leagues whose table does not load or is no plain one.

\* MIN_AGREEMENT is three fifths.
Agree(part, all) == 5 * part >= 3 * all

Bound(d) == Range(divisions[d]) \cap DOMAIN index.held
BoundClubs(d) == SelectSeq(divisions[d], LAMBDA c : c \in Bound(d))
League(c) == plays[index.held[c]]

WorthAsking(d) == Len(divisions[d]) \in Sizes /\ Len(BoundClubs(d)) >= MinBound

\* Clubs spread evenly over the division.
PickSamples(d) ==
    LET ids == BoundClubs(d)
    IN  IF ~WorthAsking(d) THEN {}
        ELSE IF Len(ids) <= Samples THEN Range(ids)
        ELSE {ids[(k * (Len(ids) - 1)) \div (Samples - 1) + 1] : k \in 0 .. Samples - 1}

ToAsk == UNION {PickSamples(d) : d \in Divisions}
Answers(f, d) == PickSamples(d) \ f.silent
Listed(f, c) == IF c \in f.cup THEN Cup ELSE League(c)
Teams(league) == {c \in DOMAIN index.held : League(c) = league}

\* The country that enough answers agree on: none, or one in a set.
AgreedCountry(f, d) ==
    {n \in Range(Country) :
        /\ Cardinality(Answers(f, d)) >= MinAnswers
        /\ Agree(Cardinality({c \in Answers(f, d) : Country[League(c)] = n}), Cardinality(Answers(f, d)))}

\* The leagues a division may be are those named first, by the most.
NamedBefore(f, d, l, k) ==
    LET votes(x) == Cardinality({c \in Answers(f, d) : Listed(f, c) = x})
    IN  votes(l) > votes(k) \/ (votes(l) = votes(k) /\ l < k)

Candidates(f, d) ==
    LET named == {Listed(f, c) : c \in Answers(f, d)}
    IN  {l \in named : Cardinality({k \in named : NamedBefore(f, d, k, l)}) < MaxCandidates}

Paired(f, d) ==
    /\ AgreedCountry(f, d) # {}
    /\ \E n \in {d - 1, d + 1} \cap Divisions : AgreedCountry(f, n) = AgreedCountry(f, d)

\* Mutant: the first league named is believed.
ConfirmsAny(d, league) == TRUE

Confirms(d, league) ==
    LET bound == Bound(d)
    IN  /\ Cardinality(bound) >= MinBound
        /\ Agree(Cardinality(bound \cap Teams(league)), Cardinality(bound))

\* The league a division is found to be: none, or one in a set.
Resolved(f, d) ==
    LET good == {l \in Candidates(f, d) \ ({Cup} \cup f.refused) :
                    Country[l] \in AgreedCountry(f, d) /\ Confirms(d, l)}
    IN  {l \in good : Paired(f, d) /\ \A k \in good \ {l} : NamedBefore(f, d, l, k)}

----------------------------------------------------------------------------
\* What a run does with it.

\* Clubs of a division that now play in the league `to` and not in `from`.
Leaving(d, from, to) == Range(divisions[d]) \cap (Teams(to) \ Teams(from))

Balanced(up, down) == Cardinality(up) = Cardinality(down) /\ Cardinality(up) <= MaxSwaps

\* How many clubs of S are above c in division d.
Above(d, S, c) ==
    LET list == divisions[d]
    IN  Cardinality({b \in S : \E i, j \in DOMAIN list : i < j /\ list[i] = b /\ list[j] = c})

\* The first that goes up changes places with the first that goes down, and so on.
Pairs(upper, up, down) ==
    {s \in [upper : {upper}, up : up, down : down] : Above(upper + 1, up, s.up) = Above(upper, down, s.down)}

SwapsBetween(upper, high, low) ==
    LET up == Leaving(upper + 1, low, high)
        down == Leaving(upper, high, low)
    IN  IF high # low /\ Country[high] = Country[low] /\ Balanced(up, down)
        THEN Pairs(upper, up, down) ELSE {}

\* plan_swaps: each division with the next one, when both are resolved.
PlanSwaps(f) ==
    UNION {UNION {SwapsBetween(d, high, low) : high \in Resolved(f, d), low \in Resolved(f, d + 1)} :
             d \in {d \in Divisions : d + 1 \in Divisions}}

Put(list, old, new) == [i \in DOMAIN list |-> IF list[i] = old THEN new ELSE list[i]]

\* Mutant: the lower division is not rewritten.
SwappedAbove(lists, s) == [lists EXCEPT ![s.upper] = Put(@, s.down, s.up)]

\* The promoted club takes the relegated club's slot and the other way round.
Swapped(lists, s) ==
    IF s.up \in Range(lists[s.upper + 1]) /\ s.down \in Range(lists[s.upper])
    THEN [lists EXCEPT ![s.upper] = Put(@, s.down, s.up), ![s.upper + 1] = Put(@, s.up, s.down)]
    ELSE lists

\* The save refuses a division of another size, a club twice, a new club.
CheckMembership(old, new) ==
    /\ \A d \in Divisions : Len(old[d]) = Len(new[d])
    /\ ClubsOf(new) \subseteq ClubsOf(old)
    /\ NoClubTwice(new)

\* leagues::run; fewer answers than half of those asked for end it.
UpdateLeagues(f) ==
    LET plan == IF 2 * Cardinality(ToAsk \ f.silent) < Cardinality(ToAsk) THEN {} ELSE PlanSwaps(f)
        updated == FoldSet(LAMBDA s, lists : Swapped(lists, s), divisions, plan)
    IN  /\ stage = "leagues" /\ stage' = "idle" /\ index' = EmptyIndex({}) /\ known' = <<>>
        /\ IF CheckMembership(divisions, updated)
           THEN /\ divisions' = updated
                /\ moves' = UNION {{<<s.up, s.upper>>, <<s.down, s.upper + 1>>} : s \in plan}
           ELSE moves' = {} /\ UNCHANGED divisions
        /\ settled' = (f = NoFaults)
        /\ UNCHANGED <<plays, seasons, cache, copies>>

\* Teams of two leagues change places.
NewSeason ==
    /\ stage = "idle" /\ seasons < MaxSeasons
    /\ seasons' = seasons + 1
    /\ moves' = {} /\ settled' = FALSE
    /\ \E changed \in Exchanges :
          plays' = [t \in DOMAIN Is |->
                      LET with == {x \in changed : t \in {x[1], x[2]}}
                      IN  IF with = {} THEN plays[t]
                          ELSE LET x == CHOOSE x \in with : TRUE
                               IN  plays[IF t = x[1] THEN x[2] ELSE x[1]]]
    /\ UNCHANGED <<divisions, identityVars>>

Next ==
    \/ Open \/ SaveIndex \/ Stop \/ OtherRun \/ Damage \/ NewSeason
    \/ \E squads \in SUBSET Squads : Learn(SetToSeq(squads))
    \/ \E f \in Faults : UpdateLeagues(f)

Spec == Init /\ [][Next]_vars

----------------------------------------------------------------------------
\* A run knows a team whose complete squad it has seen, or an earlier run
\* of this save whose cache was kept, for the club that squad is of
\* (club_identity.rs, 393-463): no name, no squad of a kindred team and no
\* other binding takes the team or the club away.
BoundAsSeen ==
    \A t \in DOMAIN known : known[t] \in index.clubs =>
        /\ known[t] = Is[t] /\ At(index.of, t) = {Is[t]} /\ At(index.held, Is[t]) = {t}
        /\ \A c \in DOMAIN index.held \ {Is[t]} : index.held[c] # t

\* Most of the bound clubs of each division still play in its league.
Recognisable ==
    \A d \in Divisions :
        Agree(Cardinality({c \in Bound(d) : League(c) = LeagueOf(d)}), Cardinality(Bound(d)))

DivisionOf(lists, c) == CHOOSE d \in Divisions : c \in Range(lists[d])

\* While divisions can be recognised, a run moves a club only to the division
\* of the league it plays in, whatever answers are missing or misleading; and
\* it reports the moves it made, neither more nor fewer (LeagueMove, 431-467).
MovesAreRight ==
    [][LET moved == {c \in ClubsOf(divisions) : DivisionOf(divisions', c) # DivisionOf(divisions, c)}
       IN  stage = "leagues" /\ Recognisable =>
             /\ \A c \in moved : League(c) = LeagueOf(DivisionOf(divisions', c))
             /\ moves' = {<<c, DivisionOf(divisions', c)>> : c \in moved}]_vars

\* And so do most of the clubs that are asked.
WellSampled ==
    \A d \in Divisions : PickSamples(d) # {} =>
        2 * Cardinality({c \in PickSamples(d) : League(c) = LeagueOf(d)}) > Cardinality(PickSamples(d))

\* Clubs of division d that play in the league of division e.
Misplaced(d, e) == {c \in Bound(d) : League(c) = LeagueOf(e)}

\* With every answer at hand, a run that recognises the divisions and their samples
\* swaps all the clubs that changed between two neighbours of one country, if
\* as many went up as came down (plan_swaps, 136-196): nothing is left for a
\* second run of the season.
SwapsAreMade ==
    [][~settled /\ settled' /\ Recognisable /\ WellSampled =>
         \A d \in Divisions : d + 1 \in Divisions =>
            LET up == Misplaced(d + 1, d)
                down == Misplaced(d, d + 1)
            IN  Country[LeagueOf(d)] = Country[LeagueOf(d + 1)]
                  /\ Cardinality(up) = Cardinality(down) /\ Cardinality(up) <= MaxSwaps
                => /\ down \cap Range(divisions'[d]) = {} /\ down \subseteq Range(divisions'[d + 1])
                   /\ up \cap Range(divisions'[d + 1]) = {} /\ up \subseteq Range(divisions'[d])]_vars
============================================================================
