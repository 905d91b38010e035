----------------------------- MODULE LiveSquads -----------------------------
(***************************************************************************)
(* Who the members of the complete live squads are                         *)
(* (fl-engine/src/planning/identity.rs): every member of every squad is    *)
(* looked for among the players of the squad's club first, and a save      *)
(* player claimed by two of the provider's players goes to the one seen at *)
(* a club that holds him.                                                  *)
(*                                                                         *)
(* Squads map a club to the provider's players of its complete squad, or   *)
(* to NoSquad. Rosters map a club to its players, shirts a club and a      *)
(* player to the number he wears.                                          *)
(***************************************************************************)
EXTENDS PlayerNames, ClubNames

CONSTANTS
    Fids,       \* the provider's players
    Profile,    \* what it says of each: a query and the shirt number, 0 for none
    Leads,      \* <<one word, name that begins with it>>
    OneWord,    \* names of a single word
    NoSquad

AliasScore == 80        \* MIN_SHORT_ALIAS_SCORE
AliasSure == 95         \* also what a global match of a member needs
\* ATTACKING_SHORT_ALIAS_POSITIONS
Attacking == {6, 7, 8, 9, 10, 11}

ASSUME LiveSquadsAssumption ==
    /\ NoSquad \notin Clubs /\ Nobody \notin Clubs
    /\ DOMAIN Profile = Fids

\* The squads of a scrape, by team with the team's name, as the squads of the
\* clubs they belong to.
SquadsOf(scraped) ==
    LET teams(k) == {t \in DOMAIN scraped : SnapshotClub(t, scraped[t].name) = k}
    IN  [k \in Clubs |-> IF teams(k) = {} THEN NoSquad
                         ELSE UNION {scraped[t].members : t \in teams(k)}]

SquadFids(squads) == UNION {squads[k] : k \in {j \in Clubs : squads[j] # NoSquad}}
Registered(rosters) == UNION {rosters[k] : k \in Clubs}

\* A single word, by the shirt: somebody of the roster who wears the member's
\* number, whose name is close enough, and nobody else does.
Alias(q, roster, shirtOf) ==
    LET alike(p, own) ==
            /\ \/ Fits(p, q)
               \/ /\ {q.position, PosOf[p]} \subseteq Attacking
                  /\ q.name = own \/ <<q.name, own>> \in Leads
            /\ Similar(q.name, own).score >= AliasScore
        wears == {p \in roster : shirtOf[p] = q.number /\ AgeFits(p, q.age)}
    IN  IF q.name \notin OneWord \/ q.number = 0 THEN Nobody
        ELSE Only({p \in wears : \E own \in NamesOf[p] : alike(p, own)})

\* Leaves the search to the next step.
Open == Match(Nobody, 1)

\* The namesakes decide: those of the squad's club before those of the game.
ByName(q, exact, here, everyone, alias) ==
    LET fit(S) == Only({p \in S : Fits(p, q)})
        one == Only(exact)
        held == exact \cap everyone
    IN  IF Cardinality(here) = 1
        THEN IF alias # Nobody THEN Match(alias, IF alias \in here THEN 100 ELSE AliasSure)
             ELSE Match(Only(here), 100)
        ELSE IF here # {}
        THEN IF fit(here) # Nobody THEN Match(fit(here), 100)
             ELSE IF alias # Nobody THEN Match(alias, AliasSure) ELSE NoMatch
        ELSE IF q.name \in OneWord \/ exact = {} THEN Open
        ELSE IF held = {} THEN IF one # Nobody /\ Fits(one, q) THEN Match(one, 100) ELSE Open
        ELSE IF Cardinality(held) = 1 THEN Match(Only(held), 100)
        ELSE IF fit(held) # Nobody THEN Match(fit(held), 100) ELSE NoMatch

\* The most similar player of the roster, unless another one is close.
NameScores(q, roster) ==
    UNION {{Match(p, NameScore(q, own, p)) : own \in NamesOf[p]} : p \in roster}
Surest(S) == CHOOSE s \in S : \A o \in S : s.sure >= o.sure
ClearlySurest(S, top) ==
    IF top.sure < ContextConfidence THEN Open
    ELSE IF \E o \in S : o.player # top.player /\ top.sure - o.sure < Margin THEN NoMatch
    ELSE top
InRoster(q, roster) ==
    LET scores == NameScores(q, roster)
    IN  IF scores = {} THEN Open ELSE ClearlySurest(scores, Surest(scores))

\* The game's only namesake, if some roster holds him.
HeldNamesake(q, one, everyone) ==
    IF one \in everyone /\ Fits(one, q) THEN Match(one, 100) ELSE Open

Elsewhere(q, found, everyone) ==
    IF q.name \in OneWord \/ found.player \notin everyone THEN NoMatch ELSE found

\* match_snapshot_member: a namesake, the shirt, a similar name of the roster,
\* the game's only namesake, and for more than one word a similar name of the
\* game that some roster holds. The first step that is not Open decides.
FirstSettled(q, k, rosters, alias, exact) ==
    LET roster == rosters[k]
        everyone == Registered(rosters)
        similar == MatchPlayer(q, AliasSure, IF roster = {} THEN <<>> ELSE <<roster>>)
    IN  Head(SelectSeq(<<ByName(q, exact, exact \cap roster, everyone, alias),
                         IF alias = Nobody THEN Open ELSE Match(alias, AliasSure),
                         InRoster(q, roster),
                         HeldNamesake(q, Only(exact), everyone),
                         Elsewhere(q, similar, everyone)>>,
                       LAMBDA step : step # Open))
MatchMember(q, k, rosters, shirtOf) ==
    FirstSettled(q, k, rosters, Alias(q, rosters[k], shirtOf[k]),
                 {p \in Players : q.name \in NamesOf[p] /\ AgeFits(p, q.age)})

\* sightings: who each member of each squad is taken for.
Sightings(squads, rosters, shirtOf) ==
    LET listed(k) == IF squads[k] = NoSquad THEN {} ELSE squads[k]
        sighting(f, k) == [fid |-> f, club |-> k,
                           player |-> MatchMember(Profile[f], k, rosters, shirtOf).player]
    IN  UNION {{sighting(f, k) : f \in listed(k)} : k \in Clubs}

\* Mutant: rivals for a save player all keep him.
AllClaims(sightings, rosters) == {s \in sightings : s.player # Nobody}

\* A provider's player is one save player in all his squads. Of the rivals for
\* a save player the one seen at a club that holds him keeps him; two or none
\* of that kind and nobody does.
Undisputed(sightings, rosters) ==
    LET claims == {s \in sightings : s.player # Nobody
                                     /\ \A o \in sightings : o.fid = s.fid => o.player \in {s.player, Nobody}}
        rivals(s) == {o \in claims : o.player = s.player}
        fids(S) == {o.fid : o \in S}
        anchored(s) == {o \in rivals(s) : o.player \in rosters[o.club]}
    IN  {s \in claims : {s.fid} \in {fids(rivals(s)), fids(anchored(s))}}

Live(squads, rosters, shirtOf) ==
    LET bound == Undisputed(Sightings(squads, rosters, shirtOf), rosters)
        of(f) == {s.player : s \in {b \in bound : b.fid = f}}
    IN  [player |-> [f \in Fids |-> Only(of(f))],
         squad |-> [k \in Clubs |-> {s.player : s \in {b \in bound : b.club = k}}]]
=============================================================================
