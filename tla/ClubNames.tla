----------------------------- MODULE ClubNames -----------------------------
(***************************************************************************)
(* The club of the save a provider's club is: by the provider's id when    *)
(* that is bound (ClubIdentity models how), else by its names              *)
(* (fl-engine/src/matcher/team.rs, club_identity.rs, planning/teams.rs).   *)
(*                                                                         *)
(* A name that is only similar to a club of the save is unresolved and not *)
(* outside the save: outside would turn a move into the save into a        *)
(* release. Names are compared folded; their similarity is data. A side of *)
(* an event is a record [team, names], team being NoTeam when the source   *)
(* has no ids.                                                             *)
(***************************************************************************)
EXTENDS Integers, FiniteSets

CONSTANTS
    Clubs,        \* the clubs of the save
    ClubName,     \* their names in it
    TeamOf,       \* the provider's team each is bound to, or NoTeam
    TeamNames,    \* of those teams: the names the provider has for them
    Affixed,      \* names with an "FC", "AC"...: the name without it
    ClubAlike,    \* <<name, name>> of similar clubs: 0..100
    NonClubs,     \* "free agent", "retired"...
    NoTeam, Outside, Unresolved

TeamThreshold == 75    \* MATCH_THRESHOLD_TEAM
Confident == 98        \* CONFIDENT_NAME_SCORE
CleanedExact == 98     \* CLEANED_EXACT_CONFIDENCE
NameMargin == 3        \* AMBIGUITY_MARGIN

ASSUME ClubNamesAssumption ==
    /\ Clubs \cap {Outside, Unresolved} = {} /\ Outside # Unresolved
    /\ DOMAIN ClubName = Clubs /\ DOMAIN TeamOf = Clubs
    /\ \A k, l \in Clubs : TeamOf[k] = TeamOf[l] /\ TeamOf[k] # NoTeam => k = l

Cleaned(name) == IF name \in DOMAIN Affixed THEN Affixed[name] ELSE name
NameAlike(a, b) ==
    IF a = b THEN 100 ELSE IF <<a, b>> \in DOMAIN ClubAlike THEN ClubAlike[<<a, b>>] ELSE 0

----------------------------------------------------------------------------
\* TeamDb::match_team, without the aliases: a club or Unresolved, and how sure.

Hit(club, sure) == [club |-> club, sure |-> sure]
OnlyClub(S) == IF Cardinality(S) = 1 THEN CHOOSE k \in S : TRUE ELSE Unresolved

\* The save's clubs under their names, and under those without affixes.
Named == {[name |-> ClubName[k], club |-> k] : k \in Clubs}
NamedBare == {[e EXCEPT !.name = Cleaned(@)] : e \in Named}
Called(name, entries) == {e.club : e \in {f \in entries : f.name = name}}

\* By similarity: the name that beats every other one by the margin, if it is
\* one club's.
Most(name, entries) ==
    CHOOSE e \in entries : \A f \in entries : NameAlike(name, e.name) >= NameAlike(name, f.name)
Clearly(name, top, score, entries) ==
    Hit(IF /\ score >= TeamThreshold
           /\ \A f \in entries : f.name = top \/ score - NameAlike(name, f.name) >= NameMargin
        THEN OnlyClub(Called(top, entries)) ELSE Unresolved, score)
Alikest(name, top, entries) == Clearly(name, top, NameAlike(name, top), entries)
Foremost(name, entries) == Alikest(name, Most(name, entries).name, entries)

\* The name as it is before the name without affixes.
EitherWay(full, bare) ==
    IF full.club = Unresolved /\ (bare.club # Unresolved \/ bare.sure > full.sure) THEN bare ELSE full
NameSettled(name, exact, cleaned) ==
    IF exact # {} THEN Hit(OnlyClub(exact), 100)
    ELSE IF cleaned # {} THEN Hit(OnlyClub(cleaned), CleanedExact)
    ELSE EitherWay(Foremost(name, Named), Foremost(Cleaned(name), NamedBare))
MatchTeam(name) == NameSettled(name, Called(name, Named), Called(Cleaned(name), NamedBare))

----------------------------------------------------------------------------
\* ClubIdentityIndex: the names of a bound team stand for its club, except a
\* name that another club of the save bears.

Aliases(k) ==
    {n \in IF TeamOf[k] = NoTeam THEN {} ELSE TeamNames[TeamOf[k]] :
        \A l \in Clubs \ {k} : ClubName[l] # n}
HasAlias(name) == {k \in Clubs : name \in Aliases(k)}
HasBareAlias(name) == {k \in Clubs : \E n \in Aliases(k) : Cleaned(n) = Cleaned(name)}

\* A match below the confidence is no answer, nor is a similar name that
\* several clubs share.
ByClubName(hit) ==
    IF hit.club # Unresolved /\ hit.sure >= Confident THEN hit.club
    ELSE IF hit.club # Unresolved \/ hit.sure >= TeamThreshold THEN Unresolved
    ELSE Outside
ByAlias(name, hits) ==
    IF hits # {} THEN OnlyClub(hits) ELSE ByClubName(MatchTeam(name))
ResolveName(name) ==
    IF name \in NonClubs THEN Outside
    ELSE ByAlias(name, IF HasAlias(name) # {} THEN HasAlias(name) ELSE HasBareAlias(name))

----------------------------------------------------------------------------
\* planning/teams.rs

BoundTo(team) == {k \in Clubs : team # NoTeam /\ TeamOf[k] = team}

\* The club a name gives the team, unless that is bound to another team: a
\* reserve or women's team, say.
UnlessBound(k, team) ==
    IF k \in Clubs /\ NoTeam \notin {team, TeamOf[k]} /\ TeamOf[k] # team THEN Unresolved ELSE k
NameGives(name, team) == UnlessBound(ResolveName(name), team)

\* resolve_identity_team. Names that give two clubs resolve to none.
Agreed(given) ==
    IF given \cap Clubs # {} THEN OnlyClub(given \cap Clubs)
    ELSE IF Unresolved \in given THEN Unresolved
    ELSE Outside
BySideNames(side) == Agreed({NameGives(n, side.team) : n \in side.names})

\* match_transfer_team
SideClub(side) ==
    IF side.names \cap NonClubs # {} THEN Outside
    ELSE IF BoundTo(side.team) # {} THEN OnlyClub(BoundTo(side.team))
    ELSE BySideNames(side)

\* resolve_snapshot_club: the club a live squad belongs to, if it is one.
SnapshotClub(team, name) ==
    IF BoundTo(team) # {} THEN OnlyClub(BoundTo(team)) ELSE NameGives(name, team)
=============================================================================
