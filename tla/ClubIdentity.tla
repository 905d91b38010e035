---------------------------- MODULE ClubIdentity ----------------------------
(***************************************************************************)
(* Which FotMob team is which club of the save                             *)
(* (fl-engine/src/club_identity.rs). Names bind what they prove; a         *)
(* complete live squad that sits on one club's roster binds it whatever    *)
(* the names say, and is remembered for the next run of the same save.     *)
(* An index of the save's clubs binds both ways: held names a club's team  *)
(* (by_pes), of a team's club (by_fotmob).                                 *)
(***************************************************************************)
EXTENDS Integers, FiniteSets, Functions, FiniteSetsExt

CONSTANTS
    Alike,      \* of a club: the teams with a name like its own, and how alike
    Apart,      \* club and team of other categories: women, youth, reserves
    Legacy      \* team ids below LEGACY_FOTMOB_ID_LIMIT

EmptyIndex(clubs) == [clubs |-> clubs, held |-> <<>>, of |-> <<>>, learned |-> <<>>]

Without(f, x) == Restrict(f, DOMAIN f \ {x})
With(f, x, y) == [z \in DOMAIN f \cup {x} |-> IF z = x THEN y ELSE f[z]]
\* x, when f has it, in a set.
At(f, x) == {f[y] : y \in DOMAIN f \cap {x}}

----------------------------------------------------------------------------
\* The name pass, over scores in percent.

Candidate(c) == {t \in DOMAIN Alike[c] : <<c, t>> \notin Apart}

\* Tier 3 is the same name, 2 the same without affixes, 1 a similar one.
Better(a, b, t, u) ==
    \/ a.tier > b.tier
    \/ a.tier = b.tier /\ a.score > b.score
    \/ a.tier = b.tier /\ a.score = b.score /\ t < u

BestNamed(c) == {t \in Candidate(c) : \A u \in Candidate(c) \ {t} : Better(Alike[c][t], Alike[c][u], t, u)}

\* FUZZY_MARGIN is 5.
Rivals(c, best) ==
    {t \in Candidate(c) : Alike[c][t].tier = Alike[c][best].tier
                          /\ Alike[c][best].score - Alike[c][t].score < 5}

\* The team a club's name points at: none, or one in a set.
Proposal(c) ==
    UNION {LET rivals == Rivals(c, best)
               picked == IF Cardinality(rivals) = 1 THEN rivals ELSE rivals \cap Legacy
           IN  {t \in picked : /\ Alike[c][best].score >= 90
                               /\ Cardinality(picked) = 1
                               /\ Alike[c][t].tier = 1 => Alike[c][t].linked} :
             best \in BestNamed(c)}

\* A team that two clubs point at is bound to neither.
NameBindings(clubs) ==
    {b \in UNION {{<<t, c>> : t \in Proposal(c)} : c \in clubs} :
        \A d \in clubs \ {b[2]} : b[1] \notin Proposal(d)}

----------------------------------------------------------------------------
\* Mutant: the club the team had keeps its entry.
BindHalf(ix, t, c) ==
    LET formers == At(ix.held, c)
    IN  [clubs |-> ix.clubs, held |-> With(ix.held, c, t),
         of |-> With(Restrict(ix.of, DOMAIN ix.of \ formers), t, c),
         learned |-> Restrict(ix.learned, DOMAIN ix.learned \ formers)]

\* bind: the team leaves the club it had, the club the team it had.
Bind(ix, t, c) ==
    LET held == Restrict(ix.held, DOMAIN ix.held \ At(ix.of, t))
        of == Without(ix.of, t)
        formers == At(held, c)
    IN  [clubs |-> ix.clubs, held |-> With(held, c, t),
         of |-> With(Restrict(of, DOMAIN of \ formers), t, c),
         learned |-> Restrict(ix.learned, DOMAIN ix.learned \ formers)]

ApplyLearned(ix, t, c) ==
    LET bound == Bind(ix, t, c)
    IN  [bound EXCEPT !.learned = With(@, t, c)]

\* ClubIdentityIndex::build: names first, then what the save's cache has of clubs it still holds.
Named(ix, b) == Bind(ix, b[1], b[2])
Recalled(ix, b) == ApplyLearned(ix, b[1], b[2])
BuildIndex(clubs, cached) ==
    LET known == {<<t, cached[t]>> : t \in {x \in DOMAIN cached : cached[x] \in clubs}}
        named == FoldSet(LAMBDA b, ix : Named(ix, b), EmptyIndex(clubs), NameBindings(clubs))
    IN  FoldSet(LAMBDA b, ix : Recalled(ix, b), named, known)

----------------------------------------------------------------------------
\* learn_from_snapshot. A squad is a team, whether it is complete, its size,
\* and for each club how many of its players only that club has.

Matched(found) == FoldFunction(LAMBDA n, m : n + m, 0, found)

\* OVERLAP_MIN_MEMBERS, OVERLAP_MIN_SHARE and OVERLAP_RUNNER_UP_FACTOR.
Conclusive(found, c) ==
    /\ found[c] >= 11
    /\ 4 * found[c] >= 3 * Matched(found)
    /\ \A d \in DOMAIN found \ {c} : found[c] >= 3 * found[d]

\* The club a squad is found to be of, in a set: at most one.
Recognised(squad, clubs) ==
    LET found == Restrict(squad.found, DOMAIN squad.found \cap clubs)
    IN  {c \in DOMAIN found : /\ squad.complete /\ squad.size >= 11
                              /\ Conclusive(found, c) /\ <<c, squad.team>> \notin Apart}

LearnFromSnapshot(ix, squad) ==
    LET best == Recognised(squad, ix.clubs)
    IN  IF best = {} THEN ix ELSE ApplyLearned(ix, squad.team, CHOOSE c \in best : TRUE)
============================================================================
