----------------------------- MODULE PlayerNames -----------------------------
(***************************************************************************)
(* Finding the save player a provider's name means                         *)
(* (fl-engine/src/matcher): an exact name, then a similar name in the      *)
(* rosters of the event's clubs, then a similar name anywhere; position,   *)
(* nationality and age reject candidates and break ties.                   *)
(*                                                                         *)
(* A query is a record [name, position, nation, age]; Unknown, NoNation    *)
(* and 0 say the provider does not tell. Names are compared folded, and    *)
(* how similar two of them are is data (Alike): the scorers of fl-text are *)
(* not modelled. Positions are the save's codes; provider labels that only *)
(* name a line are left out. A result is the player and the confidence.    *)
(***************************************************************************)
EXTENDS Roster

CONSTANTS
    NamesOf,    \* the names the save and the catalogs have for a player
    Alike,      \* <<provider's name, name>>: [score, words], 0..100, for
                \* similar names: the name score and the token-set ratio
    Suffixed,   \* <<one word, that word and only "Jr", "Neto"... after it>>
    Age,        \* 0 when unknown
    Nation, NoNation

Threshold == 80          \* MATCH_THRESHOLD_PLAYER, what a run asks for
BonusMax == 12           \* METADATA_BONUS_MAX
ContextConfidence == 90  \* CONTEXT_MIN_CONFIDENCE
Margin == 3              \* AMBIGUITY_MARGIN
MaxAgeGap == 4           \* MAX_AGE_GAP

ASSUME PlayerNamesAssumption ==
    /\ DOMAIN NamesOf = Players
    /\ \A d \in DOMAIN Alike : Alike[d].score \in 0 .. 100 /\ Alike[d].words \in 0 .. 100
    /\ Age \in [Players -> Nat] /\ DOMAIN Nation = Players

Only(S) == IF Cardinality(S) = 1 THEN CHOOSE x \in S : TRUE ELSE Nobody

Match(p, sure) == [player |-> p, sure |-> sure]
NoMatch == Match(Nobody, 0)

(***************************************************************************)
(* Metadata                                                                *)
(***************************************************************************)
\* Positions that providers and the save put on different lines: attacking
\* midfield and second striker, wingers and wide midfield, full-backs and
\* wide midfield.
Crossing == {{8, 11}, {6, 7, 9, 10}, {2, 3, 6, 7}}

PositionFits(p, code) ==
    \/ Unknown \in {code, PosOf[p]}
    \/ Line(code) = Line(PosOf[p])
    \/ \E group \in Crossing : {code, PosOf[p]} \subseteq group

AgeGap(p, age) == IF Age[p] > age THEN Age[p] - age ELSE age - Age[p]
AgeFits(p, age) == 0 \in {age, Age[p]} \/ AgeGap(p, age) <= MaxAgeGap

\* What is not known contradicts nothing.
Fits(p, q) == PositionFits(p, q.position) /\ AgeFits(p, q.age)

SameNation(p, q) == q.nation # NoNation /\ Nation[p] = q.nation

\* By nationality, then by the smallest age gap, each only when it is known of
\* every candidate.
Narrowed(S, q) ==
    LET same == {p \in S : SameNation(p, q)}
        home == IF same # {} /\ \A p \in S : Nation[p] # NoNation THEN same ELSE S
    IN  IF q.age = 0 \/ \E p \in home : Age[p] = 0 THEN home
        ELSE {p \in home : \A o \in home : AgeGap(p, q.age) <= AgeGap(o, q.age)}

(***************************************************************************)
(* Scores                                                                  *)
(***************************************************************************)
Similar(name, own) ==
    IF name = own THEN [score |-> 100, words |-> 100]
    ELSE IF <<name, own>> \in DOMAIN Alike THEN Alike[<<name, own>>]
    ELSE [score |-> 0, words |-> 0]

Bonus(p, q) ==
      (IF Unknown \notin {q.position, PosOf[p]} /\ Line(q.position) = Line(PosOf[p]) THEN 2 ELSE 0)
    + (IF SameNation(p, q) THEN 6 ELSE 0)
    + (IF 0 \notin {q.age, Age[p]} /\ AgeGap(p, q.age) <= 1 THEN 4 ELSE 0)

NameScore(q, own, p) ==
    IF Fits(p, q) THEN Least(100, Similar(q.name, own).score + Bonus(p, q)) ELSE 0

\* One record per name of a player that could reach the threshold.
Scored(q, threshold, among) ==
    UNION {{[player |-> p, score |-> NameScore(q, own, p),
             suffix |-> IF <<q.name, own>> \in Suffixed THEN 1 ELSE 0] :
                own \in {n \in NamesOf[p] : Similar(q.name, n).words >= threshold - BonusMax}} :
            p \in among}

Best(S) ==
    CHOOSE s \in S : \A o \in S : s.score > o.score \/ (s.score = o.score /\ s.suffix >= o.suffix)

\* Nobody else comes close; a recognised suffix decides between equals.
Above(top, next) ==
    top.score - next.score >= Margin \/ (top.score = next.score /\ top.suffix > next.suffix)
Clear(top, others) == others = {} \/ Above(top, Best(others))

(***************************************************************************)
(* The cascade                                                             *)
(***************************************************************************)
\* Namesakes: the first roster with one of them narrows the choice.
ResolvedExact(q, exact, rosters) ==
    LET fit == {p \in exact : Fits(p, q)}
        at == SelectSeq(rosters, LAMBDA r : r \cap fit # {})
    IN  Only(Narrowed(IF at = <<>> THEN fit ELSE fit \cap Head(at), q))

\* The winner of a roster: weak or doubtful is nobody.
RosterWinner(S) ==
    LET top == Best(S)
    IN  IF top.score >= ContextConfidence /\ Clear(top, {o \in S : o.player # top.player})
        THEN Match(top.player, top.score) ELSE NoMatch

\* Anywhere: contenders close to the best, and those of them that metadata do
\* not set apart.
Contenders(S, top) ==
    {s \in S : /\ top.score - s.score < Margin
               /\ s.player = top.player \/ ~(s.score = top.score /\ s.suffix < top.suffix)}
TieBroken(close, q) ==
    LET placed == {p \in close : PosOf[p] # Unknown /\ PositionFits(p, q.position)}
    IN  Narrowed(IF q.position = Unknown \/ placed = {} THEN close ELSE placed, q)
Winner(near, p, threshold) ==
    LET best == Best({s \in near : s.player = p})
    IN  IF p # Nobody /\ best.score >= threshold THEN Match(p, best.score) ELSE NoMatch
FuzzyWinner(q, near, threshold) ==
    Winner(near, Only(TieBroken({s.player : s \in near}, q)), threshold)

\* The first roster with somebody likely decides, then the whole game.
Anywhere(q, threshold, S) ==
    IF \A s \in S : s.score < threshold THEN NoMatch
    ELSE FuzzyWinner(q, Contenders(S, Best(S)), threshold)
BySimilarity(q, threshold, rosters) ==
    LET likely(r) == \E s \in Scored(q, threshold, r) : s.score >= threshold
        deciding == SelectSeq(rosters, likely)
    IN  IF deciding # <<>> THEN RosterWinner(Scored(q, threshold, Head(deciding)))
        ELSE Anywhere(q, threshold, Scored(q, threshold, Players))

\* rosters: of the source, then of the destination. Namesakes whose ages all
\* contradict, and namesakes nothing tells apart, end the search.
MatchPlayer(q, threshold, rosters) ==
    LET exact == {p \in Players : q.name \in NamesOf[p]}
        one == ResolvedExact(q, exact, rosters)
        hopeless == \/ exact # {} /\ \A p \in exact : ~AgeFits(p, q.age)
                    \/ Cardinality({p \in exact : Fits(p, q)}) > 1
    IN  IF one # Nobody THEN Match(one, 100)
        ELSE IF hopeless THEN NoMatch
        ELSE BySimilarity(q, threshold, rosters)
=============================================================================
