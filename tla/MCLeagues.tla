----------------------------- MODULE MCLeagues -----------------------------
(* Three divisions of one country, of five clubs each, one of another, and *)
(* clubs of a fourth league below. Exchanges pick the clubs of a season.   *)
EXTENDS Leagues

CONSTANTS a1, a2, a3, a4, a5, b1, b2, b3, b4, b5, c1, c2, c3, c4, c5, x1, x2, x3, n1

MCLists == << <<a1, a2, a3, a4, a5>>, <<b1, b2, b3, b4, b5>>, <<c1, c2, c3, c4, c5>>, <<x1, x2, x3>> >>
MCAbroad == {n1}
MCIs ==
    101 :> a1 @@ 102 :> a2 @@ 103 :> a3 @@ 104 :> a4 @@ 105 :> a5
    @@ 201 :> b1 @@ 202 :> b2 @@ 203 :> b3 @@ 204 :> b4 @@ 205 :> b5
    @@ 301 :> c1 @@ 302 :> c2 @@ 303 :> c3 @@ 304 :> c4 @@ 305 :> c5
    @@ 401 :> x1 @@ 402 :> x2 @@ 403 :> x3 @@ 501 :> n1
    @@ 1602 :> "second team of a2" @@ 2104 :> "women of a4"
MCHome == [t \in DOMAIN MCIs |->
    IF t = 1602 THEN 2 ELSE IF t = 2104 THEN 5 ELSE t \div 100]
MCCountry == <<"home", "home", "home", "away", "home">>

Like(tier, score) == [tier |-> tier, score |-> score, linked |-> TRUE]
OwnName(c) == (CHOOSE t \in DOMAIN MCIs : MCIs[t] = c) :> Like(3, 100)
\* The second team of a2 has its name, c4's team one like c5's; x2 and x3 have
\* names like one team's.
MCAlike == [c \in Clubs |->
    CASE c = a2 -> 102 :> Like(1, 93) @@ 1602 :> Like(3, 100)
      [] c = a4 -> 104 :> Like(3, 100) @@ 2104 :> Like(3, 100)
      [] c = n1 -> 501 :> [tier |-> 1, score |-> 91, linked |-> FALSE]
      [] c = c4 -> 304 :> Like(1, 88) @@ 305 :> Like(1, 86)
      [] c = c5 -> 304 :> Like(2, 98) @@ 305 :> Like(1, 99)
      [] c \in {x2, x3} -> 402 :> Like(1, 97)
      [] OTHER -> OwnName(c)]
MCLegacy == {t \in DOMAIN MCIs : t < 1000}

Squad(team, found) == [team |-> team, complete |-> TRUE, size |-> 20, found |-> found]
MCTelling == {Squad(102, a2 :> 15 @@ b1 :> 2), Squad(304, c4 :> 12 @@ n1 :> 4)}
\* Players lent between a2 and its second team; a list cut short.
MCSquads == MCTelling \cup
    {Squad(1602, a2 :> 12 @@ a1 :> 5), [Squad(305, c4 :> 14) EXCEPT !.complete = FALSE]}
MCOther == 7 :> a1

MCFaults ==
    {f \in [silent : SUBSET {a3, b1, c1}, cup : SUBSET {b1, c3}, refused : SUBSET {1, 2}] :
        Cardinality(f.silent) + Cardinality(f.cup) + Cardinality(f.refused) <= 1}
\* The first of each pair is anywhere above the second.
MCExchanges ==
    LET ab == {101, 103} \X {201, 203}
        apart(p, q) == {p[1], p[2]} \cap {q[1], q[2]} = {}
    IN  {{<<101, 201>>}, {<<204, 301>>}, {<<302, 501>>}, {<<103, 205>>, <<204, 302>>}}
        \cup {{x[1], x[2]} : x \in {x \in ab \X ab : apart(x[1], x[2])}}
============================================================================
