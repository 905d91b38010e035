---- MODULE MCRosterOps ----
(* Two clubs: A is full, rated throughout, with two goalkeepers; B has room, *)
(* players without abilities and one without a known position. The catalog   *)
(* alone has the positions of g3 and f2, so a feed may name others.          *)
EXTENDS RosterOps

CONSTANTS g1, g2, d1, d2, f1, u1, m1, f2, g3

MCPlayers == {g1, g2, d1, d2, f1, u1, m1, f2, g3}
MCPosOf == [p \in MCPlayers |->
    CASE p \in {g1, g2, g3} -> 0 [] p \in {d1, d2} -> 1 [] p = m1 -> 5
      [] p \in {f1, f2} -> 12 [] OTHER -> 13]
MCNative == MCPlayers \ {u1, g3, f2}
MCRated == MCPlayers \ {u1, f2}
MCRating == [p \in MCPlayers |-> [code \in 0 .. 12 |->
    IF code = MCPosOf[p] THEN (CASE p = g2 -> 9 [] p = d2 -> 8 [] OTHER -> 7) ELSE 3]]
MCOverall == [p \in MCPlayers |-> CASE p = g2 -> 9 [] p = d2 -> 8 [] p = m1 -> 5 [] OTHER -> 7]
MCUsage == [p \in MCPlayers |-> CASE p = d1 -> 4 [] p = f1 -> 2 [] OTHER -> -1]
MCFoot == [p \in MCPlayers |-> CASE p = d1 -> "left" [] p = d2 -> "right" [] OTHER -> "none"]
MCCaps == [p \in MCPlayers |-> CASE p \in {d1, m1} -> 3 [] p = g3 -> 5 [] OTHER -> 0]
MCPriority == [code \in 0 .. 13 |-> IF code = 0 THEN <<1, 5>> ELSE <<2, 3>>]
MCForms == {<<0, 1, 12>>, <<0, 1, 1>>}

Club4(ids, captain) ==
    [ids |-> ids, shirts |-> [s \in 1 .. 5 |-> IF ids[s] = Nobody THEN 0 ELSE s],
     lineup |-> <<1, 2, 3, 4, 5>>, captain |-> captain, form |-> <<0, 1, 12>>]
MCSaves == {
    [k \in {"A", "B"} |->
        IF k = "A" THEN Club4(<<g1, d1, f1, d2, g2>>, 2)
        ELSE Club4(<<g3, m1, f2, u1, Nobody>>, 0)],
    [k \in {"A", "B"} |->
        IF k = "A" THEN [Club4(<<d1, g1, f1, d2, g2>>, 2) EXCEPT !.lineup = <<2, 1, 3, 5, 4>>]
        ELSE [Club4(<<g3, m1, f2, u1, Nobody>>, 5) EXCEPT !.lineup = <<3, 3, 255, 1, 2>>,
                                                               !.shirts = <<1, 0, 0, 4, 0>>,
                                                               !.form = <<0, 0, 12>>]] }
====
