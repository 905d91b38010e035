---- MODULE MCRound ----
(* Three clubs of at most four: A is full, B and C are one over the minimum. *)
(* Feeds are at most two of the events, or three of the busy ones.           *)
EXTENDS Round

A == "A"
B == "B"
C == "C"
MCPlayers == {"gA", "x", "a1", "a2", "gB", "y", "b1", "gC", "w", "v", "z"}
MCFids == {<<"f", p>> : p \in MCPlayers \cup {"y2"}}
MCPosOf == [p \in MCPlayers |->
    CASE p \in {"gA", "gB", "gC"} -> 0 [] p \in {"x", "a1", "w", "v"} -> 1 [] p = "z" -> 13 [] OTHER -> 12]
MCNative == MCPlayers \ {"gC", "y", "z"}
MCRating == [p \in MCPlayers |-> [code \in 0 .. 12 |-> IF code = MCPosOf[p] THEN 7 ELSE 3]]
MCOverall == [p \in MCPlayers |-> CASE p = "a1" -> 5 [] p = "x" -> 4 [] OTHER -> 7]
MCNone == [p \in MCPlayers |-> 0]
MCFoot == [p \in MCPlayers |-> "none"]
MCPriority == [code \in 0 .. 13 |-> <<1, 2>>]

\* The names the save has: z has two, a1 and w are namesakes of different age.
MCNamesOf == [p \in MCPlayers |->
    CASE p = "z" -> {"nick", "z full"} [] p \in {"a1", "w"} -> {"twin"} [] OTHER -> {p}]
MCAge == [p \in MCPlayers |-> CASE p = "a1" -> 20 [] p = "w" -> 27 [] p = "x" -> 24 [] OTHER -> 0]
MCNation == [p \in MCPlayers |-> IF p \in {"b1", "a2"} THEN p ELSE NoNation]
\* The provider calls x by a nickname, which is another player's name, shortens
\* the name of gC, misspells that of b1, and has y twice.
MCNameOf == [p \in MCPlayers \cup {"y2"} |->
    CASE p = "x" -> "nick" [] p = "z" -> "z full" [] p \in {"a1", "w"} -> "twin"
      [] p = "y2" -> "y" [] p = "gC" -> "g c" [] p = "b1" -> "b" [] OTHER -> p]
MCAlike ==
    <<"nick", "x">> :> [score |-> 85, words |-> 80] @@ <<"g c", "gC">> :> [score |-> 91, words |-> 75]
    @@ <<"b", "b1">> :> [score |-> 86, words |-> 86] @@ <<"b", "a2">> :> [score |-> 86, words |-> 86]
MCLeads == {<<"nick", "x">>}
MCOneWord == {"nick", "b"}
MCProfile == [f \in MCFids |->
    LET p == f[2]
    IN  [name |-> MCNameOf[p], position |-> IF p \in {"y2", "z"} THEN 13 ELSE MCPosOf[p],
         nation |-> IF p = "y2" THEN NoNation ELSE MCNation[p],
         age |-> IF p = "y2" THEN 0 ELSE MCAge[p], number |-> IF p = "x" THEN 2 ELSE 0]]

Club4(ids) ==
    [ids |-> ids, shirts |-> [s \in 1 .. 4 |-> IF ids[s] = Nobody THEN 0 ELSE s],
     lineup |-> <<1, 2, 3, 4>>, captain |-> 0, form |-> <<0, 1>>]
Start == [k \in {A, B, C} |->
    CASE k = A -> Club4(<<"gA", "x", "a1", "a2">>)
      [] k = B -> Club4(<<"gB", "y", "b1", Nobody>>)
      [] OTHER -> Club4(<<"gC", "w", "v", Nobody>>)]
MCSaves == {Start}

\* A and B are bound to a team, C is found by its name. The provider has a
\* second team of A, which has A's name, and names like those of two clubs.
MCClubName == [k \in {A, B, C} |-> IF k = B THEN "fc beta" ELSE IF k = A THEN "alpha" ELSE "gamma"]
MCTeamOf == [k \in {A, B, C} |-> IF k = C THEN NoTeam ELSE IF k = A THEN "tA" ELSE "tB"]
MCTeamNames == [t \in {"tA", "tB"} |-> IF t = "tA" THEN {"alpha town", "gamma"} ELSE {"real beta"}]
MCAffixed == "fc beta" :> "beta" @@ "real beta" :> "beta" @@ "gamma fc" :> "gamma"
MCClubAlike == <<"gamme", "gamma">> :> 90 @@ <<"alpher", "alpha">> :> 80 @@ <<"alpher", "gamma">> :> 79
Reserves == "reserves"
Alikes == "similar"
Both == "both"
Side(k) ==
    CASE k = A -> [team |-> "tA", names |-> {"fc alpha"}]
      [] k = B -> [team |-> NoTeam, names |-> {"beta", "beta city"}]
      [] k = C -> [team |-> "tC", names |-> {"gamma fc"}]
      [] k = Reserves -> [team |-> "tA2", names |-> {"alpha"}]
      [] k = Alikes -> [team |-> NoTeam, names |-> {"gamme", "alpher"}]
      [] k = Both -> [team |-> NoTeam, names |-> {"alpha town", "gamma"}]
      [] k = "free" -> [team |-> NoTeam, names |-> {"free agent"}]
      [] OTHER -> [team |-> "tX", names |-> {"omega"}]

Event(p, from, to, kind, date) ==
    LET q == MCProfile[<<"f", p>>]
    IN  [fid |-> <<"f", p>>, name |-> q.name, position |-> q.position, nation |-> q.nation,
         age |-> q.age, from |-> Side(from), to |-> Side(to), kind |-> kind, date |-> date,
         number |-> 0, infer |-> "no"]
\* Departures of B with a goalkeeper on his way there, and the ways of x.
Busy == {
    Event("y", B, A, "transfer", 2),
    [Event("gC", C, B, "transfer", 1) EXCEPT !.position = 13],
    Event("b1", B, Outside, "release", 2),
    Event("x", A, B, "transfer", 1),
    Event("x", A, C, "loan", 2),
    Event("x", B, C, "transfer", 2),
    [Event("y", Outside, C, "transfer", 2) EXCEPT !.infer = "proven"],
    [Event("y", B, C, "transfer", 3) EXCEPT !.name = "b1"] }
Events == Busy \cup {
    Event("x", A, B, "loan", 1),
    Event("x", A, C, "transfer", 2),
    Event("x", B, A, "end of loan", 3),
    Event("z", Outside, A, "transfer", 1),
    Event("w", C, A, "transfer", 2),
    Event("w", C, "free", "release", 1),
    Event("w", C, Alikes, "transfer", 2),
    Event("a1", Reserves, Both, "transfer", 2),
    Event("a1", A, C, "transfer", 1),
    Event("a1", Outside, B, "transfer", 2),
    [Event("y", B, B, "shirt", 0) EXCEPT !.number = 1],
    [Event("gB", B, B, "shirt", 0) EXCEPT !.number = 2] }
MCFeeds == {{}} \cup {{e, f} : e, f \in Events} \cup {{e, f, g} : e, f, g \in Busy}

Fs(S) == {<<"f", p>> : p \in S}
Squad(name, S) == [name |-> name, members |-> Fs(S)]
MCSquadSets == {
    <<>>,
    "tA" :> Squad("alpha", {"gA", "x", "a1", "z"}) @@ "tA2" :> Squad("alpha", {"y", "w"}),
    "tB" :> Squad("beta", {"gB", "y", "b1", "w"}) @@ "tC" :> Squad("gamma", {"gC", "x", "a1"}),
    "tA" :> Squad("alpha town", {"gA", "x", "a1", "a2", "z"}) @@ "tB" :> Squad("fc beta", {"gB", "y"})
        @@ "tC" :> Squad("gamma fc", {"y2", "gC", "w", "v"}) }
Logged(p, from, to, kind, date) ==
    [player |-> p, fid |-> <<"f", p>>, from |-> from, to |-> to, kind |-> kind, date |-> date,
     number |-> 0, position |-> 13, sure |-> 100]
MCLogs == {<<>>, <<Logged("x", A, B, "loan", 1), Logged("x", B, A, "end of loan", 2),
                   Logged("a1", A, Outside, "loan", 1)>>}
\* Everything, single parts, and everything but one.
MCPartSets ==
    {AllParts, {"transfers"}, AllParts \ {"transfers"}, AllParts \ {"lineups"}}
    \cup {{part} : part \in AllParts}
MCShape == [k \in {A, B, C} |-> IF k = A THEN <<0, 12>> ELSE NoShape]
MCMarker == [k \in {A, B, C} |-> IF k = B THEN <<"f", "y">> ELSE NoFid]
====
